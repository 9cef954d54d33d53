------------------------------- MODULE MCShm -------------------------------
(***************************************************************************)
(* An instance of Shm for TLC.                                             *)
(***************************************************************************)
EXTENDS Shm, TLC

CONSTANTS t1, t2, t3, u1, u2, m1, m2, k1

(* t1 and t2 are threads of one process that run as two users; t3 is the   *)
(* process t1 may fork.                                                    *)
MCMmOf == [t \in Tasks |-> IF t = t3 THEN m2 ELSE m1]
MCUserOf == [t \in Tasks |-> IF t = t2 THEN u2 ELSE u1]

(* Attaches are copied, split and closed by three tasks; or two users lock *)
(* and unlock the segments meanwhile; or segments come and go until the    *)
(* sequence numbers start again.                                           *)
MCScenarios == {
    [shmget |-> {t2}, rmid |-> {t2}, lock |-> {}, shmat |-> {t1, t3}, munmap |-> {t3},
     split |-> {t3}, fork |-> {t1}, unshare |-> {t2},
     sizes |-> {1}, huge |-> {FALSE}, born |-> 2],
    [shmget |-> {t1}, rmid |-> {t2}, lock |-> {t1, t2}, shmat |-> {t1}, munmap |-> {t2},
     split |-> {}, fork |-> {}, unshare |-> {t1},
     sizes |-> {1, 3}, huge |-> BOOLEAN, born |-> 2],
    [shmget |-> {t1}, rmid |-> {t2}, lock |-> {}, shmat |-> {t2}, munmap |-> {},
     split |-> {}, fork |-> {}, unshare |-> {},
     sizes |-> {1}, huge |-> {FALSE}, born |-> 4]}
=============================================================================
