------------------------------- MODULE SemOps -------------------------------
(***************************************************************************)
(* The arithmetic of semaphore operations: try_atomic_semop() and the      *)
(* adjustments of exit_sem() (ipc/sem.c), with the definition they are     *)
(* meant to compute.                                                       *)
(***************************************************************************)
EXTENDS Integers, Sequences, SequencesExt, FiniteSetsExt

CONSTANTS
    Sems,      \* the semaphores of a set
    SEMVMX     \* largest value of a semaphore

ASSUME SemAssumption == SEMVMX \in Nat \ {0} /\ Sems # {}

SEMAEM == SEMVMX

(* struct sembuf                                                           *)
SopSet == [num : Sems, op : Int, nowait : BOOLEAN, undo : BOOLEAN]

Values == [Sems -> 0 .. SEMVMX]
Adjs   == [Sems -> -SEMAEM - 1 .. SEMAEM]
NoAdj  == [n \in Sems |-> 0]

(* semadj is an array of shorts; SEMAEM is the largest short.              *)
Short(x) == ((x + SEMAEM + 1) % (2 * (SEMAEM + 1))) - (SEMAEM + 1)

(* One round of the first loop of try_atomic_semop(): perform sop, or stop *)
(* with an error or the need to sleep.                                     *)
Perform(adj, a, sop) ==
    LET r == a.val[sop.num] + sop.op
        u == adj[sop.num] - sop.op
    IN
    IF a.res # "run" THEN a
    ELSE IF r < 0 \/ (sop.op = 0 /\ r # 0)
         THEN [a EXCEPT !.res = IF sop.nowait THEN "EAGAIN" ELSE "block"]
         ELSE IF r > SEMVMX \/ (sop.undo /\ (u < -SEMAEM - 1 \/ u > SEMAEM))
              THEN [a EXCEPT !.res = "ERANGE"]
              ELSE [val |-> [a.val EXCEPT ![sop.num] = r], done |-> a.done + 1, res |-> "run"]

(* One round of the loop at "undo:".                                       *)
TakeBack(val, sop) == [val EXCEPT ![sop.num] = @ - sop.op]

(* Mutant: the last operation performed is not taken back.                 *)
RollbackShort(val, sops, k) == FoldLeft(TakeBack, val, SubSeq(sops, 1, k - 1))

(* Take the first k operations back.                                       *)
Rollback(val, sops, k) == FoldLeft(TakeBack, val, SubSeq(sops, 1, k))

(* The adjustment of an operation performed with SEM_UNDO.                 *)
Remember(adj, sop) == IF sop.undo THEN [adj EXCEPT ![sop.num] = Short(@ - sop.op)] ELSE adj

(* try_atomic_semop(): the new values and adjustments, and "ok", "block"   *)
(* (go to sleep) or an error.                                              *)
try_atomic_semop(val, adj, sops) ==
    LET a == FoldLeft(LAMBDA x, sop : Perform(adj, x, sop),
                      [val |-> val, done |-> 0, res |-> "run"], sops)
    IN  IF a.res = "run"
        THEN [res |-> "ok", val |-> a.val, adj |-> FoldLeft(Remember, adj, sops)]
        ELSE [res |-> a.res, val |-> Rollback(a.val, sops, a.done), adj |-> adj]

(* exit_sem(): add the adjustments, cap at 0 and at SEMVMX.                *)
Adjust(val, adj) ==
    [n \in Sems |-> IF val[n] + adj[n] < 0 THEN 0
                    ELSE IF val[n] + adj[n] > SEMVMX THEN SEMVMX ELSE val[n] + adj[n]]

Alters(sops) == \E i \in DOMAIN sops : sops[i].op # 0
Undoes(sops) == \E i \in DOMAIN sops : sops[i].undo

-----------------------------------------------------------------------------
(* The reference: operations seen from their sums.                         *)

(* What the first k operations add to semaphore n, by those that select.   *)
Total(sops, n, k, Sel(_)) ==
    MapThenSumSet(LAMBDA i : sops[i].op,
                  {i \in 1 .. k : sops[i].num = n /\ Sel(sops[i])})

Before(val, sops, i) == val[sops[i].num] + Total(sops, sops[i].num, i - 1, LAMBDA s : TRUE)

(* Operation i, all earlier ones performed, has to wait.                   *)
MustWait(val, sops, i) ==
    \/ Before(val, sops, i) + sops[i].op < 0
    \/ sops[i].op = 0 /\ Before(val, sops, i) # 0

(* Operation i, all earlier ones performed, leaves the range of the values *)
(* or, "exceeding the undo range is an error", that of the adjustments.    *)
OutOfRange(val, adj, sops, i) ==
    \/ Before(val, sops, i) + sops[i].op > SEMVMX
    \/ /\ sops[i].undo
       /\ adj[sops[i].num] - Total(sops, sops[i].num, i, LAMBDA s : s.undo) \notin -SEMAEM - 1 .. SEMAEM

(* No semaphore has two of its operations remembered.                      *)
UndoesOnce(sops) ==
    \A i, j \in DOMAIN sops : i # j /\ sops[i].undo /\ sops[j].undo => sops[i].num # sops[j].num
=============================================================================
