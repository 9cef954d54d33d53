----------------------------- MODULE MCPosixMq -----------------------------
(***************************************************************************)
(* Instances of PosixMq for TLC.                                           *)
(***************************************************************************)
EXTENDS PosixMqRef, TLC

CONSTANTS t1, t2, t3, m1, m2, m3

(* t1 and t2 are threads of one process; t3 is urgent; m3 has the higher   *)
(* priority.                                                               *)
MCTgid == [t \in Tasks |-> IF t = t2 THEN t1 ELSE t]
MCStaticPrio == [t \in Tasks |-> IF t = t3 THEN 1 ELSE 2]
MCMPrio == [m \in Msgs |-> IF m = m3 THEN 2 ELSE 1]

MCSymmetry == Permutations(Msgs \ {m3})
=============================================================================
