------------------------------- MODULE MCSem -------------------------------
(***************************************************************************)
(* Instances of Sem for TLC.                                               *)
(***************************************************************************)
EXTENDS Sem, TLC

CONSTANTS a1, a2, a3, t1, t2, t3

Op(n, o, u) == [num |-> n, op |-> o, nowait |-> FALSE, undo |-> u]

(* Sets a1 and a2 in slots of their own, or all one after the other with   *)
(* the same id.                                                            *)
MCIdOf == [a \in Arrays |-> IF a = a2 THEN <<1, 0>> ELSE <<0, 0>>]
MCIdSame == [a \in Arrays |-> <<0, 0>>]

(* Simple operations on two semaphores and complex ones over both.         *)
MCMixed == {<<Op(0, 1, FALSE)>>, <<Op(0, -1, FALSE)>>, <<Op(0, 0, FALSE)>>,
            <<Op(0, -1, FALSE), Op(1, 1, FALSE)>>, <<Op(1, -1, FALSE), Op(0, 0, FALSE)>>}

(* Take one, give one, with SEM_UNDO and without.                          *)
MCTake == {<<Op(0, -1, TRUE)>>}
MCGive == {<<Op(0, 1, TRUE)>>}
MCBoth == MCTake \cup MCGive
MCWait == {<<Op(0, -1, FALSE)>>, <<Op(0, 1, FALSE)>>}

(* Tasks without signals and timeouts do the same things, and so do those  *)
(* that call semctl(); with MCIdSame the sets can be exchanged too.        *)
MCSymmetry == Permutations(Tasks \ (Signalled \cup Timed)) \cup Permutations(Ctls)
MCSymmetrySame == MCSymmetry \cup Permutations(Arrays)

-----------------------------------------------------------------------------
(* try_atomic_semop() on its own: every call of up to two operations, from *)
(* all values and adjustments of two semaphores.  The formula speaks of no  *)
(* variable; TLC evaluates it once, under Init.                            *)
Arith == INSTANCE SemOps WITH Sems <- {0, 1}, SEMVMX <- 2

Sembuf == [num : {0, 1}, op : -2 .. 2, nowait : BOOLEAN, undo : BOOLEAN]
Calls == UNION {[1 .. k -> Sembuf] : k \in 0 .. 2}

(* "Determine whether a sequence of semaphore operations would succeed all *)
(* at once": if it does, every semaphore has the sum of its operations     *)
(* added and stays in range; if not, no value and no adjustment has        *)
(* changed, though the loop stored those of the operations it got through. *)
(* It does when each operation can be performed after the ones before it;  *)
(* then the undo structure has the sum of the undoable ones subtracted.    *)
(* Otherwise the first that cannot decides between sleeping, EAGAIN and    *)
(* ERANGE.  These last two only for calls with at most one undoable        *)
(* operation per semaphore: with more, the code checks each against the    *)
(* semadj from before the call, so that it may refuse a sum in the undo    *)
(* range and let one outside wrap ("exceeding the undo range is an error", *)
(* sem.c:383).                                                             *)
AllOrNothing ==
    Init => \A val \in Arith!Values, adj \in Arith!Adjs, ops \in Calls :
        LET all == Arith!try_atomic_semop(val, adj, ops)
            Sum(n, Sel(_)) == Arith!Total(ops, n, Len(ops), Sel)
            stuck == {i \in DOMAIN ops : \/ Arith!MustWait(val, ops, i)
                                         \/ Arith!OutOfRange(val, adj, ops, i)}
            first == Min(stuck)
        IN  /\ IF all.res = "ok"
               THEN \A n \in {0, 1} : /\ all.val[n] = val[n] + Sum(n, LAMBDA s : TRUE)
                                      /\ all.val[n] \in 0 .. 2
               ELSE all.val = val /\ all.adj = adj
            /\ Arith!UndoesOnce(ops) =>
                 IF stuck = {}
                 THEN /\ all.res = "ok"
                      /\ \A n \in {0, 1} : all.adj[n] = adj[n] - Sum(n, LAMBDA s : s.undo)
                 ELSE all.res = IF ~Arith!MustWait(val, ops, first) THEN "ERANGE"
                                ELSE IF ops[first].nowait THEN "EAGAIN" ELSE "block"
=============================================================================
