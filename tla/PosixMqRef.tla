----------------------------- MODULE PosixMqRef -----------------------------
(***************************************************************************)
(* PosixMq implements PosixMqAbs.                                          *)
(***************************************************************************)
EXTENDS PosixMq

(* The members of a list that Prio maps to p, last first: the array of     *)
(* messages and the wait lists are served from their ends.                 *)
Level(list, Prio, p) == Reverse(SelectSeq(list, LAMBDA x : Prio[x] = p))

Transfers(t) == op[t] \in {"send", "recv"}

Abs == INSTANCE PosixMqAbs WITH
    Limit <- mq_maxmsg,
    box   <- [p \in {MPrio[m] : m \in Msgs} |-> Level(messages, MPrio, p)],
    sendq <- [u \in {StaticPrio[t] : t \in Tasks} |-> Level(e_send, StaticPrio, u)],
    recvq <- [u \in {StaticPrio[t] : t \in Tasks} |-> Level(e_recv, StaticPrio, u)],
    call  <- [t \in Tasks |-> IF Transfers(t) THEN op[t] ELSE "none"],
    got   <- hold,
    result <- [t \in Tasks |->
                 IF ~Transfers(t) \/ res[t] = "none" THEN "none"
                 ELSE IF res[t] \in {"ok", "EFAULT"} THEN "done" ELSE "failed"]

(* Seen from outside, the queue with its wait lists, pipelined hand-overs  *)
(* and lockless returns is a bounded store that keeps messages in order of *)
(* priority and age and serves its waiters in order of priority and age;   *)
(* a call that fails, other than by EFAULT, has had no effect.             *)
PriorityQueue == Abs!Spec
=============================================================================
