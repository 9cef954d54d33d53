----------------------------- MODULE PosixMqAbs -----------------------------
(***************************************************************************)
(* What a POSIX message queue promises, with every operation one step: a   *)
(* bounded store of messages, first in first out within each priority, and *)
(* two kinds of waiting tasks, first come first served within each         *)
(* priority.                                                               *)
(***************************************************************************)
EXTENDS Integers, Sequences, SequencesExt, FiniteSetsExt

CONSTANTS Tasks, Msgs, MPrio, StaticPrio, Limit, NoMsg

VARIABLES
    box,             \* the messages of each priority, oldest first
    sendq, recvq,    \* the waiting tasks of each priority, first come first
    call,            \* none, send or recv
    got,             \* the message of a call: to be sent, or received
    result           \* none, done or failed

vars == <<box, sendq, recvq, call, got, result>>

Prios == {MPrio[m] : m \in Msgs}
Urgencies == {StaticPrio[t] : t \in Tasks}

Used(f) == {p \in DOMAIN f : f[p] # <<>>}
Count(f) == MapThenSumSet(LAMBDA p : Len(f[p]), DOMAIN f)
Add(f, p, x) == [f EXCEPT ![p] = Append(@, x)]
Drop(f, p) == [f EXCEPT ![p] = Tail(@)]
Waits(f, t) == t \in ToSet(f[StaticPrio[t]])

(* The message to receive next, the waiting task to serve next.            *)
NextMsg == Head(box[Max(Used(box))])
NextOf(f) == Head(f[Min(Used(f))])

Init ==
    /\ box = [p \in Prios |-> <<>>]
    /\ sendq = [u \in Urgencies |-> <<>>] /\ recvq = sendq
    /\ call = [t \in Tasks |-> "none"]
    /\ got = [t \in Tasks |-> NoMsg]
    /\ result = [t \in Tasks |-> "none"]

Call(t) ==
    /\ call[t] = "none"
    /\ \/ call' = [call EXCEPT ![t] = "recv"] /\ UNCHANGED got
       \/ \E m \in Msgs :
             /\ \A p \in Prios : m \notin ToSet(box[p])
             /\ \A u \in Tasks : got[u] # m
             /\ call' = [call EXCEPT ![t] = "send"] /\ got' = [got EXCEPT ![t] = m]
    /\ UNCHANGED <<box, sendq, recvq, result>>

Open(t, c) == call[t] = c /\ result[t] = "none"

(* A message finds room and nobody waiting for it.                         *)
Put(t) ==
    /\ Open(t, "send") /\ got[t] # NoMsg /\ ~Waits(sendq, t)
    /\ Count(box) < Limit /\ Used(recvq) = {}
    /\ box' = Add(box, MPrio[got[t]], got[t])
    /\ got' = [got EXCEPT ![t] = NoMsg]
    /\ result' = [result EXCEPT ![t] = "done"]
    /\ UNCHANGED <<sendq, recvq, call>>

(* The oldest message of the highest priority is received.                 *)
Get(t) ==
    /\ Open(t, "recv") /\ got[t] = NoMsg /\ ~Waits(recvq, t)
    /\ Used(box) # {} /\ Used(sendq) = {}
    /\ got' = [got EXCEPT ![t] = NextMsg]
    /\ box' = Drop(box, MPrio[NextMsg])
    /\ UNCHANGED <<sendq, recvq, call, result>>

(* The same, and the message of the first waiting sender takes its place.  *)
GetAndPut(t) ==
    LET s == NextOf(sendq) IN
    /\ Open(t, "recv") /\ got[t] = NoMsg /\ ~Waits(recvq, t)
    /\ Used(box) # {} /\ Used(sendq) # {}
    /\ got' = [got EXCEPT ![t] = NextMsg, ![s] = NoMsg]
    /\ box' = Add(Drop(box, MPrio[NextMsg]), MPrio[got[s]], got[s])
    /\ sendq' = Drop(sendq, StaticPrio[s])
    /\ UNCHANGED <<recvq, call, result>>

(* A message goes to the first waiting receiver; the store is empty.       *)
Hand(t) ==
    LET r == NextOf(recvq) IN
    /\ Open(t, "send") /\ got[t] # NoMsg /\ ~Waits(sendq, t)
    /\ Used(recvq) # {} /\ Used(box) = {}
    /\ got' = [got EXCEPT ![t] = NoMsg, ![r] = got[t]]
    /\ recvq' = Drop(recvq, StaticPrio[r])
    /\ UNCHANGED <<box, sendq, call, result>>

(* A sender waits only for room, a receiver only for a message.            *)
Wait(t) ==
    /\ \/ /\ Open(t, "send") /\ got[t] # NoMsg /\ ~Waits(sendq, t) /\ Count(box) = Limit
          /\ sendq' = Add(sendq, StaticPrio[t], t) /\ UNCHANGED recvq
       \/ /\ Open(t, "recv") /\ got[t] = NoMsg /\ ~Waits(recvq, t) /\ Used(box) = {}
          /\ recvq' = Add(recvq, StaticPrio[t], t) /\ UNCHANGED sendq
    /\ UNCHANGED <<box, call, got, result>>

(* A call that has been served succeeds, and only such a call.             *)
Succeed(t) ==
    /\ \/ Open(t, "send") /\ got[t] = NoMsg
       \/ Open(t, "recv") /\ got[t] # NoMsg
    /\ got' = [got EXCEPT ![t] = NoMsg]
    /\ result' = [result EXCEPT ![t] = "done"]
    /\ UNCHANGED <<box, sendq, recvq, call>>

(* Any other call may fail, by a signal, a timeout or O_NONBLOCK.          *)
Fail(t) ==
    /\ \/ Open(t, "send") /\ got[t] # NoMsg
       \/ Open(t, "recv") /\ got[t] = NoMsg
    /\ got' = [got EXCEPT ![t] = NoMsg]
    /\ result' = [result EXCEPT ![t] = "failed"]
    /\ sendq' = [u \in Urgencies |-> Remove(sendq[u], t)]
    /\ recvq' = [u \in Urgencies |-> Remove(recvq[u], t)]
    /\ UNCHANGED <<box, call>>

Return(t) ==
    /\ result[t] # "none"
    /\ call' = [call EXCEPT ![t] = "none"]
    /\ result' = [result EXCEPT ![t] = "none"]
    /\ UNCHANGED <<box, sendq, recvq, got>>

Next ==
    \E t \in Tasks :
        \/ Call(t) \/ Put(t) \/ Get(t) \/ GetAndPut(t) \/ Hand(t) \/ Wait(t)
        \/ Succeed(t) \/ Fail(t) \/ Return(t)

Spec == Init /\ [][Next]_vars
=============================================================================
