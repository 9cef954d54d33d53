---------------------------- MODULE MsgQueueAbs ----------------------------
(***************************************************************************)
(* What a message queue promises, with every operation one step: a list of *)
(* messages within a limit, and receivers that wait for messages the list  *)
(* does not hold.                                                          *)
(***************************************************************************)
EXTENDS MsgSearch

CONSTANTS Procs, NoMsg, Requests, Limits, msg_ctlmnb

VARIABLES
    phase,    \* none, open, removed
    limit,    \* q_qbytes
    box,      \* the queued messages
    waiting,  \* request of each waiting receiver
    got       \* message a receiver is bringing home

vars == <<phase, limit, box, waiting, got>>

Init ==
    /\ phase = "none" /\ limit = 0 /\ box = <<>>
    /\ waiting = << >>
    /\ got = [p \in Procs |-> NoMsg]

Create ==
    /\ phase = "none"
    /\ phase' = "open" /\ limit' = msg_ctlmnb
    /\ UNCHANGED <<box, waiting, got>>

SetLimit ==
    /\ phase = "open" /\ limit' \in Limits
    /\ UNCHANGED <<phase, box, waiting, got>>

(* A message is queued only when no waiting receiver would take it, and    *)
(* there is room.                                                          *)
Post ==
    /\ phase = "open"
    /\ \E m \in Msgs :
          /\ \A p \in DOMAIN waiting : ~Eligible(waiting[p], m)
          /\ SizeOf(box) + MSize[m] <= limit /\ Len(box) < limit
          /\ box' = Append(box, m)
    /\ UNCHANGED <<phase, limit, waiting, got>>

(* A receiver takes the message its request selects.                       *)
Take(p) ==
    /\ phase = "open" /\ got[p] = NoMsg /\ p \notin DOMAIN waiting
    /\ \E r \in Requests, i \in DOMAIN box :
          /\ IsBest(box, r, i) /\ ~TooBig(r, box[i])
          /\ got' = [got EXCEPT ![p] = box[i]]
          /\ box' = RemoveAt(box, i)
    /\ UNCHANGED <<phase, limit, waiting>>

(* A receiver waits only while nothing in the list is for it.              *)
Wait(p) ==
    /\ phase = "open" /\ p \notin DOMAIN waiting /\ got[p] = NoMsg
    /\ \E r \in Requests :
          /\ \A i \in DOMAIN box : ~Eligible(r, box[i])
          /\ waiting' = [q \in DOMAIN waiting \cup {p} |-> IF q = p THEN r ELSE waiting[q]]
    /\ UNCHANGED <<phase, limit, box, got>>

Without(p) == [q \in DOMAIN waiting \ {p} |-> waiting[q]]

(* A message goes straight to a waiting receiver, past the list: it is one *)
(* the receiver wants, and the list has none.                              *)
Hand(p) ==
    /\ phase = "open" /\ p \in DOMAIN waiting
    /\ \A i \in DOMAIN box : ~Eligible(waiting[p], box[i])
    /\ \E m \in Msgs :
          /\ Eligible(waiting[p], m) /\ ~TooBig(waiting[p], m)
          /\ \A i \in DOMAIN box : box[i] # m
          /\ got' = [got EXCEPT ![p] = m]
    /\ waiting' = Without(p)
    /\ UNCHANGED <<phase, limit, box>>

(* A signal, an error, or a new look at the queue.                         *)
Leave(p) ==
    /\ p \in DOMAIN waiting
    /\ waiting' = Without(p)
    /\ UNCHANGED <<phase, limit, box, got>>

Home(p) ==
    /\ got[p] # NoMsg
    /\ got' = [got EXCEPT ![p] = NoMsg]
    /\ UNCHANGED <<phase, limit, box, waiting>>

(* Removal drops the messages and the receivers.                           *)
Destroy ==
    /\ phase = "open"
    /\ phase' = "removed" /\ box' = <<>> /\ waiting' = << >>
    /\ UNCHANGED <<limit, got>>

Next ==
    \/ Create \/ SetLimit \/ Post \/ Destroy
    \/ \E p \in Procs : Take(p) \/ Wait(p) \/ Hand(p) \/ Leave(p) \/ Home(p)

Spec == Init /\ [][Next]_vars
=============================================================================
