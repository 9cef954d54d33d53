---------------------------- MODULE MsgQueueRef ----------------------------
(***************************************************************************)
(* MsgQueue implements MsgQueueAbs.                                        *)
(***************************************************************************)
EXTENDS MsgQueue

(* A receiver waits from its list_add_tail until its request is answered   *)
(* (a message or an error in r_msg) or withdrawn; while pipelined_send() is *)
(* between list_del and the store to r_msg it is on no list, yet waits.    *)
Unanswered == {p \in Procs : Waiting(p)}

(* A message has been received once it is in r_msg, or taken off the list. *)
Received(p) ==
    IF r_msg[p] \in Msgs THEN r_msg[p] ELSE IF cmd[p] = "RCV" THEN hold[p] ELSE NoMsg

(* The refinement mapping.                                                 *)
AbsPhase   == IF mem = "none" THEN "none" ELSE IF deleted THEN "removed" ELSE "open"
AbsBox     == IF deleted THEN <<>> ELSE q_messages
AbsWaiting == [p \in Unanswered |-> req[p]]
AbsGot     == [p \in Procs |-> Received(p)]

Abs == INSTANCE MsgQueueAbs WITH
    phase <- AbsPhase, limit <- q_qbytes, box <- AbsBox, waiting <- AbsWaiting,
    got <- AbsGot, Limits <- QBytes

(* Seen from outside, the queue with its pipelined sends, lockless         *)
(* receives and three-step wakeups is a list of messages on which each     *)
(* operation is atomic: nothing is queued past a receiver that waits for   *)
(* it, nobody overtakes a queued message, every message taken is the one   *)
(* its request selects, and the limit holds.                               *)
AtomicQueue == Abs!Spec
=============================================================================
