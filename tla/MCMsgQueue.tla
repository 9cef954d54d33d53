---------------------------- MODULE MCMsgQueue ----------------------------
(***************************************************************************)
(* Instances of MsgQueue for TLC.  Message m1 has type and size 1, m2 type *)
(* and size 2, m3 type 1 and size 2.                                       *)
(***************************************************************************)
EXTENDS MsgQueueRef, TLC

CONSTANTS m1, m2, m3

MCMType == [m \in Msgs |-> IF m = m2 THEN 2 ELSE 1]
MCMSize == [m \in Msgs |-> IF m = m1 THEN 1 ELSE 2]
MCLongMin == -4

Req(t, s, n, w) == [msgtyp |-> t, size |-> s, except |-> FALSE, noerror |-> n, nowait |-> w]

(* Type 2 but only of size 1, hence E2BIG for m2; any up to type 2, cut    *)
(* to size 1; any, without waiting.                                        *)
MCRequests == {Req(2, 1, FALSE, FALSE), Req(-2, 1, TRUE, FALSE)}
MCRequestsOne == {Req(-2, 1, FALSE, FALSE)}
MCRequestsNoWait == {Req(-2, 1, FALSE, FALSE), Req(0, 1, FALSE, TRUE)}

MCModes == {{"r", "w"}, {"w"}}
MCModesRW == {{"r", "w"}}

MCSymmetry == Permutations(Receivers) \cup Permutations(Senders)

-----------------------------------------------------------------------------
(* The search of msgrcv() on its own: a message is its type, from 1 to 3.  *)
(* The formula speaks of no variable; TLC evaluates it once, under Init.   *)
Search == INSTANCE MsgSearch WITH Msgs <- 1 .. 3, MType <- [m \in 1 .. 3 |-> m],
              MSize <- [m \in 1 .. 3 |-> 0], LONG_MIN <- MCLongMin

SearchLists == UNION {[1 .. k -> 1 .. 3] : k \in 0 .. 5}
SearchRequests == [msgtyp : MCLongMin + 1 .. -MCLongMin - 1, size : {0}, except : BOOLEAN,
                   noerror : {FALSE}, nowait : {FALSE}]

(* On every list of up to 5 messages the walk of do_msgrcv, which narrows  *)
(* msgtyp as it goes, stops at the first message of the least eligible     *)
(* type (for msgtyp < 0) or at the first eligible one, and at none only    *)
(* when there is none.  For msgtyp < 0 a message of type |msgtyp| itself   *)
(* is eligible, as in testmsg() and against the comment at msg.c:804.      *)
SearchFindsBest ==
    Init => \A list \in SearchLists, r \in SearchRequests : Search!FindsBest(list, r)
=============================================================================
