----------------------------- MODULE MsgSearch -----------------------------
(***************************************************************************)
(* How msgrcv picks a message: convert_mode(), testmsg() and the walk over *)
(* q_messages in do_msgrcv() (ipc/msg.c), with the definition they are     *)
(* meant to compute.                                                       *)
(***************************************************************************)
EXTENDS Integers, Sequences, SequencesExt

CONSTANTS
    Msgs,        \* struct msg_msg objects
    MType,       \* m_type of each message
    MSize,       \* m_ts of each message
    LONG_MIN     \* the least value of msgtyp

RequestSet == [msgtyp : LONG_MIN .. -LONG_MIN - 1, size : Nat, except : BOOLEAN,
               noerror : BOOLEAN, nowait : BOOLEAN]

ASSUME MessageAssumption ==
    /\ MType \in [Msgs -> Nat \ {0}]
    /\ MSize \in [Msgs -> Nat]
    /\ LONG_MIN \in Int /\ LONG_MIN < 0

(* The search mode, and the type after its sign has been dropped.          *)
convert_mode(r) ==
    IF r.msgtyp = 0 THEN "ANY"
    ELSE IF r.msgtyp < 0 THEN "LESSEQUAL"
    ELSE IF r.except THEN "NOTEQUAL" ELSE "EQUAL"

(* -LONG_MIN is not a long: the kernel's -fno-strict-overflow wraps it.    *)
SearchType(r) == IF r.msgtyp < 0 /\ r.msgtyp # LONG_MIN THEN -r.msgtyp ELSE r.msgtyp

testmsg(m, type, md) ==
    \/ md = "ANY"
    \/ md = "LESSEQUAL" /\ MType[m] <= type
    \/ md = "EQUAL"     /\ MType[m] = type
    \/ md = "NOTEQUAL"  /\ MType[m] # type

(* Mutant: a match narrows to its own type, and the last of equals wins.   *)
FindMsgLast(list, r) ==
    LET md == convert_mode(r)
        Visit(a, i) ==
            IF a.stop \/ ~testmsg(list[i], a.type, md) THEN a
            ELSE IF md = "LESSEQUAL" /\ MType[list[i]] # 1
                 THEN [at |-> i, type |-> MType[list[i]], stop |-> FALSE]
                 ELSE [at |-> i, type |-> a.type, stop |-> TRUE]
    IN FoldLeftDomain(Visit, [at |-> 0, type |-> SearchType(r), stop |-> FALSE], list).at

(* The walk of do_msgrcv over the list: in mode LESSEQUAL a match narrows  *)
(* the wanted type and the walk goes on.  0 when nothing matches.          *)
FindMsg(list, r) ==
    LET md == convert_mode(r)
        Visit(a, i) ==
            IF a.stop \/ ~testmsg(list[i], a.type, md) THEN a
            ELSE IF md = "LESSEQUAL" /\ MType[list[i]] # 1
                 THEN [at |-> i, type |-> MType[list[i]] - 1, stop |-> FALSE]
                 ELSE [at |-> i, type |-> a.type, stop |-> TRUE]
    IN FoldLeftDomain(Visit, [at |-> 0, type |-> SearchType(r), stop |-> FALSE], list).at

(* A receiver with request r would take m.                                 *)
Wants(r, m) == testmsg(m, SearchType(r), convert_mode(r))

(* The bytes of the messages of a list.                                    *)
SizeOf(list) == SumFunction([i \in DOMAIN list |-> MSize[list[i]]])

(* r_maxsize < m_ts; MSG_NOERROR makes r_maxsize INT_MAX.                  *)
TooBig(r, m) == ~r.noerror /\ r.size < MSize[m]

-----------------------------------------------------------------------------
(* What msgtyp asks for: with 0 the first message, with msgtyp > 0 the     *)
(* first of the type (with MSG_EXCEPT, not of the type), with msgtyp < 0   *)
(* the first of the least type up to |msgtyp|, as SEARCH_LESSEQUAL and its *)
(* use in testmsg() say.  The comment in convert_mode() (msg.c:804) says   *)
(* "must be < abs(msgtype)" of the last, without the bound itself: there   *)
(* the code disagrees with it, and the definition goes with the code.      *)
Eligible(r, m) ==
    \/ r.msgtyp = 0
    \/ r.msgtyp > 0 /\ (IF r.except THEN MType[m] # r.msgtyp ELSE MType[m] = r.msgtyp)
    \/ r.msgtyp < 0 /\ MType[m] <= -r.msgtyp

Better(r, m, n) == r.msgtyp < 0 /\ MType[m] < MType[n]

(* i is the position msgrcv must take in the list.                         *)
IsBest(list, r, i) ==
    /\ i \in DOMAIN list /\ Eligible(r, list[i])
    /\ \A j \in DOMAIN list : Eligible(r, list[j]) =>
            /\ ~Better(r, list[j], list[i])
            /\ j < i => Better(r, list[i], list[j])

(* The walk stops there, and nowhere only when nothing is eligible.        *)
FindsBest(list, r) ==
    IF \E j \in DOMAIN list : Eligible(r, list[j])
    THEN IsBest(list, r, FindMsg(list, r)) ELSE FindMsg(list, r) = 0
=============================================================================
