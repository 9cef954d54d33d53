--------------------------- MODULE PosixMqProofs ---------------------------
(***************************************************************************)
(* The inductive invariant of PosixMq, proved for any threads, processes,  *)
(* messages and priorities, and what follows from it.                      *)
(***************************************************************************)
EXTENDS PosixMq, DataLemmas

(* The place that wq_add() finds: all before it are less urgent than t,    *)
(* nobody from there on is.                                                *)
LEMMA WqAddPlace ==
    ASSUME NEW q \in Seq(Tasks), NEW t \in Tasks
    PROVE  \E p \in 1 .. Len(q) + 1 :
              /\ wq_add(q, t) = InsertAt(q, p, t)
              /\ \A i \in 1 .. p - 1 : StaticPrio[q[i]] > StaticPrio[t]
              /\ p <= Len(q) => StaticPrio[q[p]] <= StaticPrio[t]
<1> DEFINE I == {i \in 1 .. Len(q) : StaticPrio[q[i]] <= StaticPrio[t]}
           k == SelectInSeq(q, LAMBDA w : StaticPrio[w] <= StaticPrio[t])
<1>1. k = IF I # {} THEN Min(I) ELSE 0
  BY DEF SelectInSeq
<1>2. wq_add(q, t) = IF k = 0 THEN Append(q, t) ELSE InsertAt(q, k, t)
  BY DEF wq_add
<1> HIDE DEF k
<1>3. I \subseteq Nat
  OBVIOUS
<1>4. I # {} => Min(I) \in I /\ \A y \in I : Min(I) <= y
  <2> HIDE DEF I
  <2> QED BY <1>3, MinOfNats
<1>5. \A i \in 1 .. Len(q) : StaticPrio[q[i]] \in Int
  BY MqConstants
<1>6. StaticPrio[t] \in Int /\ Len(q) \in Nat
  BY MqConstants
<1>7. CASE I = {}
  <2>1. wq_add(q, t) = Append(q, t)
    BY <1>1, <1>2, <1>7
  <2>2. Append(q, t) = InsertAt(q, Len(q) + 1, t)
    <3>1. SubSeq(q, 1, Len(q)) = q /\ SubSeq(q, Len(q) + 1, Len(q)) = << >>
        OBVIOUS
    <3>2. InsertAt(q, Len(q) + 1, t) = (SubSeq(q, 1, Len(q)) \o <<t>>) \o SubSeq(q,
       Len(q) + 1, Len(q))
      <4>1. (Len(q) + 1) - 1 = Len(q)
        BY <1>6
      <4> QED BY <4>1, Zenon DEF InsertAt
    <3>3. InsertAt(q, Len(q) + 1, t) = (q \o <<t>>) \o << >>
        BY <3>1, <3>2, Zenon
    <3> QED BY <3>3
  <2>3. \A i \in 1 .. Len(q) : StaticPrio[q[i]] > StaticPrio[t]
    BY <1>5, <1>6, <1>7
  <2>4. Len(q) + 1 \in 1 .. Len(q) + 1 /\ ~(Len(q) + 1 <= Len(q)) /\ Len(q) + 1 - 1 = Len(q)
    BY <1>6
  <2> QED BY <2>1, <2>2, <2>3, <2>4
<1>8. CASE I # {}
  <2>1. k \in 1 .. Len(q) /\ StaticPrio[q[k]] <= StaticPrio[t]
    BY <1>1, <1>4, <1>8
  <2>2. \A i \in 1 .. k - 1 : StaticPrio[q[i]] > StaticPrio[t]
    <3> SUFFICES ASSUME NEW i \in 1 .. k - 1, StaticPrio[q[i]] <= StaticPrio[t] PROVE FALSE
        BY <1>5, <1>6, <2>1
    <3>1. i \in I /\ i < k
        BY <1>6, <2>1
    <3> QED BY <1>1, <1>4, <1>6, <1>8, <2>1, <3>1
  <2>3. wq_add(q, t) = InsertAt(q, k, t)
    BY <1>2, <2>1
  <2> QED BY <2>1, <2>2, <2>3
<1> QED BY <1>7, <1>8

(* wq_add() adds one waiter.                                               *)
LEMMA WqAdd ==
    ASSUME NEW q \in Seq(Tasks), NEW t \in Tasks
    PROVE  /\ wq_add(q, t) \in Seq(Tasks)
           /\ wq_add(q, t) # <<>>
           /\ ToSet(wq_add(q, t)) = ToSet(q) \cup {t}
           /\ (IsInjective(q) /\ t \notin ToSet(q)) => IsInjective(wq_add(q, t))
<1>1. PICK p \in 1 .. Len(q) + 1 : wq_add(q, t) = InsertAt(q, p, t)
  BY WqAddPlace
<1>2. /\ InsertAt(q, p, t) \in Seq(Tasks)
      /\ Len(InsertAt(q, p, t)) = Len(q) + 1
      /\ ToSet(InsertAt(q, p, t)) = ToSet(q) \cup {t}
      /\ (IsInjective(q) /\ t \notin ToSet(q)) => IsInjective(InsertAt(q, p, t))
  BY InsertAtEntries
<1>3. InsertAt(q, p, t) # <<>>
  BY <1>2
<1> QED BY <1>1, <1>2, <1>3, Zenon

(* An entry of wq_add() finds the wait list in order and leaves it so.     *)
LEMMA WqAddOrder ==
    ASSUME NEW q \in Seq(Tasks), NEW t \in Tasks,
           \A i, j \in DOMAIN q : i < j => StaticPrio[q[i]] >= StaticPrio[q[j]]
    PROVE  \A i, j \in DOMAIN wq_add(q, t) :
              i < j => StaticPrio[wq_add(q, t)[i]] >= StaticPrio[wq_add(q, t)[j]]
<1> DEFINE R == {uv \in Tasks \X Tasks : StaticPrio[uv[1]] >= StaticPrio[uv[2]]}
<1>1. PICK p \in 1 .. Len(q) + 1 :
              /\ wq_add(q, t) = InsertAt(q, p, t)
              /\ \A i \in 1 .. p - 1 : StaticPrio[q[i]] > StaticPrio[t]
              /\ p <= Len(q) => StaticPrio[q[p]] <= StaticPrio[t]
  BY WqAddPlace
<1>2. /\ \A i \in 1 .. Len(q) : q[i] \in Tasks /\ StaticPrio[q[i]] \in Int
      /\ StaticPrio[t] \in Int /\ Len(q) \in Nat
  BY MqConstants
<1>3. \A i, j \in 1 .. Len(q) : i < j => <<q[i], q[j]>> \in R
  BY <1>2
<1>4. \A i \in 1 .. p - 1 : <<q[i], t>> \in R
  BY <1>1, <1>2
<1>5. \A i \in p .. Len(q) : StaticPrio[t] >= StaticPrio[q[i]]
  BY <1>1, <1>2
<1>6. \A i \in p .. Len(q) : <<t, q[i]>> \in R
  BY <1>2, <1>5
<1>7. \A i, j \in 1 .. Len(q) + 1 :
         i < j => <<InsertAt(q, p, t)[i], InsertAt(q, p, t)[j]>> \in R
  <2> HIDE DEF R
  <2> QED BY <1>3, <1>4, <1>6, InsertAtOrder
<1>8. InsertAt(q, p, t) \in Seq(Tasks) /\ Len(InsertAt(q, p, t)) = Len(q) + 1
  BY InsertAtProps
<1>9. DOMAIN InsertAt(q, p, t) = 1 .. Len(q) + 1
  BY <1>8
<1> QED BY <1>1, <1>7, <1>9

(* The place that msg_insert() finds: all before it are less urgent than   *)
(* m or as urgent, all from there on are at least as urgent.               *)
LEMMA MsgInsertPlace ==
    ASSUME NEW s \in Seq(Msgs), NEW m \in Msgs
    PROVE  \E p \in 1 .. Len(s) + 1 :
              /\ msg_insert(s, m) = InsertAt(s, p, m)
              /\ p > 1 => MPrio[s[p - 1]] < MPrio[m]
              /\ \A i \in p .. Len(s) : MPrio[s[i]] >= MPrio[m]
<1> DEFINE I == {i \in 1 .. Len(s) : MPrio[s[i]] < MPrio[m]}
           k == SelectLastInSeq(s, LAMBDA x : MPrio[x] < MPrio[m])
<1>1. k = IF I # {} THEN Max(I) ELSE 0
  BY DEF SelectLastInSeq
<1>2. msg_insert(s, m) = InsertAt(s, k + 1, m)
  BY DEF msg_insert
<1> HIDE DEF k
<1>3. I # {} => Max(I) \in I /\ \A y \in I : Max(I) >= y
  <2>1. I \subseteq 1 .. Len(s) /\ Len(s) \in Nat
    OBVIOUS
  <2> HIDE DEF I
  <2> QED BY <2>1, MaxOfInterval
<1>4. /\ \A i \in 1 .. Len(s) : MPrio[s[i]] \in Nat
      /\ MPrio[m] \in Nat /\ Len(s) \in Nat
  BY MqConstants
<1>5. k \in 0 .. Len(s) /\ (k > 0 => MPrio[s[k]] < MPrio[m])
  BY <1>1, <1>3, <1>4
<1>6. \A i \in k + 1 .. Len(s) : MPrio[s[i]] >= MPrio[m]
  <2> SUFFICES ASSUME NEW i \in k + 1 .. Len(s), MPrio[s[i]] < MPrio[m] PROVE FALSE
    BY <1>4, <1>5
  <2>1. i \in I /\ i > k
    BY <1>4, <1>5
  <2> QED BY <1>1, <1>3, <1>4, <1>5, <2>1
<1>7. k + 1 \in 1 .. Len(s) + 1 /\ (k + 1 > 1 => MPrio[s[(k + 1) - 1]] < MPrio[m])
  <2>1. (k + 1) - 1 = k
    BY <1>5
  <2> QED BY <1>4, <1>5, <2>1
<1> QED BY <1>2, <1>6, <1>7

(* msg_insert() adds one message.                                          *)
LEMMA MsgInsert ==
    ASSUME NEW s \in Seq(Msgs), NEW m \in Msgs
    PROVE  /\ msg_insert(s, m) \in Seq(Msgs)
           /\ Len(msg_insert(s, m)) = Len(s) + 1
           /\ ToSet(msg_insert(s, m)) = ToSet(s) \cup {m}
           /\ (IsInjective(s) /\ m \notin ToSet(s)) => IsInjective(msg_insert(s, m))
<1>1. PICK p \in 1 .. Len(s) + 1 : msg_insert(s, m) = InsertAt(s, p, m)
  BY MsgInsertPlace
<1>2. /\ InsertAt(s, p, m) \in Seq(Msgs)
      /\ Len(InsertAt(s, p, m)) = Len(s) + 1
      /\ ToSet(InsertAt(s, p, m)) = ToSet(s) \cup {m}
      /\ (IsInjective(s) /\ m \notin ToSet(s)) => IsInjective(InsertAt(s, p, m))
  BY InsertAtEntries
<1> QED BY <1>1, <1>2, Zenon

(* msg_insert() finds the array in order and leaves it so.                 *)
LEMMA MsgInsertOrder ==
    ASSUME NEW s \in Seq(Msgs), NEW m \in Msgs,
           \A i, j \in DOMAIN s : i < j => MPrio[s[i]] <= MPrio[s[j]]
    PROVE  \A i, j \in DOMAIN msg_insert(s, m) :
              i < j => MPrio[msg_insert(s, m)[i]] <= MPrio[msg_insert(s, m)[j]]
<1> DEFINE R == {uv \in Msgs \X Msgs : MPrio[uv[1]] <= MPrio[uv[2]]}
<1>1. PICK p \in 1 .. Len(s) + 1 :
              /\ msg_insert(s, m) = InsertAt(s, p, m)
              /\ p > 1 => MPrio[s[p - 1]] < MPrio[m]
              /\ \A i \in p .. Len(s) : MPrio[s[i]] >= MPrio[m]
  BY MsgInsertPlace
<1>2. /\ \A i \in 1 .. Len(s) : s[i] \in Msgs /\ MPrio[s[i]] \in Nat
      /\ MPrio[m] \in Nat /\ Len(s) \in Nat
  BY MqConstants
<1>3. \A i, j \in 1 .. Len(s) : i < j => <<s[i], s[j]>> \in R
  <2> SUFFICES ASSUME NEW i \in 1 .. Len(s), NEW j \in 1 .. Len(s), i < j
               PROVE  <<s[i], s[j]>> \in R
    OBVIOUS
  <2>1. MPrio[s[i]] <= MPrio[s[j]]
    OBVIOUS
  <2> QED BY <1>2, <2>1
<1>4. \A i \in 1 .. p - 1 : MPrio[s[i]] <= MPrio[m]
  <2> SUFFICES ASSUME NEW i \in 1 .. p - 1 PROVE MPrio[s[i]] <= MPrio[m]
    OBVIOUS
  <2>1. p - 1 \in 1 .. Len(s) /\ i \in 1 .. Len(s) /\ p > 1
    BY <1>2
  <2>2. MPrio[s[i]] <= MPrio[s[p - 1]]
    BY <1>2, <2>1
  <2> QED BY <1>1, <1>2, <2>1, <2>2
<1>5. \A i \in 1 .. p - 1 : <<s[i], m>> \in R
  BY <1>2, <1>4
<1>6. \A i \in p .. Len(s) : <<m, s[i]>> \in R
  BY <1>1, <1>2
<1>7. \A i, j \in 1 .. Len(s) + 1 :
         i < j => <<InsertAt(s, p, m)[i], InsertAt(s, p, m)[j]>> \in R
  <2> HIDE DEF R
  <2> QED BY <1>3, <1>5, <1>6, InsertAtOrder
<1>8. InsertAt(s, p, m) \in Seq(Msgs) /\ Len(InsertAt(s, p, m)) = Len(s) + 1
  BY InsertAtProps
<1>9. DOMAIN InsertAt(s, p, m) = 1 .. Len(s) + 1
  BY <1>8
<1> QED BY <1>1, <1>7, <1>9

(* wq_get_first_waiter() finds somebody exactly on a list with entries.    *)
LEMMA FirstWaiter ==
    ASSUME NEW q \in Seq(Tasks)
    PROVE  /\ wq_get_first_waiter(q) = NoTask <=> q = <<>>
           /\ q # <<>> => wq_get_first_waiter(q) \in Tasks /\ wq_get_first_waiter(q) \in ToSet(q)
<1>1. CASE q = <<>>
  BY <1>1 DEF wq_get_first_waiter
<1>2. CASE q # <<>>
  <2>1. Last(q) \in Tasks /\ Last(q) \in ToSet(q)
    BY <1>2, FrontLast
  <2> QED BY <1>2, <2>1, MqConstants DEF wq_get_first_waiter
<1> QED BY <1>1, <1>2


(* What the handler of each action that changes a list does to the entries *)
(* of the list, in the words that the invariant uses.                      *)
Sleeps(t, q, q2) ==
    /\ q2 \in Seq(Tasks) /\ IsInjective(q2) /\ ToSet(q2) = ToSet(q) \cup {t}
    /\ q2 # <<>>
    /\ state' = [state EXCEPT ![t] = "INT"]
    /\ Goto(t, "sleep")
    /\ UNCHANGED <<hold, res>>

Unlinked(q, q2, w) ==
    q2 \in Seq(Tasks) /\ IsInjective(q2) /\ ToSet(q2) = ToSet(q) \ {w}

(* A sender goes to sleep, or gets EAGAIN.                                 *)
LEMMA SendFull ==
    ASSUME WaitersAgree, CallInv, NEW t \in Tasks, send_full(t)
    PROVE  /\ pc[t] = "slock" /\ lock = NoTask /\ Full
           /\ \/ Return(t, "EAGAIN") /\ UNCHANGED <<e_send, state>>
              \/ Sleeps(t, e_send, e_send')
           /\ UNCHANGED <<lock, messages, e_recv, notifyv, filev, op, wstate, sig, timedout,
                          woken, callv>>
<1>1. e_send \in Seq(Tasks) /\ IsInjective(e_send)
  BY DEF WaitersAgree, TypeOK
<1>2. t \notin ToSet(e_send)
  BY DEF WaitersAgree, WaitPcs, send_full
<1>3. /\ wq_add(e_send, t) \in Seq(Tasks) /\ wq_add(e_send, t) # <<>>
      /\ ToSet(wq_add(e_send, t)) = ToSet(e_send) \cup {t}
      /\ IsInjective(wq_add(e_send, t))
  BY <1>1, <1>2, WqAdd
<1> QED BY <1>3 DEF send_full, Sleeps

(* A receiver goes to sleep, or gets EAGAIN.                               *)
LEMMA RecvEmpty ==
    ASSUME WaitersAgree, CallInv, NEW t \in Tasks, recv_empty(t)
    PROVE  /\ pc[t] = "rlock" /\ lock = NoTask /\ messages = <<>>
           /\ \/ Return(t, "EAGAIN") /\ UNCHANGED <<e_recv, state>>
              \/ Sleeps(t, e_recv, e_recv')
           /\ UNCHANGED <<lock, messages, e_send, notifyv, filev, op, wstate, sig, timedout,
                          woken, callv>>
<1>1. e_recv \in Seq(Tasks) /\ IsInjective(e_recv)
  BY DEF WaitersAgree, TypeOK
<1>2. t \notin ToSet(e_recv)
  BY DEF WaitersAgree, WaitPcs, recv_empty
<1>3. /\ wq_add(e_recv, t) \in Seq(Tasks) /\ wq_add(e_recv, t) # <<>>
      /\ ToSet(wq_add(e_recv, t)) = ToSet(e_recv) \cup {t}
      /\ IsInjective(wq_add(e_recv, t))
  BY <1>1, <1>2, WqAdd
<1> QED BY <1>3 DEF recv_empty, Sleeps

(* A message goes to the receiver r at the head of the list.               *)
LEMMA PipelinedSend ==
    ASSUME WaitersAgree, CallInv, NEW t \in Tasks, pipelined_send(t)
    PROVE  \E r \in Tasks :
              /\ pc[t] = "slock" /\ lock = NoTask /\ ~Full
              /\ r \in ToSet(e_recv) /\ e_recv # <<>> /\ r # t
              /\ op[r] = "recv" /\ pc[r] \in WaitPcs /\ wstate[r] = "NONE"
              /\ hold' = [hold EXCEPT ![t] = NoMsg, ![r] = hold[t]]
              /\ e_recv' = RemoveFirst(e_recv, r)
              /\ Unlinked(e_recv, e_recv', r)
              /\ Prepare(t, r)
              /\ UNCHANGED <<messages, e_send, notifyv, filev, op, sched, callv>>
<1> DEFINE r == wq_get_first_waiter(e_recv)
<1>1. e_recv \in Seq(Tasks) /\ IsInjective(e_recv)
  BY DEF WaitersAgree, TypeOK
<1>2. r # NoTask
  BY DEF pipelined_send
<1>3. r \in Tasks /\ r \in ToSet(e_recv) /\ e_recv # <<>>
  BY <1>1, <1>2, FirstWaiter
<1>4. /\ pc[t] = "slock" /\ lock = NoTask /\ ~Full
      /\ hold' = [hold EXCEPT ![t] = NoMsg, ![r] = hold[t]]
      /\ e_recv' = RemoveFirst(e_recv, r)
      /\ Prepare(t, r)
      /\ UNCHANGED <<messages, e_send, notifyv, filev, op, sched, callv>>
  BY DEF pipelined_send
<1> HIDE DEF r
<1>5. Unlinked(e_recv, e_recv', r)
  BY <1>1, <1>4, RemoveFirstEntries DEF Unlinked
<1>6. op[r] = "recv" /\ pc[r] \in WaitPcs /\ wstate[r] = "NONE"
  BY <1>3 DEF WaitersAgree
<1>7. r # t
  BY <1>4, <1>6 DEF WaitPcs
<1> QED BY <1>3, <1>4, <1>5, <1>6, <1>7

(* The message of the sender s at the head of the list is queued.          *)
LEMMA PipelinedReceive ==
    ASSUME WaitersAgree, CallInv, NEW t \in Tasks, pipelined_receive(t)
    PROVE  \E s \in Tasks, m \in Msgs :
              /\ pc[t] = "rlock" /\ lock = NoTask /\ messages # <<>>
              /\ s \in ToSet(e_send) /\ e_send # <<>> /\ s # t
              /\ op[s] = "send" /\ pc[s] \in WaitPcs /\ wstate[s] = "NONE"
              /\ hold[s] \in Msgs
              /\ messages' = msg_insert(Front(messages), hold[s])
              /\ messages' \in Seq(Msgs) /\ Len(messages') = Len(messages)
              /\ hold' = [hold EXCEPT ![t] = m, ![s] = NoMsg]
              /\ e_send' = RemoveFirst(e_send, s)
              /\ Unlinked(e_send, e_send', s)
              /\ Prepare(t, s)
              /\ UNCHANGED <<e_recv, notifyv, filev, op, sched, callv>>
<1> DEFINE s == wq_get_first_waiter(e_send)
<1>1. /\ e_send \in Seq(Tasks) /\ IsInjective(e_send)
      /\ messages \in Seq(Msgs)
  BY DEF WaitersAgree, TypeOK
<1>2. s # NoTask
  BY DEF pipelined_receive
<1>3. s \in Tasks /\ s \in ToSet(e_send) /\ e_send # <<>>
  BY <1>1, <1>2, FirstWaiter
<1>4. /\ pc[t] = "rlock" /\ lock = NoTask /\ messages # <<>>
      /\ messages' = msg_insert(Front(messages), hold[s])
      /\ hold' = [hold EXCEPT ![t] = Last(messages), ![s] = NoMsg]
      /\ e_send' = RemoveFirst(e_send, s)
      /\ Prepare(t, s)
      /\ UNCHANGED <<e_recv, notifyv, filev, op, sched, callv>>
  BY DEF pipelined_receive
<1> HIDE DEF s
<1>5. Unlinked(e_send, e_send', s)
  BY <1>1, <1>4, RemoveFirstEntries DEF Unlinked
<1>6. op[s] = "send" /\ pc[s] \in WaitPcs /\ wstate[s] = "NONE"
  BY <1>3 DEF WaitersAgree
<1>7. s # t
  BY <1>4, <1>6 DEF WaitPcs
<1>8. hold[s] \in Msgs
  BY <1>3, <1>6 DEF CallInv
<1>9. /\ Last(messages) \in Msgs /\ Front(messages) \in Seq(Msgs)
      /\ Len(Front(messages)) = Len(messages) - 1
  BY <1>1, <1>4, FrontLast
<1>10. messages' \in Seq(Msgs) /\ Len(messages') = Len(Front(messages)) + 1
  BY <1>4, <1>8, <1>9, MsgInsert
<1>11. messages' \in Seq(Msgs) /\ Len(messages') = Len(messages)
  BY <1>1, <1>9, <1>10
<1> DEFINE m == Last(messages)
<1>12. m \in Msgs /\ hold' = [hold EXCEPT ![t] = m, ![s] = NoMsg]
  BY <1>4, <1>9
<1> HIDE DEF m
<1> QED BY <1>3, <1>4, <1>5, <1>6, <1>7, <1>8, <1>11, <1>12

(* The sleeper leaves wq_sleep(), or sleeps again.                         *)
LEMMA WqRelock ==
    ASSUME WaitersAgree, CallInv, NEW t \in Tasks, wq_relock(t)
    PROVE  /\ pc[t] = "relock" /\ lock = NoTask
           /\ \/ /\ wstate[t] = "READY"
                 /\ Served(t)
                 /\ UNCHANGED <<e_send, e_recv, state>>
              \/ /\ wstate[t] # "READY" /\ t \in sig \cup timedout
                 /\ e_send' = RemoveFirst(e_send, t) /\ e_recv' = RemoveFirst(e_recv, t)
                 /\ Unlinked(e_send, e_send', t) /\ Unlinked(e_recv, e_recv', t)
                 /\ Return(t, IF t \in sig THEN "ERESTARTSYS" ELSE "ETIMEDOUT")
                 /\ UNCHANGED state
              \/ /\ wstate[t] # "READY" /\ t \notin sig \cup timedout
                 /\ state' = [state EXCEPT ![t] = "INT"]
                 /\ Goto(t, "sleep")
                 /\ UNCHANGED <<e_send, e_recv, hold, res>>
           /\ UNCHANGED <<lock, messages, notifyv, filev, op, wstate, sig, timedout, woken,
                          callv>>
<1>1. /\ e_send \in Seq(Tasks) /\ IsInjective(e_send)
      /\ e_recv \in Seq(Tasks) /\ IsInjective(e_recv)
  BY DEF WaitersAgree, TypeOK
<1>2. /\ Unlinked(e_send, RemoveFirst(e_send, t), t)
      /\ Unlinked(e_recv, RemoveFirst(e_recv, t), t)
  BY <1>1, RemoveFirstEntries DEF Unlinked
<1> QED BY <1>2 DEF wq_relock

(* A message is queued.                                                    *)
LEMMA SendInsert ==
    ASSUME WaitersAgree, CallInv, NEW t \in Tasks, send_insert(t)
    PROVE  /\ pc[t] = "slock" /\ lock = NoTask /\ ~Full
           /\ e_recv = <<>> /\ hold[t] \in Msgs
           /\ messages' = msg_insert(messages, hold[t])
           /\ messages' \in Seq(Msgs) /\ Len(messages') = Len(messages) + 1
           /\ do_notify(messages')
           /\ Return(t, "ok")
           /\ UNCHANGED <<lock, e_send, e_recv, sigev_notify, filev, op, wstate, state,
                          timedout, woken, callv>>
<1>1. e_recv \in Seq(Tasks) /\ messages \in Seq(Msgs)
  BY DEF WaitersAgree, TypeOK
<1>2. hold[t] \in Msgs
  BY DEF send_insert, CallInv
<1>3. e_recv = <<>>
  BY <1>1, FirstWaiter DEF send_insert
<1>4. /\ msg_insert(messages, hold[t]) \in Seq(Msgs)
      /\ Len(msg_insert(messages, hold[t])) = Len(messages) + 1
  BY <1>1, <1>2, MsgInsert
<1> QED BY <1>2, <1>3, <1>4 DEF send_insert

(* A message is taken, and nobody waits for the room.                      *)
LEMMA RecvGet ==
    ASSUME WaitersAgree, CallInv, NEW t \in Tasks, recv_get(t)
    PROVE  \E m \in Msgs :
              /\ pc[t] = "rlock" /\ lock = NoTask /\ messages # <<>>
              /\ e_send = <<>>
              /\ messages' = Front(messages)
              /\ messages' \in Seq(Msgs) /\ Len(messages') = Len(messages) - 1
              /\ hold' = [hold EXCEPT ![t] = m]
              /\ Goto(t, "copy")
              /\ UNCHANGED <<lock, e_send, e_recv, notifyv, filev, op, wstate, sched, woken,
                             callv, res>>
<1>1. e_send \in Seq(Tasks) /\ messages \in Seq(Msgs)
  BY DEF WaitersAgree, TypeOK
<1>2. messages # <<>>
  BY DEF recv_get
<1>3. e_send = <<>>
  BY <1>1, FirstWaiter DEF recv_get
<1>4. /\ Last(messages) \in Msgs /\ Front(messages) \in Seq(Msgs)
      /\ Len(Front(messages)) = Len(messages) - 1
  BY <1>1, <1>2, FrontLast
<1> DEFINE m == Last(messages)
<1>5. m \in Msgs /\ hold' = [hold EXCEPT ![t] = m]
  BY <1>4 DEF recv_get
<1> HIDE DEF m
<1> QED BY <1>3, <1>4, <1>5 DEF recv_get

(* Every step keeps the types; the array of messages is not overrun.       *)
LEMMA TypeStep ==
    ASSUME WaitersAgree, CallInv, [Next]_vars
    PROVE  TypeOK'
<1> USE DEF TypeOK, Labels, Results, WaitPcs, inodev, notifyv, filev, sched, callv
<1>t. TypeOK
  BY DEF WaitersAgree
<1>s. CASE UNCHANGED vars
  BY <1>s, <1>t DEF vars
<1>1. ASSUME NEW t \in Tasks, syscall_exit(t) PROVE TypeOK'
  BY <1>1, <1>t DEF syscall_exit, Goto
<1>2. ASSUME NEW t \in Tasks, send_full(t) PROVE TypeOK'
  <2>1. CASE Return(t, "EAGAIN") /\ UNCHANGED <<e_send, state>>
    BY <1>2, <2>1, SendFull, <1>t DEF Return, Goto
  <2>2. CASE Sleeps(t, e_send, e_send')
    BY <1>2, <2>2, SendFull, <1>t DEF Sleeps, Goto
  <2> QED BY <1>2, <2>1, <2>2, SendFull
<1>3. ASSUME NEW t \in Tasks, pipelined_send(t) PROVE TypeOK'
  <2>1. PICK r \in Tasks :
              /\ pc[t] = "slock" /\ lock = NoTask /\ ~Full
              /\ r \in ToSet(e_recv) /\ e_recv # <<>> /\ r # t
              /\ op[r] = "recv" /\ pc[r] \in WaitPcs /\ wstate[r] = "NONE"
              /\ hold' = [hold EXCEPT ![t] = NoMsg, ![r] = hold[t]]
              /\ e_recv' = RemoveFirst(e_recv, r)
              /\ Unlinked(e_recv, e_recv', r)
              /\ Prepare(t, r)
              /\ UNCHANGED <<messages, e_send, notifyv, filev, op, sched, callv>>
    BY <1>3, PipelinedSend
  <2> QED BY <2>1, <1>t DEF Unlinked, Prepare, Goto
<1>4. ASSUME NEW t \in Tasks, send_insert(t) PROVE TypeOK'
  <2>1. messages' \in Seq(Msgs) /\ Len(messages') <= mq_maxmsg
    BY <1>4, <1>t, SendInsert, MqConstants DEF Full
  <2>2. notify_owner' \in Pids \cup {NoPid} /\ notify_cookie' \in {"none", "armed", "sent"}
    BY <1>4, <1>t DEF send_insert, do_notify
  <2>3. sig' \subseteq Tasks
    BY <1>4, <1>t DEF send_insert, do_notify
  <2> QED BY <1>4, <1>t, <2>1, <2>2, <2>3 DEF send_insert, Return, Goto
<1>5. ASSUME NEW t \in Tasks, recv_empty(t) PROVE TypeOK'
  <2>1. wq_add(e_recv, t) \in Seq(Tasks)
    BY <1>t, WqAdd
  <2> QED BY <1>5, <1>t, <2>1 DEF recv_empty, Goto, Return
<1>6. ASSUME NEW t \in Tasks, recv_get(t) PROVE TypeOK'
  <2>1. Last(messages) \in Msgs /\ Front(messages) \in Seq(Msgs)
        /\ Len(Front(messages)) = Len(messages) - 1
    BY <1>6, <1>t, FrontLast DEF recv_get
  <2> QED BY <1>6, <1>t, <2>1, MqConstants DEF recv_get, Goto
<1>7. ASSUME NEW t \in Tasks, pipelined_receive(t) PROVE TypeOK'
  <2>1. PICK s \in Tasks, m \in Msgs :
              /\ pc[t] = "rlock" /\ lock = NoTask /\ messages # <<>>
              /\ s \in ToSet(e_send) /\ e_send # <<>> /\ s # t
              /\ op[s] = "send" /\ pc[s] \in WaitPcs /\ wstate[s] = "NONE"
              /\ hold[s] \in Msgs
              /\ messages' = msg_insert(Front(messages), hold[s])
              /\ messages' \in Seq(Msgs) /\ Len(messages') = Len(messages)
              /\ hold' = [hold EXCEPT ![t] = m, ![s] = NoMsg]
              /\ e_send' = RemoveFirst(e_send, s)
              /\ Unlinked(e_send, e_send', s)
              /\ Prepare(t, s)
              /\ UNCHANGED <<e_recv, notifyv, filev, op, sched, callv>>
    BY <1>7, PipelinedReceive
  <2>2. messages' \in Seq(Msgs) /\ Len(messages') <= mq_maxmsg
    BY <1>t, <2>1
  <2>3. e_send' \in Seq(Tasks)
    BY <2>1 DEF Unlinked
  <2>4. /\ hold' \in [Tasks -> Msgs \cup {NoMsg}]
        /\ wstate' \in [Tasks -> {"NONE", "PENDING", "READY"}]
    BY <1>t, <2>1 DEF Prepare
  <2>5. /\ woken' \in [Tasks -> Tasks \cup {NoTask}] /\ pc' \in [Tasks -> Labels]
        /\ lock' \in Tasks \cup {NoTask}
    BY <1>t, <2>1 DEF Prepare, Goto
  <2> QED BY <1>t, <2>1, <2>2, <2>3, <2>4, <2>5 DEF Prepare
<1>8. ASSUME NEW t \in Tasks, recv_copy(t) PROVE TypeOK'
  BY <1>8, <1>t DEF recv_copy, Return, Goto
<1>9. ASSUME NEW t \in Tasks, wake_up_process(t) PROVE TypeOK'
  BY <1>9, <1>t DEF wake_up_process, Goto
<1>10. ASSUME NEW t \in Tasks, set_ready(t) PROVE TypeOK'
  BY <1>10, <1>t DEF set_ready, Return, Goto
<1>11. ASSUME NEW t \in Tasks, wq_wake(t) PROVE TypeOK'
  BY <1>11, <1>t, MqConstants DEF wq_wake, Goto, Runnable
<1>12. ASSUME NEW t \in Tasks, wq_spin(t) PROVE TypeOK'
  BY <1>12, <1>t DEF wq_spin, Served, Return, Goto
<1>13. ASSUME NEW t \in Tasks, wq_relock(t) PROVE TypeOK'
  <2>1. RemoveFirst(e_send, t) \in Seq(Tasks) /\ RemoveFirst(e_recv, t) \in Seq(Tasks)
    BY <1>t, RemoveFirstEntries DEF WaitersAgree
  <2>2. CASE wstate[t] = "READY"
    BY <1>13, <1>t, <2>2 DEF wq_relock, Served, Return, Goto
  <2>3. CASE wstate[t] # "READY" /\ t \in sig \cup timedout
    BY <1>13, <1>t, <2>1, <2>3 DEF wq_relock, Return, Goto
  <2>4. CASE wstate[t] # "READY" /\ t \notin sig \cup timedout
    BY <1>13, <1>t, <2>4 DEF wq_relock, Goto
  <2> QED BY <2>2, <2>3, <2>4
<1>14. ASSUME NEW t \in Tasks, notify_fget(t) PROVE TypeOK'
  BY <1>14, <1>t DEF notify_fget, Return, Goto
<1>15. ASSUME NEW t \in Tasks, notify_register(t) PROVE TypeOK'
  <2>1. Tgid[t] \in Pids /\ (kind[t] # "NULL" => kind[t] \in {"NONE", "SIGNAL", "THREAD"})
    BY <1>t, MqConstants DEF Pids
  <2>2. /\ notify_owner' \in Pids \cup {NoPid}
        /\ sigev_notify' \in {"NONE", "SIGNAL", "THREAD"}
        /\ notify_cookie' \in {"none", "armed", "sent"}
    BY <1>15, <1>t, <2>1 DEF notify_register
  <2> QED BY <1>15, <1>t, <2>2 DEF notify_register, Return, Goto
<1>16. ASSUME NEW t \in Tasks, notify_remove(t) PROVE TypeOK'
  BY <1>16, <1>t DEF notify_remove, remove_notification, Return, Goto
<1>17. ASSUME NEW t \in Tasks, mqueue_flush_file(t) PROVE TypeOK'
  BY <1>17, <1>t DEF mqueue_flush_file, remove_notification, Return, Goto
<1>18. ASSUME NEW t \in Tasks, Signal(t) PROVE TypeOK'
  BY <1>18, <1>t DEF Signal
<1>19. ASSUME NEW t \in Tasks, mq_timedsend(t) PROVE TypeOK'
  BY <1>19, <1>t, MqConstants DEF mq_timedsend, Goto
<1>20. ASSUME NEW t \in Tasks, mq_timedreceive(t) PROVE TypeOK'
  BY <1>20, <1>t DEF mq_timedreceive, Goto
<1>21. ASSUME NEW t \in Notifiers, mq_notify(t) PROVE TypeOK'
  BY <1>21, <1>t, MqConstants DEF mq_notify, Goto
<1>22. ASSUME NEW t \in Tasks, close(t) PROVE TypeOK'
  BY <1>22, <1>t DEF close, Goto, Pids
<1>23. ASSUME NEW t \in Tasks, mq_getsetattr(t) PROVE TypeOK'
  BY <1>23, <1>t DEF mq_getsetattr, Pids
<1>24. ASSUME NEW t \in Tasks, netlink_attachskb(t) PROVE TypeOK'
  <2>1. CASE Goto(t, "nget") /\ UNCHANGED <<nc, hold, res>>
    BY <1>24, <1>t, <2>1 DEF netlink_attachskb, Goto
  <2>2. ASSUME NEW e \in {"EBADF", "ERESTARTSYS"}, Return(t, e), nc' = nc \ {t} PROVE TypeOK'
    BY <1>24, <1>t, <2>2 DEF netlink_attachskb, Return, Goto
  <2> QED BY <1>24, <2>1, <2>2 DEF netlink_attachskb
<1> QED BY <1>s, <1>1, <1>2, <1>3, <1>4, <1>5, <1>6, <1>7, <1>8, <1>9, <1>10, <1>11, <1>12,
       <1>13, <1>14, <1>15, <1>16, <1>17, <1>18, <1>19, <1>20, <1>21, <1>22, <1>23, <1>24,
       MqConstants DEF Next, Step

(* Every step keeps the wait lists as WaitersAgree says.                   *)
LEMMA WaitersStep ==
    ASSUME WaitersAgree, LockInv, CallInv, WakeInv, [Next]_vars
    PROVE  WaitersAgree'
<1> USE DEF WaitersAgree, WaitPcs, CallInv, WakeInv, WakeupHitsLiveWaiter, inodev,
   notifyv, filev, sched, callv
<1>t. /\ pc \in [Tasks -> Labels]
      /\ op \in [Tasks -> {"none", "send", "recv", "notify", "close"}]
      /\ hold \in [Tasks -> Msgs \cup {NoMsg}]
      /\ wstate \in [Tasks -> {"NONE", "PENDING", "READY"}]
      /\ woken \in [Tasks -> Tasks \cup {NoTask}] /\ lock \in Tasks \cup {NoTask}
      /\ NoTask \notin Tasks /\ NoMsg \notin Msgs
  BY MqConstants DEF WaitersAgree, TypeOK
<1>T. TypeOK'
  BY TypeStep
<1>s. CASE UNCHANGED vars
  BY <1>s, <1>T DEF vars
<1>1. ASSUME NEW t \in Tasks, syscall_exit(t) PROVE WaitersAgree'
  BY <1>1, <1>t, <1>T DEF syscall_exit, Goto
<1>2. ASSUME NEW t \in Tasks, send_full(t) PROVE WaitersAgree'
  BY <1>2, SendFull, <1>t, <1>T DEF Sleeps, Return, Goto
<1>3. ASSUME NEW t \in Tasks, pipelined_send(t) PROVE WaitersAgree'
  <2>1. PICK r \in Tasks :
              /\ pc[t] = "slock" /\ lock = NoTask /\ ~Full
              /\ r \in ToSet(e_recv) /\ e_recv # <<>> /\ r # t
              /\ op[r] = "recv" /\ pc[r] \in WaitPcs /\ wstate[r] = "NONE"
              /\ hold' = [hold EXCEPT ![t] = NoMsg, ![r] = hold[t]]
              /\ e_recv' = RemoveFirst(e_recv, r)
              /\ Unlinked(e_recv, e_recv', r)
              /\ Prepare(t, r)
              /\ UNCHANGED <<messages, e_send, notifyv, filev, op, sched, callv>>
    BY <1>3, PipelinedSend
  <2> QED BY <2>1, <1>t, <1>T DEF Unlinked, Prepare, Goto
<1>4. ASSUME NEW t \in Tasks, send_insert(t) PROVE WaitersAgree'
  BY <1>4, SendInsert, <1>t, <1>T DEF Return, Goto, do_notify
<1>5. ASSUME NEW t \in Tasks, recv_empty(t) PROVE WaitersAgree'
  BY <1>5, RecvEmpty, <1>t, <1>T DEF Sleeps, Return, Goto
<1>6. ASSUME NEW t \in Tasks, recv_get(t) PROVE WaitersAgree'
  <2>1. PICK m \in Msgs :
              /\ pc[t] = "rlock" /\ lock = NoTask /\ messages # <<>>
              /\ e_send = <<>>
              /\ messages' = Front(messages)
              /\ messages' \in Seq(Msgs) /\ Len(messages') = Len(messages) - 1
              /\ hold' = [hold EXCEPT ![t] = m]
              /\ Goto(t, "copy")
              /\ UNCHANGED <<lock, e_send, e_recv, notifyv, filev, op, wstate, sched, woken,
                             callv, res>>
    BY <1>6, RecvGet
  <2> QED BY <2>1, <1>t, <1>T DEF Goto
<1>7. ASSUME NEW t \in Tasks, pipelined_receive(t) PROVE WaitersAgree'
  <2>1. PICK s \in Tasks, m \in Msgs :
              /\ pc[t] = "rlock" /\ lock = NoTask /\ messages # <<>>
              /\ s \in ToSet(e_send) /\ e_send # <<>> /\ s # t
              /\ op[s] = "send" /\ pc[s] \in WaitPcs /\ wstate[s] = "NONE"
              /\ hold[s] \in Msgs
              /\ messages' = msg_insert(Front(messages), hold[s])
              /\ messages' \in Seq(Msgs) /\ Len(messages') = Len(messages)
              /\ hold' = [hold EXCEPT ![t] = m, ![s] = NoMsg]
              /\ e_send' = RemoveFirst(e_send, s)
              /\ Unlinked(e_send, e_send', s)
              /\ Prepare(t, s)
              /\ UNCHANGED <<e_recv, notifyv, filev, op, sched, callv>>
    BY <1>7, PipelinedReceive
  <2> QED BY <2>1, <1>t, <1>T DEF Unlinked, Prepare, Goto
<1>8. ASSUME NEW t \in Tasks, recv_copy(t) PROVE WaitersAgree'
  BY <1>8, <1>t, <1>T DEF recv_copy, Return, Goto
<1>9. ASSUME NEW t \in Tasks, wake_up_process(t) PROVE WaitersAgree'
  BY <1>9, <1>t, <1>T DEF wake_up_process, Goto
<1>10. ASSUME NEW t \in Tasks, set_ready(t) PROVE WaitersAgree'
  BY <1>10, <1>t, <1>T DEF set_ready, Return, Goto
<1>11. ASSUME NEW t \in Tasks, wq_wake(t) PROVE WaitersAgree'
  BY <1>11, <1>t, <1>T DEF wq_wake, Goto
<1>12. ASSUME NEW t \in Tasks, wq_spin(t) PROVE WaitersAgree'
  BY <1>12, <1>t, <1>T DEF wq_spin, Served, Return, Goto
<1>13. ASSUME NEW t \in Tasks, wq_relock(t) PROVE WaitersAgree'
  BY <1>13, WqRelock, <1>t, <1>T DEF Unlinked, Served, Return, Goto
<1>14. ASSUME NEW t \in Tasks, notify_fget(t) PROVE WaitersAgree'
  BY <1>14, <1>t, <1>T DEF notify_fget, Return, Goto
<1>15. ASSUME NEW t \in Tasks, notify_register(t) PROVE WaitersAgree'
  BY <1>15, <1>t, <1>T DEF notify_register, Return, Goto
<1>16. ASSUME NEW t \in Tasks, notify_remove(t) PROVE WaitersAgree'
  BY <1>16, <1>t, <1>T DEF notify_remove, remove_notification, Return, Goto
<1>17. ASSUME NEW t \in Tasks, mqueue_flush_file(t) PROVE WaitersAgree'
  BY <1>17, <1>t, <1>T DEF mqueue_flush_file, remove_notification, Return, Goto
<1>18. ASSUME NEW t \in Tasks, Signal(t) PROVE WaitersAgree'
  BY <1>18, <1>t, <1>T DEF Signal
<1>19. ASSUME NEW t \in Tasks, mq_timedsend(t) PROVE WaitersAgree'
  BY <1>19, <1>t, <1>T DEF mq_timedsend, Goto
<1>20. ASSUME NEW t \in Tasks, mq_timedreceive(t) PROVE WaitersAgree'
  BY <1>20, <1>t, <1>T DEF mq_timedreceive, Goto
<1>21. ASSUME NEW t \in Notifiers, mq_notify(t) PROVE WaitersAgree'
  BY <1>21, <1>t, <1>T DEF mq_notify, Goto
<1>22. ASSUME NEW t \in Tasks, close(t) PROVE WaitersAgree'
  BY <1>22, <1>t, <1>T DEF close, Goto
<1>23. ASSUME NEW t \in Tasks, mq_getsetattr(t) PROVE WaitersAgree'
  BY <1>23, <1>t, <1>T DEF mq_getsetattr
<1>24. ASSUME NEW t \in Tasks, netlink_attachskb(t) PROVE WaitersAgree'
  BY <1>24, <1>t, <1>T DEF netlink_attachskb, Return, Goto
<1> QED BY <1>s, <1>1, <1>2, <1>3, <1>4, <1>5, <1>6, <1>7, <1>8, <1>9, <1>10, <1>11, <1>12,
       <1>13, <1>14, <1>15, <1>16, <1>17, <1>18, <1>19, <1>20, <1>21, <1>22, <1>23, <1>24,
       MqConstants DEF Next, Step

(* Every step keeps LockInv.                                               *)
LEMMA LockStep ==
    ASSUME WaitersAgree, LockInv, CallInv, WakeInv, [Next]_vars
    PROVE  LockInv'
<1> USE DEF LockInv, WaitPcs, inodev, notifyv, filev, sched, callv
<1>t. /\ pc \in [Tasks -> Labels]
      /\ op \in [Tasks -> {"none", "send", "recv", "notify", "close"}]
      /\ hold \in [Tasks -> Msgs \cup {NoMsg}]
      /\ wstate \in [Tasks -> {"NONE", "PENDING", "READY"}]
      /\ woken \in [Tasks -> Tasks \cup {NoTask}] /\ lock \in Tasks \cup {NoTask}
      /\ NoTask \notin Tasks /\ NoMsg \notin Msgs
  BY MqConstants DEF WaitersAgree, TypeOK
<1>s. CASE UNCHANGED vars
  BY <1>s, <1>t DEF vars
<1>1. ASSUME NEW t \in Tasks, syscall_exit(t) PROVE LockInv'
  BY <1>1, <1>t DEF syscall_exit, Goto
<1>2. ASSUME NEW t \in Tasks, send_full(t) PROVE LockInv'
  BY <1>2, SendFull, <1>t DEF Sleeps, Return, Goto
<1>3. ASSUME NEW t \in Tasks, pipelined_send(t) PROVE LockInv'
  <2>1. PICK r \in Tasks :
              /\ pc[t] = "slock" /\ lock = NoTask /\ ~Full
              /\ r \in ToSet(e_recv) /\ e_recv # <<>> /\ r # t
              /\ op[r] = "recv" /\ pc[r] \in WaitPcs /\ wstate[r] = "NONE"
              /\ hold' = [hold EXCEPT ![t] = NoMsg, ![r] = hold[t]]
              /\ e_recv' = RemoveFirst(e_recv, r)
              /\ Unlinked(e_recv, e_recv', r)
              /\ Prepare(t, r)
              /\ UNCHANGED <<messages, e_send, notifyv, filev, op, sched, callv>>
    BY <1>3, PipelinedSend
  <2> QED BY <2>1, <1>t DEF Unlinked, Prepare, Goto
<1>4. ASSUME NEW t \in Tasks, send_insert(t) PROVE LockInv'
  BY <1>4, SendInsert, <1>t DEF Return, Goto, do_notify
<1>5. ASSUME NEW t \in Tasks, recv_empty(t) PROVE LockInv'
  BY <1>5, RecvEmpty, <1>t DEF Sleeps, Return, Goto
<1>6. ASSUME NEW t \in Tasks, recv_get(t) PROVE LockInv'
  <2>1. PICK m \in Msgs :
              /\ pc[t] = "rlock" /\ lock = NoTask /\ messages # <<>>
              /\ e_send = <<>>
              /\ messages' = Front(messages)
              /\ messages' \in Seq(Msgs) /\ Len(messages') = Len(messages) - 1
              /\ hold' = [hold EXCEPT ![t] = m]
              /\ Goto(t, "copy")
              /\ UNCHANGED <<lock, e_send, e_recv, notifyv, filev, op, wstate, sched, woken,
                             callv, res>>
    BY <1>6, RecvGet
  <2> QED BY <2>1, <1>t DEF Goto
<1>7. ASSUME NEW t \in Tasks, pipelined_receive(t) PROVE LockInv'
  <2>1. PICK s \in Tasks, m \in Msgs :
              /\ pc[t] = "rlock" /\ lock = NoTask /\ messages # <<>>
              /\ s \in ToSet(e_send) /\ e_send # <<>> /\ s # t
              /\ op[s] = "send" /\ pc[s] \in WaitPcs /\ wstate[s] = "NONE"
              /\ hold[s] \in Msgs
              /\ messages' = msg_insert(Front(messages), hold[s])
              /\ messages' \in Seq(Msgs) /\ Len(messages') = Len(messages)
              /\ hold' = [hold EXCEPT ![t] = m, ![s] = NoMsg]
              /\ e_send' = RemoveFirst(e_send, s)
              /\ Unlinked(e_send, e_send', s)
              /\ Prepare(t, s)
              /\ UNCHANGED <<e_recv, notifyv, filev, op, sched, callv>>
    BY <1>7, PipelinedReceive
  <2> QED BY <2>1, <1>t DEF Unlinked, Prepare, Goto
<1>8. ASSUME NEW t \in Tasks, recv_copy(t) PROVE LockInv'
  BY <1>8, <1>t DEF recv_copy, Return, Goto
<1>9. ASSUME NEW t \in Tasks, wake_up_process(t) PROVE LockInv'
  BY <1>9, <1>t DEF wake_up_process, Goto
<1>10. ASSUME NEW t \in Tasks, set_ready(t) PROVE LockInv'
  BY <1>10, <1>t DEF set_ready, Return, Goto
<1>11. ASSUME NEW t \in Tasks, wq_wake(t) PROVE LockInv'
  BY <1>11, <1>t DEF wq_wake, Goto
<1>12. ASSUME NEW t \in Tasks, wq_spin(t) PROVE LockInv'
  BY <1>12, <1>t DEF wq_spin, Served, Return, Goto
<1>13. ASSUME NEW t \in Tasks, wq_relock(t) PROVE LockInv'
  BY <1>13, WqRelock, <1>t DEF Unlinked, Served, Return, Goto
<1>14. ASSUME NEW t \in Tasks, notify_fget(t) PROVE LockInv'
  BY <1>14, <1>t DEF notify_fget, Return, Goto
<1>15. ASSUME NEW t \in Tasks, notify_register(t) PROVE LockInv'
  BY <1>15, <1>t DEF notify_register, Return, Goto
<1>16. ASSUME NEW t \in Tasks, notify_remove(t) PROVE LockInv'
  BY <1>16, <1>t DEF notify_remove, remove_notification, Return, Goto
<1>17. ASSUME NEW t \in Tasks, mqueue_flush_file(t) PROVE LockInv'
  BY <1>17, <1>t DEF mqueue_flush_file, remove_notification, Return, Goto
<1>18. ASSUME NEW t \in Tasks, Signal(t) PROVE LockInv'
  BY <1>18, <1>t DEF Signal
<1>19. ASSUME NEW t \in Tasks, mq_timedsend(t) PROVE LockInv'
  BY <1>19, <1>t DEF mq_timedsend, Goto
<1>20. ASSUME NEW t \in Tasks, mq_timedreceive(t) PROVE LockInv'
  BY <1>20, <1>t DEF mq_timedreceive, Goto
<1>21. ASSUME NEW t \in Notifiers, mq_notify(t) PROVE LockInv'
  BY <1>21, <1>t DEF mq_notify, Goto
<1>22. ASSUME NEW t \in Tasks, close(t) PROVE LockInv'
  BY <1>22, <1>t DEF close, Goto
<1>23. ASSUME NEW t \in Tasks, mq_getsetattr(t) PROVE LockInv'
  BY <1>23, <1>t DEF mq_getsetattr
<1>24. ASSUME NEW t \in Tasks, netlink_attachskb(t) PROVE LockInv'
  BY <1>24, <1>t DEF netlink_attachskb, Return, Goto
<1> QED BY <1>s, <1>1, <1>2, <1>3, <1>4, <1>5, <1>6, <1>7, <1>8, <1>9, <1>10, <1>11, <1>12,
       <1>13, <1>14, <1>15, <1>16, <1>17, <1>18, <1>19, <1>20, <1>21, <1>22, <1>23, <1>24,
       MqConstants DEF Next, Step

(* Every step keeps CallInv.                                               *)
LEMMA CallStep ==
    ASSUME WaitersAgree, LockInv, CallInv, WakeInv, [Next]_vars
    PROVE  CallInv'
<1> USE DEF CallInv, WaitPcs, WakeInv, WakeupHitsLiveWaiter, inodev, notifyv, filev,
   sched, callv
<1>t. /\ pc \in [Tasks -> Labels]
      /\ op \in [Tasks -> {"none", "send", "recv", "notify", "close"}]
      /\ hold \in [Tasks -> Msgs \cup {NoMsg}]
      /\ wstate \in [Tasks -> {"NONE", "PENDING", "READY"}]
      /\ woken \in [Tasks -> Tasks \cup {NoTask}] /\ lock \in Tasks \cup {NoTask}
      /\ NoTask \notin Tasks /\ NoMsg \notin Msgs
  BY MqConstants DEF WaitersAgree, TypeOK
<1>s. CASE UNCHANGED vars
  BY <1>s, <1>t DEF vars
<1>1. ASSUME NEW t \in Tasks, syscall_exit(t) PROVE CallInv'
  BY <1>1, <1>t DEF syscall_exit, Goto
<1>2. ASSUME NEW t \in Tasks, send_full(t) PROVE CallInv'
  BY <1>2, SendFull, <1>t DEF Sleeps, Return, Goto
<1>3. ASSUME NEW t \in Tasks, pipelined_send(t) PROVE CallInv'
  <2>1. PICK r \in Tasks :
              /\ pc[t] = "slock" /\ lock = NoTask /\ ~Full
              /\ r \in ToSet(e_recv) /\ e_recv # <<>> /\ r # t
              /\ op[r] = "recv" /\ pc[r] \in WaitPcs /\ wstate[r] = "NONE"
              /\ hold' = [hold EXCEPT ![t] = NoMsg, ![r] = hold[t]]
              /\ e_recv' = RemoveFirst(e_recv, r)
              /\ Unlinked(e_recv, e_recv', r)
              /\ Prepare(t, r)
              /\ UNCHANGED <<messages, e_send, notifyv, filev, op, sched, callv>>
    BY <1>3, PipelinedSend
  <2> QED BY <2>1, <1>t DEF Unlinked, Prepare, Goto
<1>4. ASSUME NEW t \in Tasks, send_insert(t) PROVE CallInv'
  BY <1>4, SendInsert, <1>t DEF Return, Goto, do_notify
<1>5. ASSUME NEW t \in Tasks, recv_empty(t) PROVE CallInv'
  BY <1>5, RecvEmpty, <1>t DEF Sleeps, Return, Goto
<1>6. ASSUME NEW t \in Tasks, recv_get(t) PROVE CallInv'
  <2>1. PICK m \in Msgs :
              /\ pc[t] = "rlock" /\ lock = NoTask /\ messages # <<>>
              /\ e_send = <<>>
              /\ messages' = Front(messages)
              /\ messages' \in Seq(Msgs) /\ Len(messages') = Len(messages) - 1
              /\ hold' = [hold EXCEPT ![t] = m]
              /\ Goto(t, "copy")
              /\ UNCHANGED <<lock, e_send, e_recv, notifyv, filev, op, wstate, sched, woken,
                             callv, res>>
    BY <1>6, RecvGet
  <2> QED BY <2>1, <1>t DEF Goto
<1>7. ASSUME NEW t \in Tasks, pipelined_receive(t) PROVE CallInv'
  <2>1. PICK s \in Tasks, m \in Msgs :
              /\ pc[t] = "rlock" /\ lock = NoTask /\ messages # <<>>
              /\ s \in ToSet(e_send) /\ e_send # <<>> /\ s # t
              /\ op[s] = "send" /\ pc[s] \in WaitPcs /\ wstate[s] = "NONE"
              /\ hold[s] \in Msgs
              /\ messages' = msg_insert(Front(messages), hold[s])
              /\ messages' \in Seq(Msgs) /\ Len(messages') = Len(messages)
              /\ hold' = [hold EXCEPT ![t] = m, ![s] = NoMsg]
              /\ e_send' = RemoveFirst(e_send, s)
              /\ Unlinked(e_send, e_send', s)
              /\ Prepare(t, s)
              /\ UNCHANGED <<e_recv, notifyv, filev, op, sched, callv>>
    BY <1>7, PipelinedReceive
  <2> QED BY <2>1, <1>t DEF Unlinked, Prepare, Goto
<1>8. ASSUME NEW t \in Tasks, recv_copy(t) PROVE CallInv'
  BY <1>8, <1>t DEF recv_copy, Return, Goto
<1>9. ASSUME NEW t \in Tasks, wake_up_process(t) PROVE CallInv'
  BY <1>9, <1>t DEF wake_up_process, Goto
<1>10. ASSUME NEW t \in Tasks, set_ready(t) PROVE CallInv'
  BY <1>10, <1>t DEF set_ready, Return, Goto
<1>11. ASSUME NEW t \in Tasks, wq_wake(t) PROVE CallInv'
  BY <1>11, <1>t DEF wq_wake, Goto
<1>12. ASSUME NEW t \in Tasks, wq_spin(t) PROVE CallInv'
  BY <1>12, <1>t DEF wq_spin, Served, Return, Goto
<1>13. ASSUME NEW t \in Tasks, wq_relock(t) PROVE CallInv'
  BY <1>13, WqRelock, <1>t DEF Unlinked, Served, Return, Goto
<1>14. ASSUME NEW t \in Tasks, notify_fget(t) PROVE CallInv'
  BY <1>14, <1>t DEF notify_fget, Return, Goto
<1>15. ASSUME NEW t \in Tasks, notify_register(t) PROVE CallInv'
  BY <1>15, <1>t DEF notify_register, Return, Goto
<1>16. ASSUME NEW t \in Tasks, notify_remove(t) PROVE CallInv'
  BY <1>16, <1>t DEF notify_remove, remove_notification, Return, Goto
<1>17. ASSUME NEW t \in Tasks, mqueue_flush_file(t) PROVE CallInv'
  BY <1>17, <1>t DEF mqueue_flush_file, remove_notification, Return, Goto
<1>18. ASSUME NEW t \in Tasks, Signal(t) PROVE CallInv'
  BY <1>18, <1>t DEF Signal
<1>19. ASSUME NEW t \in Tasks, mq_timedsend(t) PROVE CallInv'
  BY <1>19, <1>t DEF mq_timedsend, Goto
<1>20. ASSUME NEW t \in Tasks, mq_timedreceive(t) PROVE CallInv'
  BY <1>20, <1>t DEF mq_timedreceive, Goto
<1>21. ASSUME NEW t \in Notifiers, mq_notify(t) PROVE CallInv'
  BY <1>21, <1>t DEF mq_notify, Goto
<1>22. ASSUME NEW t \in Tasks, close(t) PROVE CallInv'
  BY <1>22, <1>t DEF close, Goto
<1>23. ASSUME NEW t \in Tasks, mq_getsetattr(t) PROVE CallInv'
  BY <1>23, <1>t DEF mq_getsetattr
<1>24. ASSUME NEW t \in Tasks, netlink_attachskb(t) PROVE CallInv'
  BY <1>24, <1>t DEF netlink_attachskb, Return, Goto
<1> QED BY <1>s, <1>1, <1>2, <1>3, <1>4, <1>5, <1>6, <1>7, <1>8, <1>9, <1>10, <1>11, <1>12,
       <1>13, <1>14, <1>15, <1>16, <1>17, <1>18, <1>19, <1>20, <1>21, <1>22, <1>23, <1>24,
       MqConstants DEF Next, Step

(* Every step keeps WakeInv.                                               *)
LEMMA WakeStep ==
    ASSUME WaitersAgree, LockInv, CallInv, WakeInv, [Next]_vars
    PROVE  WakeInv'
<1> USE DEF LockInv, CallInv, WaitPcs, WakeInv, WakeupHitsLiveWaiter, inodev, notifyv,
   filev, sched, callv
<1>t. /\ pc \in [Tasks -> Labels]
      /\ op \in [Tasks -> {"none", "send", "recv", "notify", "close"}]
      /\ hold \in [Tasks -> Msgs \cup {NoMsg}]
      /\ wstate \in [Tasks -> {"NONE", "PENDING", "READY"}]
      /\ woken \in [Tasks -> Tasks \cup {NoTask}] /\ lock \in Tasks \cup {NoTask}
      /\ NoTask \notin Tasks /\ NoMsg \notin Msgs
  BY MqConstants DEF WaitersAgree, TypeOK
<1>s. CASE UNCHANGED vars
  BY <1>s, <1>t DEF vars
<1>1. ASSUME NEW t \in Tasks, syscall_exit(t) PROVE WakeInv'
  BY <1>1, <1>t DEF syscall_exit, Goto
<1>2. ASSUME NEW t \in Tasks, send_full(t) PROVE WakeInv'
  BY <1>2, SendFull, <1>t DEF Sleeps, Return, Goto
<1>3. ASSUME NEW t \in Tasks, pipelined_send(t) PROVE WakeInv'
  <2>1. PICK r \in Tasks :
              /\ pc[t] = "slock" /\ lock = NoTask /\ ~Full
              /\ r \in ToSet(e_recv) /\ e_recv # <<>> /\ r # t
              /\ op[r] = "recv" /\ pc[r] \in WaitPcs /\ wstate[r] = "NONE"
              /\ hold' = [hold EXCEPT ![t] = NoMsg, ![r] = hold[t]]
              /\ e_recv' = RemoveFirst(e_recv, r)
              /\ Unlinked(e_recv, e_recv', r)
              /\ Prepare(t, r)
              /\ UNCHANGED <<messages, e_send, notifyv, filev, op, sched, callv>>
    BY <1>3, PipelinedSend
  <2> QED BY <2>1, <1>t DEF Unlinked, Prepare, Goto
<1>4. ASSUME NEW t \in Tasks, send_insert(t) PROVE WakeInv'
  BY <1>4, SendInsert, <1>t DEF Return, Goto, do_notify
<1>5. ASSUME NEW t \in Tasks, recv_empty(t) PROVE WakeInv'
  BY <1>5, RecvEmpty, <1>t DEF Sleeps, Return, Goto
<1>6. ASSUME NEW t \in Tasks, recv_get(t) PROVE WakeInv'
  <2>1. PICK m \in Msgs :
              /\ pc[t] = "rlock" /\ lock = NoTask /\ messages # <<>>
              /\ e_send = <<>>
              /\ messages' = Front(messages)
              /\ messages' \in Seq(Msgs) /\ Len(messages') = Len(messages) - 1
              /\ hold' = [hold EXCEPT ![t] = m]
              /\ Goto(t, "copy")
              /\ UNCHANGED <<lock, e_send, e_recv, notifyv, filev, op, wstate, sched, woken,
                             callv, res>>
    BY <1>6, RecvGet
  <2> QED BY <2>1, <1>t DEF Goto
<1>7. ASSUME NEW t \in Tasks, pipelined_receive(t) PROVE WakeInv'
  <2>1. PICK s \in Tasks, m \in Msgs :
              /\ pc[t] = "rlock" /\ lock = NoTask /\ messages # <<>>
              /\ s \in ToSet(e_send) /\ e_send # <<>> /\ s # t
              /\ op[s] = "send" /\ pc[s] \in WaitPcs /\ wstate[s] = "NONE"
              /\ hold[s] \in Msgs
              /\ messages' = msg_insert(Front(messages), hold[s])
              /\ messages' \in Seq(Msgs) /\ Len(messages') = Len(messages)
              /\ hold' = [hold EXCEPT ![t] = m, ![s] = NoMsg]
              /\ e_send' = RemoveFirst(e_send, s)
              /\ Unlinked(e_send, e_send', s)
              /\ Prepare(t, s)
              /\ UNCHANGED <<e_recv, notifyv, filev, op, sched, callv>>
    BY <1>7, PipelinedReceive
  <2> QED BY <2>1, <1>t DEF Unlinked, Prepare, Goto
<1>8. ASSUME NEW t \in Tasks, recv_copy(t) PROVE WakeInv'
  BY <1>8, <1>t DEF recv_copy, Return, Goto
<1>9. ASSUME NEW t \in Tasks, wake_up_process(t) PROVE WakeInv'
  BY <1>9, <1>t DEF wake_up_process, Goto
<1>10. ASSUME NEW t \in Tasks, set_ready(t) PROVE WakeInv'
  BY <1>10, <1>t DEF set_ready, Return, Goto
<1>11. ASSUME NEW t \in Tasks, wq_wake(t) PROVE WakeInv'
  BY <1>11, <1>t DEF wq_wake, Goto
<1>12. ASSUME NEW t \in Tasks, wq_spin(t) PROVE WakeInv'
  BY <1>12, <1>t DEF wq_spin, Served, Return, Goto
<1>13. ASSUME NEW t \in Tasks, wq_relock(t) PROVE WakeInv'
  BY <1>13, WqRelock, <1>t DEF Unlinked, Served, Return, Goto
<1>14. ASSUME NEW t \in Tasks, notify_fget(t) PROVE WakeInv'
  BY <1>14, <1>t DEF notify_fget, Return, Goto
<1>15. ASSUME NEW t \in Tasks, notify_register(t) PROVE WakeInv'
  BY <1>15, <1>t DEF notify_register, Return, Goto
<1>16. ASSUME NEW t \in Tasks, notify_remove(t) PROVE WakeInv'
  BY <1>16, <1>t DEF notify_remove, remove_notification, Return, Goto
<1>17. ASSUME NEW t \in Tasks, mqueue_flush_file(t) PROVE WakeInv'
  BY <1>17, <1>t DEF mqueue_flush_file, remove_notification, Return, Goto
<1>18. ASSUME NEW t \in Tasks, Signal(t) PROVE WakeInv'
  BY <1>18, <1>t DEF Signal
<1>19. ASSUME NEW t \in Tasks, mq_timedsend(t) PROVE WakeInv'
  BY <1>19, <1>t DEF mq_timedsend, Goto
<1>20. ASSUME NEW t \in Tasks, mq_timedreceive(t) PROVE WakeInv'
  BY <1>20, <1>t DEF mq_timedreceive, Goto
<1>21. ASSUME NEW t \in Notifiers, mq_notify(t) PROVE WakeInv'
  BY <1>21, <1>t DEF mq_notify, Goto
<1>22. ASSUME NEW t \in Tasks, close(t) PROVE WakeInv'
  BY <1>22, <1>t DEF close, Goto
<1>23. ASSUME NEW t \in Tasks, mq_getsetattr(t) PROVE WakeInv'
  BY <1>23, <1>t DEF mq_getsetattr
<1>24. ASSUME NEW t \in Tasks, netlink_attachskb(t) PROVE WakeInv'
  BY <1>24, <1>t DEF netlink_attachskb, Return, Goto
<1> QED BY <1>s, <1>1, <1>2, <1>3, <1>4, <1>5, <1>6, <1>7, <1>8, <1>9, <1>10, <1>11, <1>12,
       <1>13, <1>14, <1>15, <1>16, <1>17, <1>18, <1>19, <1>20, <1>21, <1>22, <1>23, <1>24,
       MqConstants DEF Next, Step

(* Every step keeps NobodyWaitsInVain.                                     *)
LEMMA VainStep ==
    ASSUME WaitersAgree, CallInv, NobodyWaitsInVain, [Next]_vars
    PROVE  NobodyWaitsInVain'
<1> USE DEF NobodyWaitsInVain, Full, inodev, notifyv, filev, sched, callv
<1>t. /\ pc \in [Tasks -> Labels]
      /\ op \in [Tasks -> {"none", "send", "recv", "notify", "close"}]
      /\ hold \in [Tasks -> Msgs \cup {NoMsg}]
      /\ wstate \in [Tasks -> {"NONE", "PENDING", "READY"}]
      /\ woken \in [Tasks -> Tasks \cup {NoTask}] /\ lock \in Tasks \cup {NoTask}
      /\ NoTask \notin Tasks /\ NoMsg \notin Msgs
  BY MqConstants DEF WaitersAgree, TypeOK
<1>s. CASE UNCHANGED vars
  BY <1>s, <1>t DEF vars
<1>1. ASSUME NEW t \in Tasks, syscall_exit(t) PROVE NobodyWaitsInVain'
  BY <1>1, <1>t DEF syscall_exit, Goto
<1>2. ASSUME NEW t \in Tasks, send_full(t) PROVE NobodyWaitsInVain'
  BY <1>2, SendFull, <1>t DEF Sleeps, Return, Goto
<1>3. ASSUME NEW t \in Tasks, pipelined_send(t) PROVE NobodyWaitsInVain'
  <2>1. PICK r \in Tasks :
              /\ pc[t] = "slock" /\ lock = NoTask /\ ~Full
              /\ r \in ToSet(e_recv) /\ e_recv # <<>> /\ r # t
              /\ op[r] = "recv" /\ pc[r] \in WaitPcs /\ wstate[r] = "NONE"
              /\ hold' = [hold EXCEPT ![t] = NoMsg, ![r] = hold[t]]
              /\ e_recv' = RemoveFirst(e_recv, r)
              /\ Unlinked(e_recv, e_recv', r)
              /\ Prepare(t, r)
              /\ UNCHANGED <<messages, e_send, notifyv, filev, op, sched, callv>>
    BY <1>3, PipelinedSend
  <2> QED BY <2>1, <1>t DEF Unlinked, Prepare, Goto
<1>4. ASSUME NEW t \in Tasks, send_insert(t) PROVE NobodyWaitsInVain'
  BY <1>4, SendInsert, <1>t DEF Return, Goto, do_notify
<1>5. ASSUME NEW t \in Tasks, recv_empty(t) PROVE NobodyWaitsInVain'
  BY <1>5, RecvEmpty, <1>t DEF Sleeps, Return, Goto
<1>6. ASSUME NEW t \in Tasks, recv_get(t) PROVE NobodyWaitsInVain'
  <2>1. PICK m \in Msgs :
              /\ pc[t] = "rlock" /\ lock = NoTask /\ messages # <<>>
              /\ e_send = <<>>
              /\ messages' = Front(messages)
              /\ messages' \in Seq(Msgs) /\ Len(messages') = Len(messages) - 1
              /\ hold' = [hold EXCEPT ![t] = m]
              /\ Goto(t, "copy")
              /\ UNCHANGED <<lock, e_send, e_recv, notifyv, filev, op, wstate, sched, woken,
                             callv, res>>
    BY <1>6, RecvGet
  <2> QED BY <2>1, <1>t DEF Goto
<1>7. ASSUME NEW t \in Tasks, pipelined_receive(t) PROVE NobodyWaitsInVain'
  <2>1. PICK s \in Tasks, m \in Msgs :
              /\ pc[t] = "rlock" /\ lock = NoTask /\ messages # <<>>
              /\ s \in ToSet(e_send) /\ e_send # <<>> /\ s # t
              /\ op[s] = "send" /\ pc[s] \in WaitPcs /\ wstate[s] = "NONE"
              /\ hold[s] \in Msgs
              /\ messages' = msg_insert(Front(messages), hold[s])
              /\ messages' \in Seq(Msgs) /\ Len(messages') = Len(messages)
              /\ hold' = [hold EXCEPT ![t] = m, ![s] = NoMsg]
              /\ e_send' = RemoveFirst(e_send, s)
              /\ Unlinked(e_send, e_send', s)
              /\ Prepare(t, s)
              /\ UNCHANGED <<e_recv, notifyv, filev, op, sched, callv>>
    BY <1>7, PipelinedReceive
  <2> QED BY <2>1, <1>t DEF Unlinked, Prepare, Goto
<1>8. ASSUME NEW t \in Tasks, recv_copy(t) PROVE NobodyWaitsInVain'
  BY <1>8, <1>t DEF recv_copy, Return, Goto
<1>9. ASSUME NEW t \in Tasks, wake_up_process(t) PROVE NobodyWaitsInVain'
  BY <1>9, <1>t DEF wake_up_process, Goto
<1>10. ASSUME NEW t \in Tasks, set_ready(t) PROVE NobodyWaitsInVain'
  BY <1>10, <1>t DEF set_ready, Return, Goto
<1>11. ASSUME NEW t \in Tasks, wq_wake(t) PROVE NobodyWaitsInVain'
  BY <1>11, <1>t DEF wq_wake, Goto
<1>12. ASSUME NEW t \in Tasks, wq_spin(t) PROVE NobodyWaitsInVain'
  BY <1>12, <1>t DEF wq_spin, Served, Return, Goto
<1>13. ASSUME NEW t \in Tasks, wq_relock(t) PROVE NobodyWaitsInVain'
  <2>1. \/ UNCHANGED <<e_send, e_recv>>
        \/ Unlinked(e_send, e_send', t) /\ Unlinked(e_recv, e_recv', t)
    BY <1>13, WqRelock
  <2>2. (e_send = <<>> => e_send' = <<>>) /\ (e_recv = <<>> => e_recv' = <<>>)
    <3>1. CASE UNCHANGED <<e_send, e_recv>>
        BY <3>1
    <3>2. CASE Unlinked(e_send, e_send', t) /\ Unlinked(e_recv, e_recv', t)
      <4>1. /\ e_send \in Seq(Tasks) /\ e_recv \in Seq(Tasks)
            /\ e_send' \in Seq(Tasks) /\ e_recv' \in Seq(Tasks)
        BY <3>2 DEF WaitersAgree, TypeOK, Unlinked
      <4> QED BY <3>2, <4>1, EmptyEntries DEF Unlinked
    <3> QED BY <2>1, <3>1, <3>2
  <2> QED BY <1>13, <2>2 DEF wq_relock
<1>14. ASSUME NEW t \in Tasks, notify_fget(t) PROVE NobodyWaitsInVain'
  BY <1>14, <1>t DEF notify_fget, Return, Goto
<1>15. ASSUME NEW t \in Tasks, notify_register(t) PROVE NobodyWaitsInVain'
  BY <1>15, <1>t DEF notify_register, Return, Goto
<1>16. ASSUME NEW t \in Tasks, notify_remove(t) PROVE NobodyWaitsInVain'
  BY <1>16, <1>t DEF notify_remove, remove_notification, Return, Goto
<1>17. ASSUME NEW t \in Tasks, mqueue_flush_file(t) PROVE NobodyWaitsInVain'
  BY <1>17, <1>t DEF mqueue_flush_file, remove_notification, Return, Goto
<1>18. ASSUME NEW t \in Tasks, Signal(t) PROVE NobodyWaitsInVain'
  BY <1>18, <1>t DEF Signal
<1>19. ASSUME NEW t \in Tasks, mq_timedsend(t) PROVE NobodyWaitsInVain'
  BY <1>19, <1>t DEF mq_timedsend, Goto
<1>20. ASSUME NEW t \in Tasks, mq_timedreceive(t) PROVE NobodyWaitsInVain'
  BY <1>20, <1>t DEF mq_timedreceive, Goto
<1>21. ASSUME NEW t \in Notifiers, mq_notify(t) PROVE NobodyWaitsInVain'
  BY <1>21, <1>t DEF mq_notify, Goto
<1>22. ASSUME NEW t \in Tasks, close(t) PROVE NobodyWaitsInVain'
  BY <1>22, <1>t DEF close, Goto
<1>23. ASSUME NEW t \in Tasks, mq_getsetattr(t) PROVE NobodyWaitsInVain'
  BY <1>23, <1>t DEF mq_getsetattr
<1>24. ASSUME NEW t \in Tasks, netlink_attachskb(t) PROVE NobodyWaitsInVain'
  BY <1>24, <1>t DEF netlink_attachskb, Return, Goto
<1> QED BY <1>s, <1>1, <1>2, <1>3, <1>4, <1>5, <1>6, <1>7, <1>8, <1>9, <1>10, <1>11, <1>12,
       <1>13, <1>14, <1>15, <1>16, <1>17, <1>18, <1>19, <1>20, <1>21, <1>22, <1>23, <1>24,
       MqConstants DEF Next, Step

(* Every step keeps CookieSentOnce.                                        *)
LEMMA CookieStep ==
    ASSUME WaitersAgree, CallInv, CookieSentOnce, [Next]_vars
    PROVE  CookieSentOnce'
<1> USE DEF CookieSentOnce, WaitPcs, inodev, notifyv, filev, sched, callv
<1>t. /\ pc \in [Tasks -> Labels]
      /\ op \in [Tasks -> {"none", "send", "recv", "notify", "close"}]
      /\ hold \in [Tasks -> Msgs \cup {NoMsg}]
      /\ wstate \in [Tasks -> {"NONE", "PENDING", "READY"}]
      /\ woken \in [Tasks -> Tasks \cup {NoTask}] /\ lock \in Tasks \cup {NoTask}
      /\ NoTask \notin Tasks /\ NoMsg \notin Msgs
      /\ kind \in [Tasks -> {"NULL"} \cup Kinds] /\ nc \subseteq Tasks
      /\ notify_owner \in Pids \cup {NoPid} /\ NoPid \notin Pids
      /\ \A t \in Tasks : Tgid[t] \in Pids
  BY MqConstants DEF Pids, WaitersAgree, TypeOK
<1>s. CASE UNCHANGED vars
  BY <1>s, <1>t DEF vars
<1>1. ASSUME NEW t \in Tasks, syscall_exit(t) PROVE CookieSentOnce'
  BY <1>1, <1>t DEF syscall_exit, Goto
<1>2. ASSUME NEW t \in Tasks, send_full(t) PROVE CookieSentOnce'
  BY <1>2, SendFull, <1>t DEF Sleeps, Return, Goto
<1>3. ASSUME NEW t \in Tasks, pipelined_send(t) PROVE CookieSentOnce'
  <2>1. PICK r \in Tasks :
              /\ pc[t] = "slock" /\ lock = NoTask /\ ~Full
              /\ r \in ToSet(e_recv) /\ e_recv # <<>> /\ r # t
              /\ op[r] = "recv" /\ pc[r] \in WaitPcs /\ wstate[r] = "NONE"
              /\ hold' = [hold EXCEPT ![t] = NoMsg, ![r] = hold[t]]
              /\ e_recv' = RemoveFirst(e_recv, r)
              /\ Unlinked(e_recv, e_recv', r)
              /\ Prepare(t, r)
              /\ UNCHANGED <<messages, e_send, notifyv, filev, op, sched, callv>>
    BY <1>3, PipelinedSend
  <2> QED BY <2>1, <1>t DEF Unlinked, Prepare, Goto
<1>4. ASSUME NEW t \in Tasks, send_insert(t) PROVE CookieSentOnce'
  BY <1>4, SendInsert, <1>t DEF Return, Goto, do_notify
<1>5. ASSUME NEW t \in Tasks, recv_empty(t) PROVE CookieSentOnce'
  BY <1>5, RecvEmpty, <1>t DEF Sleeps, Return, Goto
<1>6. ASSUME NEW t \in Tasks, recv_get(t) PROVE CookieSentOnce'
  <2>1. PICK m \in Msgs :
              /\ pc[t] = "rlock" /\ lock = NoTask /\ messages # <<>>
              /\ e_send = <<>>
              /\ messages' = Front(messages)
              /\ messages' \in Seq(Msgs) /\ Len(messages') = Len(messages) - 1
              /\ hold' = [hold EXCEPT ![t] = m]
              /\ Goto(t, "copy")
              /\ UNCHANGED <<lock, e_send, e_recv, notifyv, filev, op, wstate, sched, woken,
                             callv, res>>
    BY <1>6, RecvGet
  <2> QED BY <2>1, <1>t DEF Goto
<1>7. ASSUME NEW t \in Tasks, pipelined_receive(t) PROVE CookieSentOnce'
  <2>1. PICK s \in Tasks, m \in Msgs :
              /\ pc[t] = "rlock" /\ lock = NoTask /\ messages # <<>>
              /\ s \in ToSet(e_send) /\ e_send # <<>> /\ s # t
              /\ op[s] = "send" /\ pc[s] \in WaitPcs /\ wstate[s] = "NONE"
              /\ hold[s] \in Msgs
              /\ messages' = msg_insert(Front(messages), hold[s])
              /\ messages' \in Seq(Msgs) /\ Len(messages') = Len(messages)
              /\ hold' = [hold EXCEPT ![t] = m, ![s] = NoMsg]
              /\ e_send' = RemoveFirst(e_send, s)
              /\ Unlinked(e_send, e_send', s)
              /\ Prepare(t, s)
              /\ UNCHANGED <<e_recv, notifyv, filev, op, sched, callv>>
    BY <1>7, PipelinedReceive
  <2> QED BY <2>1, <1>t DEF Unlinked, Prepare, Goto
<1>8. ASSUME NEW t \in Tasks, recv_copy(t) PROVE CookieSentOnce'
  BY <1>8, <1>t DEF recv_copy, Return, Goto
<1>9. ASSUME NEW t \in Tasks, wake_up_process(t) PROVE CookieSentOnce'
  BY <1>9, <1>t DEF wake_up_process, Goto
<1>10. ASSUME NEW t \in Tasks, set_ready(t) PROVE CookieSentOnce'
  BY <1>10, <1>t DEF set_ready, Return, Goto
<1>11. ASSUME NEW t \in Tasks, wq_wake(t) PROVE CookieSentOnce'
  BY <1>11, <1>t DEF wq_wake, Goto
<1>12. ASSUME NEW t \in Tasks, wq_spin(t) PROVE CookieSentOnce'
  BY <1>12, <1>t DEF wq_spin, Served, Return, Goto
<1>13. ASSUME NEW t \in Tasks, wq_relock(t) PROVE CookieSentOnce'
  BY <1>13, WqRelock, <1>t DEF Unlinked, Served, Return, Goto
<1>14. ASSUME NEW t \in Tasks, notify_fget(t) PROVE CookieSentOnce'
  BY <1>14, <1>t DEF notify_fget, Return, Goto
<1>15. ASSUME NEW t \in Tasks, notify_register(t) PROVE CookieSentOnce'
  BY <1>15, <1>t DEF notify_register, Return, Goto
<1>16. ASSUME NEW t \in Tasks, notify_remove(t) PROVE CookieSentOnce'
  BY <1>16, <1>t DEF notify_remove, remove_notification, Return, Goto
<1>17. ASSUME NEW t \in Tasks, mqueue_flush_file(t) PROVE CookieSentOnce'
  BY <1>17, <1>t DEF mqueue_flush_file, remove_notification, Return, Goto
<1>18. ASSUME NEW t \in Tasks, Signal(t) PROVE CookieSentOnce'
  BY <1>18, <1>t DEF Signal
<1>19. ASSUME NEW t \in Tasks, mq_timedsend(t) PROVE CookieSentOnce'
  BY <1>19, <1>t DEF mq_timedsend, Goto
<1>20. ASSUME NEW t \in Tasks, mq_timedreceive(t) PROVE CookieSentOnce'
  BY <1>20, <1>t DEF mq_timedreceive, Goto
<1>21. ASSUME NEW t \in Notifiers, mq_notify(t) PROVE CookieSentOnce'
  BY <1>21, <1>t, MqConstants DEF mq_notify, Goto
<1>22. ASSUME NEW t \in Tasks, close(t) PROVE CookieSentOnce'
  BY <1>22, <1>t DEF close, Goto
<1>23. ASSUME NEW t \in Tasks, mq_getsetattr(t) PROVE CookieSentOnce'
  BY <1>23, <1>t DEF mq_getsetattr
<1>24. ASSUME NEW t \in Tasks, netlink_attachskb(t) PROVE CookieSentOnce'
  BY <1>24, <1>t DEF netlink_attachskb, Return, Goto
<1> QED BY <1>s, <1>1, <1>2, <1>3, <1>4, <1>5, <1>6, <1>7, <1>8, <1>9, <1>10, <1>11, <1>12,
       <1>13, <1>14, <1>15, <1>16, <1>17, <1>18, <1>19, <1>20, <1>21, <1>22, <1>23, <1>24,
       MqConstants DEF Next, Step


(* list_del() of a waiter leaves the others in order.                      *)
LEMMA DelOrder ==
    ASSUME NEW q \in Seq(Tasks), NEW w,
           \A i, j \in DOMAIN q : i < j => StaticPrio[q[i]] >= StaticPrio[q[j]]
    PROVE  \A i, j \in DOMAIN RemoveFirst(q, w) :
              i < j => StaticPrio[RemoveFirst(q, w)[i]] >= StaticPrio[RemoveFirst(q, w)[j]]
<1> DEFINE R == {uv \in Tasks \X Tasks : StaticPrio[uv[1]] >= StaticPrio[uv[2]]}
           r == RemoveFirst(q, w)
<1>1. \A i, j \in 1 .. Len(q) : i < j => <<q[i], q[j]>> \in R
  <2> SUFFICES ASSUME NEW i \in 1 .. Len(q), NEW j \in 1 .. Len(q), i < j
               PROVE  <<q[i], q[j]>> \in R
    OBVIOUS
  <2>1. StaticPrio[q[i]] >= StaticPrio[q[j]] /\ q[i] \in Tasks /\ q[j] \in Tasks
    OBVIOUS
  <2> QED BY <2>1
<1> HIDE DEF R
<1>2. r \in Seq(Tasks) /\ \A i, j \in 1 .. Len(r) : i < j => <<r[i], r[j]>> \in R
  BY <1>1, RemoveFirstOrder
<1> HIDE DEF r
<1>3. DOMAIN r = 1 .. Len(r)
  BY <1>2
<1> QED BY <1>2, <1>3 DEF R, r

(* msg_get() leaves the others in order.                                   *)
LEMMA GetOrder ==
    ASSUME NEW s \in Seq(Msgs), s # <<>>,
           \A i, j \in DOMAIN s : i < j => MPrio[s[i]] <= MPrio[s[j]]
    PROVE  /\ Front(s) \in Seq(Msgs)
           /\ \A i,
              j \in DOMAIN Front(s) : i < j => MPrio[Front(s)[i]] <= MPrio[Front(s)[j]]
<1> DEFINE f == Front(s)
<1>1. /\ f \in Seq(Msgs) /\ Len(f) = Len(s) - 1
      /\ \A j \in 1 .. Len(s) - 1 : f[j] = s[j]
  BY FrontLast
<1> HIDE DEF f
<1>2. DOMAIN f = 1 .. Len(s) - 1 /\ DOMAIN s = 1 .. Len(s) /\ Len(s) \in Nat
  BY <1>1
<1>3. \A i, j \in DOMAIN f : i < j => MPrio[f[i]] <= MPrio[f[j]]
  BY <1>1, <1>2
<1> QED BY <1>1, <1>3 DEF f

(* Every step keeps OrderInv.                                              *)
LEMMA OrderStep ==
    ASSUME WaitersAgree, CallInv, OrderInv, [Next]_vars
    PROVE  OrderInv'
<1> USE DEF OrderInv, inodev, notifyv, filev, sched, callv
<1>t. e_send \in Seq(Tasks) /\ e_recv \in Seq(Tasks) /\ messages \in Seq(Msgs)
  BY DEF WaitersAgree, TypeOK
<1>a. \A i, j \in DOMAIN e_send : i < j => StaticPrio[e_send[i]] >= StaticPrio[e_send[j]]
  OBVIOUS
<1>b. \A i, j \in DOMAIN e_recv : i < j => StaticPrio[e_recv[i]] >= StaticPrio[e_recv[j]]
  OBVIOUS
<1>c. \A i, j \in DOMAIN messages : i < j => MPrio[messages[i]] <= MPrio[messages[j]]
  OBVIOUS
<1>s. CASE UNCHANGED vars
  BY <1>s, <1>t DEF vars
<1>1. ASSUME NEW t \in Tasks, syscall_exit(t) PROVE OrderInv'
  BY <1>1, <1>t DEF syscall_exit, Goto
<1>2. ASSUME NEW t \in Tasks, send_full(t) PROVE OrderInv'
  <2>1. UNCHANGED <<messages, e_recv>> /\ e_send' \in {e_send, wq_add(e_send, t)}
    BY <1>2 DEF send_full
  <2> QED BY <1>t, <1>a, <2>1, WqAddOrder
<1>3. ASSUME NEW t \in Tasks, pipelined_send(t) PROVE OrderInv'
  <2>1. /\ UNCHANGED <<messages, e_send>>
        /\ e_recv' = RemoveFirst(e_recv, wq_get_first_waiter(e_recv))
    BY <1>3 DEF pipelined_send
  <2> QED BY <1>t, <1>b, <2>1, DelOrder
<1>4. ASSUME NEW t \in Tasks, send_insert(t) PROVE OrderInv'
  <2>1. /\ hold[t] \in Msgs /\ messages' = msg_insert(messages, hold[t])
        /\ UNCHANGED <<e_send, e_recv>>
    BY <1>4, SendInsert
  <2>2. \A i, j \in DOMAIN messages' : i < j => MPrio[messages'[i]] <= MPrio[messages'[j]]
    BY <1>t, <1>c, <2>1, MsgInsertOrder
  <2> QED BY <1>a, <1>b, <2>1, <2>2
<1>5. ASSUME NEW t \in Tasks, recv_empty(t) PROVE OrderInv'
  <2>1. UNCHANGED <<messages, e_send>> /\ e_recv' \in {e_recv, wq_add(e_recv, t)}
    BY <1>5 DEF recv_empty
  <2> QED BY <1>t, <1>b, <2>1, WqAddOrder
<1>6. ASSUME NEW t \in Tasks, recv_get(t) PROVE OrderInv'
  <2>1. messages # <<>> /\ messages' = Front(messages) /\ UNCHANGED <<e_send, e_recv>>
    BY <1>6 DEF recv_get
  <2>2. \A i, j \in DOMAIN messages' : i < j => MPrio[messages'[i]] <= MPrio[messages'[j]]
    BY <1>t, <1>c, <2>1, GetOrder
  <2> QED BY <1>a, <1>b, <2>1, <2>2
<1>7. ASSUME NEW t \in Tasks, pipelined_receive(t) PROVE OrderInv'
  <2>1. PICK s \in Tasks :
              /\ messages # <<>> /\ hold[s] \in Msgs
              /\ messages' = msg_insert(Front(messages), hold[s])
              /\ e_send' = RemoveFirst(e_send, s)
              /\ e_recv' = e_recv
    BY <1>7, PipelinedReceive
  <2>2. /\ Front(messages) \in Seq(Msgs)
        /\ \A i, j \in DOMAIN Front(messages) :
              i < j => MPrio[Front(messages)[i]] <= MPrio[Front(messages)[j]]
    BY <1>t, <1>c, <2>1, GetOrder
  <2>3. \A i, j \in DOMAIN messages' : i < j => MPrio[messages'[i]] <= MPrio[messages'[j]]
    BY <2>1, <2>2, MsgInsertOrder
  <2>4. \A i, j \in DOMAIN e_send' :
           i < j => StaticPrio[e_send'[i]] >= StaticPrio[e_send'[j]]
    BY <1>t, <1>a, <2>1, DelOrder
  <2> QED BY <1>b, <2>1, <2>3, <2>4
<1>8. ASSUME NEW t \in Tasks, recv_copy(t) PROVE OrderInv'
  BY <1>8, <1>t DEF recv_copy, Return, Goto
<1>9. ASSUME NEW t \in Tasks, wake_up_process(t) PROVE OrderInv'
  BY <1>9, <1>t DEF wake_up_process, Goto
<1>10. ASSUME NEW t \in Tasks, set_ready(t) PROVE OrderInv'
  BY <1>10, <1>t DEF set_ready, Return, Goto
<1>11. ASSUME NEW t \in Tasks, wq_wake(t) PROVE OrderInv'
  BY <1>11, <1>t DEF wq_wake, Goto
<1>12. ASSUME NEW t \in Tasks, wq_spin(t) PROVE OrderInv'
  BY <1>12, <1>t DEF wq_spin, Served, Return, Goto
<1>13. ASSUME NEW t \in Tasks, wq_relock(t) PROVE OrderInv'
  <2>1. /\ UNCHANGED messages
        /\ \/ UNCHANGED <<e_send, e_recv>>
           \/ e_send' = RemoveFirst(e_send, t) /\ e_recv' = RemoveFirst(e_recv, t)
    BY <1>13 DEF wq_relock
  <2>2. CASE UNCHANGED <<e_send, e_recv>>
    BY <1>a, <1>b, <1>c, <2>1, <2>2
  <2>3. CASE e_send' = RemoveFirst(e_send, t) /\ e_recv' = RemoveFirst(e_recv, t)
    <3>1. \A i, j \in DOMAIN e_send' :
             i < j => StaticPrio[e_send'[i]] >= StaticPrio[e_send'[j]]
        BY <1>t, <1>a, <2>3, DelOrder
    <3>2. \A i, j \in DOMAIN e_recv' :
             i < j => StaticPrio[e_recv'[i]] >= StaticPrio[e_recv'[j]]
        BY <1>t, <1>b, <2>3, DelOrder
    <3> QED BY <1>c, <2>1, <3>1, <3>2
  <2> QED BY <2>1, <2>2, <2>3
<1>14. ASSUME NEW t \in Tasks, notify_fget(t) PROVE OrderInv'
  BY <1>14, <1>t DEF notify_fget, Return, Goto
<1>15. ASSUME NEW t \in Tasks, notify_register(t) PROVE OrderInv'
  BY <1>15, <1>t DEF notify_register, Return, Goto
<1>16. ASSUME NEW t \in Tasks, notify_remove(t) PROVE OrderInv'
  BY <1>16, <1>t DEF notify_remove, remove_notification, Return, Goto
<1>17. ASSUME NEW t \in Tasks, mqueue_flush_file(t) PROVE OrderInv'
  BY <1>17, <1>t DEF mqueue_flush_file, remove_notification, Return, Goto
<1>18. ASSUME NEW t \in Tasks, Signal(t) PROVE OrderInv'
  BY <1>18, <1>t DEF Signal
<1>19. ASSUME NEW t \in Tasks, mq_timedsend(t) PROVE OrderInv'
  BY <1>19, <1>t DEF mq_timedsend, Goto
<1>20. ASSUME NEW t \in Tasks, mq_timedreceive(t) PROVE OrderInv'
  BY <1>20, <1>t DEF mq_timedreceive, Goto
<1>21. ASSUME NEW t \in Notifiers, mq_notify(t) PROVE OrderInv'
  BY <1>21, <1>t DEF mq_notify, Goto
<1>22. ASSUME NEW t \in Tasks, close(t) PROVE OrderInv'
  BY <1>22, <1>t DEF close, Goto
<1>23. ASSUME NEW t \in Tasks, mq_getsetattr(t) PROVE OrderInv'
  BY <1>23, <1>t DEF mq_getsetattr
<1>24. ASSUME NEW t \in Tasks, netlink_attachskb(t) PROVE OrderInv'
  BY <1>24, <1>t DEF netlink_attachskb, Return, Goto
<1> QED BY <1>s, <1>1, <1>2, <1>3, <1>4, <1>5, <1>6, <1>7, <1>8, <1>9, <1>10, <1>11, <1>12,
       <1>13, <1>14, <1>15, <1>16, <1>17, <1>18, <1>19, <1>20, <1>21, <1>22, <1>23, <1>24,
       MqConstants DEF Next, Step


(* The initial state.                                                      *)
LEMMA InitInv == Init => IInv
<1> SUFFICES ASSUME Init PROVE IInv
  OBVIOUS
<1>1. TypeOK
  BY MqConstants DEF Init, TypeOK, Labels, Results
<1>2. WaitersAgree
  BY <1>1 DEF Init, WaitersAgree, IsInjective, ToSet, WaitPcs
<1>3. LockInv
  BY MqConstants DEF Init, LockInv
<1>4. CallInv
  BY DEF Init, CallInv, WaitPcs
<1>5. WakeInv
  BY DEF Init, WakeInv, WakeupHitsLiveWaiter, WaitPcs
<1>6. NobodyWaitsInVain
  BY DEF Init, NobodyWaitsInVain
<1>7. CookieSentOnce
  BY DEF Init, CookieSentOnce
<1>8. OrderInv
  BY DEF Init, OrderInv
<1> QED BY <1>2, <1>3, <1>4, <1>5, <1>6, <1>7, <1>8 DEF IInv

(* IInv is inductive, hence true in every state of every queue.            *)
THEOREM Inductive == Spec => []IInv
<1>1. IInv /\ [Next]_vars => IInv'
  <2> SUFFICES ASSUME IInv, [Next]_vars PROVE IInv'
    OBVIOUS
  <2>1. /\ WaitersAgree /\ LockInv /\ CallInv /\ WakeInv
        /\ NobodyWaitsInVain /\ CookieSentOnce /\ OrderInv
    BY DEF IInv
  <2> QED
    BY <2>1, WaitersStep, LockStep, CallStep, WakeStep, VainStep, CookieStep, OrderStep
       DEF IInv
<1> QED BY <1>1, InitInv, PTL DEF Spec

(* The lock-free stores of pipelined_send() and pipelined_receive() to     *)
(* another task's ext_wait_queue hit a task that is still in wq_sleep().   *)
THEOREM WakeupSafe == Spec => []WakeupHitsLiveWaiter
<1>1. IInv => WakeupHitsLiveWaiter
  BY DEF IInv, WakeInv
<1> QED BY <1>1, Inductive, PTL

(* A task is on a wait list exactly as long as ewp->state says that nobody *)
(* served it, so that the list_del() after a signal or a timeout is right; *)
(* the array of messages never outgrows mq_maxmsg.                         *)
THEOREM ListsAgree == Spec => []WaitersAgree
<1>1. IInv => WaitersAgree
  BY DEF IInv
<1> QED BY <1>1, Inductive, PTL

(* No sender sleeps beside a free place and no receiver beside a message,  *)
(* whatever wakeups, signals and timeouts come in between.                 *)
THEOREM NoVainWait == Spec => []NobodyWaitsInVain
<1>1. IInv => NobodyWaitsInVain
  BY DEF IInv
<1> QED BY <1>1, Inductive, PTL

(* The cookie of a SIGEV_THREAD registration is sent exactly once.         *)
THEOREM CookieOnce == Spec => []CookieSentOnce
<1>1. IInv => CookieSentOnce
  BY DEF IInv
<1> QED BY <1>1, Inductive, PTL

(* The array of messages stays sorted by priority, so that msg_get() takes *)
(* one of the highest, and both wait lists by static_prio, so that         *)
(* wq_get_first_waiter() finds one of the most urgent.                     *)
THEOREM InOrder == Spec => []OrderInv
<1>1. IInv => OrderInv
  BY DEF IInv
<1> QED BY <1>1, Inductive, PTL

=============================================================================
