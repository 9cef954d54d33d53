--------------------------- MODULE MsgQueueProofs ---------------------------
(***************************************************************************)
(* Two inductive invariants of MsgQueue (locks, memory and references;     *)
(* lists, counters and messages), the search of msgrcv(), and the          *)
(* refinement of MsgQueueAbs, proved for any tasks, messages and requests. *)
(***************************************************************************)
EXTENDS MsgQueueRef, DataLemmas

(* The default argument is an argument.                                    *)
LEMMA NoReqType == NoReq \in Requests
BY ConstantsAssumption DEF NoReq

(* The lock and the read-side sections are taken and left where LockInv    *)
(* says.                                                                   *)
LEMMA LockStep ==
    ASSUME TypeOK, LockInv, [Next]_vars
    PROVE  LockInv'
<1> USE DEF LockInv, Locked, Reading, Labels, perm, queue, acct, rcu, life, args, walk
<1>t. pc \in [Procs -> Labels] /\ NoProc \notin Procs
  BY ConstantsAssumption DEF TypeOK, TypeTask
<1>s. CASE UNCHANGED vars
  BY <1>s, <1>t DEF vars
<1>1. ASSUME NEW p \in Procs, newque(p) PROVE LockInv'
  BY <1>1, <1>t DEF newque
<1>2. ASSUME NEW p \in Procs, ipc_find(p) PROVE LockInv'
  BY <1>2, <1>t DEF ipc_find, Goto, Return
<1>3. ASSUME NEW p \in Procs, ipc_lock_deleted(p) PROVE LockInv'
  BY <1>3, <1>t DEF ipc_lock_deleted, LeaveRcu, Return, Goto
<1>4. ASSUME NEW p \in Procs, SyscallExit(p) PROVE LockInv'
  BY <1>4, <1>t DEF SyscallExit, Goto
<1>5. ASSUME NEW p \in Procs, Signal(p) PROVE LockInv'
  BY <1>5, <1>t DEF Signal
<1>6. CASE ipc_immediate_free
  BY <1>6, <1>t DEF ipc_immediate_free
<1>7. ASSUME NEW p \in Procs, msgsnd(p) PROVE LockInv'
  BY <1>7, <1>t DEF msgsnd, Goto
<1>8. ASSUME NEW p \in Procs, snd_fail(p) PROVE LockInv'
  BY <1>8, <1>t DEF snd_fail, AtTop, UnlockReturn, LeaveRcu, Return, Goto
<1>9. ASSUME NEW p \in Procs, snd_sleep(p) PROVE LockInv'
  BY <1>9, <1>t DEF snd_sleep, AtTop, ipc_rcu_getref, LeaveRcu, Goto
<1>10. ASSUME NEW p \in Procs, snd_relock(p) PROVE LockInv'
  BY <1>10, <1>t DEF snd_relock, Goto
<1>11. ASSUME NEW p \in Procs, snd_putref(p) PROVE LockInv'
  BY <1>11, <1>t DEF snd_putref, PutStore, Goto
<1>12. ASSUME NEW p \in Procs, snd_awake(p) PROVE LockInv'
  BY <1>12, <1>t DEF snd_awake, UnlockReturn, LeaveRcu, Return, Goto
<1>13. ASSUME NEW p \in Procs, snd_start(p) PROVE LockInv'
  BY <1>13, <1>t DEF snd_start, AtTop, Goto
<1>14. ASSUME NEW p \in Procs, pipelined_send(p) PROVE LockInv'
  BY <1>14, <1>t DEF pipelined_send, Goto
<1>15. ASSUME NEW p \in Procs, wake_receiver(p) PROVE LockInv'
  BY <1>15, <1>t DEF wake_receiver, Goto, Woken
<1>16. ASSUME NEW p \in Procs, deliver(p) PROVE LockInv'
  BY <1>16, <1>t DEF deliver, Goto
<1>17. ASSUME NEW p \in Procs, snd_done(p) PROVE LockInv'
  BY <1>17, <1>t DEF snd_done, UnlockReturn, LeaveRcu, Return, Goto
<1>18. ASSUME NEW p \in Procs, msgrcv(p) PROVE LockInv'
  BY <1>18, <1>t DEF msgrcv, Goto
<1>19. ASSUME NEW p \in Procs, rcv_fail(p) PROVE LockInv'
  BY <1>19, <1>t DEF rcv_fail, AtTop, UnlockReturn, LeaveRcu, Return, Goto
<1>20. ASSUME NEW p \in Procs, rcv_dequeue(p) PROVE LockInv'
  BY <1>20, <1>t DEF rcv_dequeue, AtTop, Unlink, LeaveRcu, Goto, Woken
<1>21. ASSUME NEW p \in Procs, rcv_sleep(p) PROVE LockInv'
  BY <1>21, <1>t DEF rcv_sleep, AtTop, LeaveRcu, Goto
<1>22. ASSUME NEW p \in Procs, rcv_wake(p) PROVE LockInv'
  BY <1>22, <1>t DEF rcv_wake, Goto
<1>23. ASSUME NEW p \in Procs, rcv_spin(p) PROVE LockInv'
  BY <1>23, <1>t DEF rcv_spin, Accept, LeaveRcu, Return, Goto
<1>24. ASSUME NEW p \in Procs, rcv_relock(p) PROVE LockInv'
  BY <1>24, <1>t DEF rcv_relock, Accept, UnlockReturn, LeaveRcu, Return, Goto
<1>25. ASSUME NEW p \in Procs, rcv_copy(p) PROVE LockInv'
  BY <1>25, <1>t DEF rcv_copy, Return, Goto
<1>26. ASSUME NEW p \in Procs, msgctl(p) PROVE LockInv'
  BY <1>26, <1>t DEF msgctl, Goto
<1>27. ASSUME NEW p \in Procs, ctl_fail(p) PROVE LockInv'
  BY <1>27, <1>t DEF ctl_fail, UnlockReturn, LeaveRcu, Return, Goto
<1>28. ASSUME NEW p \in Procs, ctl_start(p) PROVE LockInv'
  BY <1>28, <1>t DEF ctl_start, Goto
<1>29. ASSUME NEW p \in Procs, expunge_next(p) PROVE LockInv'
  BY <1>29, <1>t DEF expunge_next, Goto
<1>30. ASSUME NEW p \in Procs, expunge_set(p) PROVE LockInv'
  BY <1>30, <1>t DEF expunge_set, Goto
<1>31. ASSUME NEW p \in Procs, ctl_set_done(p) PROVE LockInv'
  BY <1>31, <1>t DEF ctl_set_done, Woken, UnlockReturn, LeaveRcu, Return, Goto
<1>32. ASSUME NEW p \in Procs, freeque_rmid(p) PROVE LockInv'
  BY <1>32, <1>t DEF freeque_rmid, Woken, LeaveRcu, Goto
<1>33. ASSUME NEW p \in Procs, freeque_drain(p) PROVE LockInv'
  BY <1>33, <1>t DEF freeque_drain, Goto
<1>34. ASSUME NEW p \in Procs, freeque_putref(p) PROVE LockInv'
  BY <1>34, <1>t DEF freeque_putref, PutStore, Return, Goto
<1> QED BY <1>s, <1>1, <1>2, <1>3, <1>4, <1>5, <1>6, <1>7, <1>8, <1>9, <1>10, <1>11, <1>12, <1>13,
  <1>14, <1>15, <1>16, <1>17, <1>18, <1>19, <1>20, <1>21, <1>22, <1>23, <1>24, <1>25, <1>26, <1>27,
  <1>28, <1>29, <1>30, <1>31, <1>32, <1>33, <1>34 DEF Next, KernelStep, Procs

(* Every label belongs to its call.                                        *)
LEMMA CallStep ==
    ASSUME TypeOK, CallInv, [Next]_vars
    PROVE  CallInv'
<1> USE DEF CallInv, Labels, perm, queue, acct, rcu, life, args, walk
<1>t. /\ pc \in [Procs -> Labels] /\ NoMsg \notin Msgs
      /\ cmd \in [Procs -> {"none", "SND", "RCV", "SET", "RMID"}]
      /\ hold \in [Procs -> Msgs \cup {NoMsg}]
  BY ConstantsAssumption DEF TypeOK, TypeTask
<1>s. CASE UNCHANGED vars
  BY <1>s, <1>t DEF vars
<1>1. ASSUME NEW p \in Procs, newque(p) PROVE CallInv'
  BY <1>1, <1>t DEF newque
<1>2. ASSUME NEW p \in Procs, ipc_find(p) PROVE CallInv'
  BY <1>2, <1>t DEF ipc_find, Goto, Return
<1>3. ASSUME NEW p \in Procs, ipc_lock_deleted(p) PROVE CallInv'
  BY <1>3, <1>t DEF ipc_lock_deleted, LeaveRcu, Return, Goto
<1>4. ASSUME NEW p \in Procs, SyscallExit(p) PROVE CallInv'
  BY <1>4, <1>t DEF SyscallExit, Goto
<1>5. ASSUME NEW p \in Procs, Signal(p) PROVE CallInv'
  BY <1>5, <1>t DEF Signal
<1>6. CASE ipc_immediate_free
  BY <1>6, <1>t DEF ipc_immediate_free
<1>7. ASSUME NEW p \in Procs, msgsnd(p) PROVE CallInv'
  BY <1>7, <1>t DEF msgsnd, Goto
<1>8. ASSUME NEW p \in Procs, snd_fail(p) PROVE CallInv'
  BY <1>8, <1>t DEF snd_fail, AtTop, UnlockReturn, LeaveRcu, Return, Goto
<1>9. ASSUME NEW p \in Procs, snd_sleep(p) PROVE CallInv'
  BY <1>9, <1>t DEF snd_sleep, AtTop, ipc_rcu_getref, LeaveRcu, Goto
<1>10. ASSUME NEW p \in Procs, snd_relock(p) PROVE CallInv'
  BY <1>10, <1>t DEF snd_relock, Goto
<1>11. ASSUME NEW p \in Procs, snd_putref(p) PROVE CallInv'
  BY <1>11, <1>t DEF snd_putref, PutStore, Goto
<1>12. ASSUME NEW p \in Procs, snd_awake(p) PROVE CallInv'
  BY <1>12, <1>t DEF snd_awake, UnlockReturn, LeaveRcu, Return, Goto
<1>13. ASSUME NEW p \in Procs, snd_start(p) PROVE CallInv'
  BY <1>13, <1>t DEF snd_start, AtTop, Goto
<1>14. ASSUME NEW p \in Procs, pipelined_send(p) PROVE CallInv'
  BY <1>14, <1>t DEF pipelined_send, Goto
<1>15. ASSUME NEW p \in Procs, wake_receiver(p) PROVE CallInv'
  BY <1>15, <1>t DEF wake_receiver, Goto, Woken
<1>16. ASSUME NEW p \in Procs, deliver(p) PROVE CallInv'
  BY <1>16, <1>t DEF deliver, Goto
<1>17. ASSUME NEW p \in Procs, snd_done(p) PROVE CallInv'
  BY <1>17, <1>t DEF snd_done, UnlockReturn, LeaveRcu, Return, Goto
<1>18. ASSUME NEW p \in Procs, msgrcv(p) PROVE CallInv'
  BY <1>18, <1>t DEF msgrcv, Goto
<1>19. ASSUME NEW p \in Procs, rcv_fail(p) PROVE CallInv'
  BY <1>19, <1>t DEF rcv_fail, AtTop, UnlockReturn, LeaveRcu, Return, Goto
<1>20. ASSUME NEW p \in Procs, rcv_dequeue(p) PROVE CallInv'
  BY <1>20, <1>t DEF rcv_dequeue, AtTop, Unlink, LeaveRcu, Goto, Woken
<1>21. ASSUME NEW p \in Procs, rcv_sleep(p) PROVE CallInv'
  BY <1>21, <1>t DEF rcv_sleep, AtTop, LeaveRcu, Goto
<1>22. ASSUME NEW p \in Procs, rcv_wake(p) PROVE CallInv'
  BY <1>22, <1>t DEF rcv_wake, Goto
<1>23. ASSUME NEW p \in Procs, rcv_spin(p) PROVE CallInv'
  BY <1>23, <1>t DEF rcv_spin, Accept, LeaveRcu, Return, Goto
<1>24. ASSUME NEW p \in Procs, rcv_relock(p) PROVE CallInv'
  BY <1>24, <1>t DEF rcv_relock, Accept, UnlockReturn, LeaveRcu, Return, Goto
<1>25. ASSUME NEW p \in Procs, rcv_copy(p) PROVE CallInv'
  BY <1>25, <1>t DEF rcv_copy, Return, Goto
<1>26. ASSUME NEW p \in Procs, msgctl(p) PROVE CallInv'
  BY <1>26, <1>t DEF msgctl, Goto
<1>27. ASSUME NEW p \in Procs, ctl_fail(p) PROVE CallInv'
  BY <1>27, <1>t DEF ctl_fail, UnlockReturn, LeaveRcu, Return, Goto
<1>28. ASSUME NEW p \in Procs, ctl_start(p) PROVE CallInv'
  BY <1>28, <1>t DEF ctl_start, Goto
<1>29. ASSUME NEW p \in Procs, expunge_next(p) PROVE CallInv'
  BY <1>29, <1>t DEF expunge_next, Goto
<1>30. ASSUME NEW p \in Procs, expunge_set(p) PROVE CallInv'
  BY <1>30, <1>t DEF expunge_set, Goto
<1>31. ASSUME NEW p \in Procs, ctl_set_done(p) PROVE CallInv'
  BY <1>31, <1>t DEF ctl_set_done, Woken, UnlockReturn, LeaveRcu, Return, Goto
<1>32. ASSUME NEW p \in Procs, freeque_rmid(p) PROVE CallInv'
  BY <1>32, <1>t DEF freeque_rmid, Woken, LeaveRcu, Goto
<1>33. ASSUME NEW p \in Procs, freeque_drain(p) PROVE CallInv'
  BY <1>33, <1>t DEF freeque_drain, Goto
<1>34. ASSUME NEW p \in Procs, freeque_putref(p) PROVE CallInv'
  BY <1>34, <1>t DEF freeque_putref, PutStore, Return, Goto
<1> QED BY <1>s, <1>1, <1>2, <1>3, <1>4, <1>5, <1>6, <1>7, <1>8, <1>9, <1>10, <1>11, <1>12, <1>13,
  <1>14, <1>15, <1>16, <1>17, <1>18, <1>19, <1>20, <1>21, <1>22, <1>23, <1>24, <1>25, <1>26, <1>27,
  <1>28, <1>29, <1>30, <1>31, <1>32, <1>33, <1>34 DEF Next, KernelStep, Procs

(* Types are preserved.                                                    *)
LEMMA TypeStep ==
    ASSUME TypeOK, LockInv, CallInv, ReceiverInv, [Next]_vars
    PROVE  TypeOK'
<1> USE DEF perm, queue, acct, rcu, life, args, walk
<1>s. CASE UNCHANGED vars
  BY <1>s DEF vars, TypeOK, TypeQueue, TypeTask, Labels, Results, Codes
<1>1. ASSUME NEW p \in Procs, newque(p) PROVE TypeOK'
  <2>1. mode' \subseteq {"r", "w"} /\ q_qbytes' \in Nat
    BY <1>1, ConstantsAssumption DEF newque
  <2>2. q_messages' \in Seq(Msgs) /\ q_receivers' \in Seq(Procs) /\ q_senders' \in Seq(Procs)
    BY <1>1 DEF newque
  <2>a. refcount' = 1 /\ q_cbytes' = 0 /\ q_qnum' = 0
    BY <1>1 DEF newque
  <2>b. deleted' \in BOOLEAN
    BY <1>1 DEF newque
  <2>3. refcount' \in Int /\ q_cbytes' \in Int /\ q_qnum' \in Int /\ deleted' \in BOOLEAN
    BY <2>a, <2>b
  <2>4. TypeTask'
    BY <1>1 DEF newque, TypeOK, TypeTask, Labels, Results, Codes
  <2> QED BY <1>1, <2>1, <2>2, <2>3, <2>4 DEF newque, TypeOK, TypeQueue
<1>2. ASSUME NEW p \in Procs, ipc_find(p) PROVE TypeOK'
  <2>1. TypeQueue'
    BY <1>2 DEF ipc_find, Goto, Return, TypeOK, TypeQueue
  <2>2. TypeTask'
    BY <1>2 DEF ipc_find, Goto, Return, TypeOK, TypeTask, Labels, Results, Codes
  <2> QED BY <2>1, <2>2 DEF TypeOK
<1>3. ASSUME NEW p \in Procs, ipc_lock_deleted(p) PROVE TypeOK'
  <2>1. TypeQueue'
    BY <1>3 DEF ipc_lock_deleted, LeaveRcu, Return, Goto, TypeOK, TypeQueue
  <2>2. TypeTask'
    BY <1>3 DEF ipc_lock_deleted, LeaveRcu, Return, Goto, TypeOK, TypeTask, Labels, Results, Codes
  <2> QED BY <2>1, <2>2 DEF TypeOK
<1>4. ASSUME NEW p \in Procs, SyscallExit(p) PROVE TypeOK'
  BY <1>4, NoReqType DEF SyscallExit, Goto, TypeOK, TypeQueue, TypeTask, Labels, Results, Codes
<1>5. ASSUME NEW p \in Procs, Signal(p) PROVE TypeOK'
  <2>1. TypeQueue'
    BY <1>5 DEF Signal, TypeOK, TypeQueue
  <2>2. TypeTask'
    BY <1>5 DEF Signal, TypeOK, TypeTask, Labels, Results, Codes
  <2> QED BY <2>1, <2>2 DEF TypeOK
<1>6. CASE ipc_immediate_free
  <2>1. TypeQueue'
    BY <1>6 DEF ipc_immediate_free, TypeOK, TypeQueue
  <2>2. TypeTask'
    BY <1>6 DEF ipc_immediate_free, TypeOK, TypeTask, Labels, Results, Codes
  <2> QED BY <2>1, <2>2 DEF TypeOK
<1>7. ASSUME NEW p \in Procs, msgsnd(p) PROVE TypeOK'
  BY <1>7, ConstantsAssumption DEF msgsnd, Goto, TypeOK, TypeQueue, TypeTask, Labels, Results, Codes
<1>8. ASSUME NEW p \in Procs, snd_fail(p) PROVE TypeOK'
  <2>1. TypeQueue'
    BY <1>8 DEF snd_fail, AtTop, UnlockReturn, LeaveRcu, Return, Goto, TypeOK, TypeQueue
  <2>2. TypeTask'
    BY <1>8 DEF snd_fail, AtTop, UnlockReturn, LeaveRcu, Return, Goto, TypeOK, TypeTask, Labels, Results, Codes
  <2> QED BY <2>1, <2>2 DEF TypeOK
<1>9. ASSUME NEW p \in Procs, snd_sleep(p) PROVE TypeOK'
  <2>1. TypeQueue'
    BY <1>9 DEF snd_sleep, AtTop, ipc_rcu_getref, LeaveRcu, Goto, TypeOK, TypeQueue
  <2>2. TypeTask'
    BY <1>9 DEF snd_sleep, AtTop, ipc_rcu_getref, LeaveRcu, Goto, TypeOK, TypeTask, Labels, Results, Codes
  <2> QED BY <2>1, <2>2 DEF TypeOK
<1>10. ASSUME NEW p \in Procs, snd_relock(p) PROVE TypeOK'
  <2>1. TypeQueue'
    BY <1>10 DEF snd_relock, Goto, TypeOK, TypeQueue
  <2>a. refcount \in Int
    BY DEF TypeOK, TypeQueue
  <2>2. TypeTask'
    BY <1>10, <2>a DEF snd_relock, Goto, TypeOK, TypeTask, Labels, Results, Codes
  <2> QED BY <2>1, <2>2 DEF TypeOK
<1>11. ASSUME NEW p \in Procs, snd_putref(p) PROVE TypeOK'
  <2>1. TypeQueue'
    BY <1>11 DEF snd_putref, PutStore, Goto, TypeOK, TypeQueue
  <2>2. TypeTask'
    BY <1>11 DEF snd_putref, PutStore, Goto, TypeOK, TypeTask, Labels, Results, Codes
  <2> QED BY <2>1, <2>2 DEF TypeOK
<1>12. ASSUME NEW p \in Procs, snd_awake(p) PROVE TypeOK'
  <2>1. q_senders' \in Seq(Procs)
    BY <1>12, RemoveAtProps DEF snd_awake, TypeOK, TypeQueue
  <2>2. CASE deleted
    BY <1>12, <2>1, <2>2 DEF snd_awake, UnlockReturn, LeaveRcu, Return, Goto, TypeOK, TypeQueue, TypeTask, Labels, Results, Codes
  <2>3. CASE ~deleted /\ p \in sig
    BY <1>12, <2>1, <2>3 DEF snd_awake, UnlockReturn, LeaveRcu, Return, Goto, TypeOK, TypeQueue, TypeTask, Labels, Results, Codes
  <2>4. CASE ~deleted /\ p \notin sig
    BY <1>12, <2>1, <2>4 DEF snd_awake, Goto, TypeOK, TypeQueue, TypeTask, Labels, Results, Codes
  <2> QED BY <2>2, <2>3, <2>4
<1>13. ASSUME NEW p \in Procs, snd_start(p) PROVE TypeOK'
  <2>1. TypeQueue'
    BY <1>13 DEF snd_start, AtTop, Goto, TypeOK, TypeQueue
  <2>2. TypeTask'
    BY <1>13 DEF snd_start, AtTop, Goto, TypeOK, TypeTask, Labels, Results, Codes
  <2> QED BY <2>1, <2>2 DEF TypeOK
<1>14. ASSUME NEW p \in Procs, pipelined_send(p) PROVE TypeOK'
  <2> DEFINE i == NextReceiver(hold[p])
  <2>1. hold[p] \in Msgs /\ MSize[hold[p]] \in Nat
    BY <1>14, MessageAssumption DEF pipelined_send, CallInv
  <2>2. CASE i \in DOMAIN q_receivers
    <3>1. q_receivers' = RemoveAt(q_receivers, i)
        BY <1>14, <2>2 DEF pipelined_send
    <3>2. q_receivers \in Seq(Procs)
        BY DEF TypeOK, TypeQueue
    <3> HIDE DEF i
    <3>3. i \in 1 .. Len(q_receivers) /\ q_receivers[i] \in Procs
        BY <2>2, <3>2
    <3>4. q_receivers' \in Seq(Procs)
        BY <3>1, <3>2, <3>3, RemoveAtProps
    <3> QED BY <1>14, <2>2, <3>3, <3>4 DEF pipelined_send, Goto, i, TypeOK, TypeQueue, TypeTask,
      Labels, Results, Codes
  <2>3. CASE i \notin DOMAIN q_receivers
    <3>1. q_messages' = Append(q_messages, hold[p]) /\ q_messages \in Seq(Msgs)
        BY <1>14, <2>3 DEF pipelined_send, TypeOK, TypeQueue
    <3>2. q_messages' \in Seq(Msgs)
        BY <2>1, <3>1
    <3>3. /\ q_cbytes' \in Int /\ q_qnum' \in Int
          /\ msg_bytes' \in Int /\ msg_hdrs' \in Int
      <4>1. q_cbytes \in Int /\ q_qnum \in Int /\ msg_bytes \in Int /\ msg_hdrs \in Int
        BY DEF TypeOK, TypeQueue
      <4>2. /\ q_cbytes' = q_cbytes + MSize[hold[p]] /\ q_qnum' = q_qnum + 1
            /\ msg_bytes' = msg_bytes + MSize[hold[p]] /\ msg_hdrs' = msg_hdrs + 1
        BY <1>14, <2>3 DEF pipelined_send
      <4> QED BY <2>1, <4>1, <4>2
    <3>4. TypeQueue'
        BY <1>14, <2>3, <3>2, <3>3 DEF pipelined_send, TypeOK, TypeQueue
    <3>5. TypeTask'
        BY <1>14, <2>3 DEF pipelined_send, Goto, TypeOK, TypeTask, Labels
    <3> QED BY <3>4, <3>5 DEF TypeOK
  <2> QED BY <2>2, <2>3
<1>15. ASSUME NEW p \in Procs, wake_receiver(p) PROVE TypeOK'
  <2>1. TypeQueue'
    BY <1>15 DEF wake_receiver, Goto, Woken, TypeOK, TypeQueue
  <2>2. TypeTask'
    BY <1>15 DEF wake_receiver, Goto, Woken, TypeOK, TypeTask, Labels, Results, Codes
  <2> QED BY <2>1, <2>2 DEF TypeOK
<1>16. ASSUME NEW p \in Procs, deliver(p) PROVE TypeOK'
  <2>1. hold[p] \in Msgs
    BY <1>16 DEF deliver, CallInv
  <2> QED BY <1>16, <2>1 DEF deliver, Goto, TypeOK, TypeQueue, TypeTask, Labels, Results, Codes
<1>17. ASSUME NEW p \in Procs, snd_done(p) PROVE TypeOK'
  <2>1. TypeQueue'
    BY <1>17 DEF snd_done, UnlockReturn, LeaveRcu, Return, Goto, TypeOK, TypeQueue
  <2>2. TypeTask'
    BY <1>17 DEF snd_done, UnlockReturn, LeaveRcu, Return, Goto, TypeOK, TypeTask, Labels, Results, Codes
  <2> QED BY <2>1, <2>2 DEF TypeOK
<1>18. ASSUME NEW p \in Procs, msgrcv(p) PROVE TypeOK'
  BY <1>18, ConstantsAssumption, SMTT(30) DEF msgrcv, Goto, RequestSet, TypeOK, TypeQueue, TypeTask, Labels, Results, Codes
<1>19. ASSUME NEW p \in Procs, rcv_fail(p) PROVE TypeOK'
  <2>1. TypeQueue'
    BY <1>19 DEF rcv_fail, AtTop, UnlockReturn, LeaveRcu, Return, Goto, TypeOK, TypeQueue
  <2>2. TypeTask'
    BY <1>19 DEF rcv_fail, AtTop, UnlockReturn, LeaveRcu, Return, Goto, TypeOK, TypeTask, Labels, Results, Codes
  <2> QED BY <2>1, <2>2 DEF TypeOK
<1>20. ASSUME NEW p \in Procs, rcv_dequeue(p) PROVE TypeOK'
  <2> DEFINE i == FindMsg(q_messages, req[p])
  <2>1. q_messages \in Seq(Msgs) /\ i \in DOMAIN q_messages
    BY <1>20 DEF rcv_dequeue, TypeOK, TypeQueue
  <2>2. q_messages' = RemoveAt(q_messages, i)
    BY <1>20 DEF rcv_dequeue, Unlink
  <2> HIDE DEF i
  <2>3. i \in 1 .. Len(q_messages) /\ q_messages[i] \in Msgs
    BY <2>1
  <2>4. q_messages' \in Seq(Msgs) /\ MSize[q_messages[i]] \in Nat
    BY <2>1, <2>2, <2>3, RemoveAtProps, MessageAssumption
  <2>a. /\ q_cbytes' \in Int /\ q_qnum' \in Int
        /\ msg_bytes' \in Int /\ msg_hdrs' \in Int
    <3>1. q_cbytes \in Int /\ q_qnum \in Int /\ msg_bytes \in Int /\ msg_hdrs \in Int
        BY DEF TypeOK, TypeQueue
    <3>2. /\ q_cbytes' = q_cbytes - MSize[q_messages[i]] /\ q_qnum' = q_qnum - 1
          /\ msg_bytes' = msg_bytes - MSize[q_messages[i]] /\ msg_hdrs' = msg_hdrs - 1
        BY <1>20 DEF rcv_dequeue, Unlink, i
    <3> QED BY <2>4, <3>1, <3>2
  <2>5. TypeQueue'
    BY <1>20, <2>4, <2>a DEF rcv_dequeue, LeaveRcu, TypeOK, TypeQueue
  <2>6. TypeTask'
    BY <1>20, <2>3 DEF rcv_dequeue, Goto, Woken, i, TypeOK, TypeTask, Labels, Results, Codes
  <2> QED BY <2>5, <2>6 DEF TypeOK
<1>21. ASSUME NEW p \in Procs, rcv_sleep(p) PROVE TypeOK'
  <2>1. TypeQueue'
    BY <1>21 DEF rcv_sleep, AtTop, LeaveRcu, Goto, TypeOK, TypeQueue
  <2>2. TypeTask'
    BY <1>21 DEF rcv_sleep, AtTop, LeaveRcu, Goto, TypeOK, TypeTask, Labels, Results, Codes
  <2> QED BY <2>1, <2>2 DEF TypeOK
<1>22. ASSUME NEW p \in Procs, rcv_wake(p) PROVE TypeOK'
  <2>1. TypeQueue'
    BY <1>22 DEF rcv_wake, Goto, TypeOK, TypeQueue
  <2>2. TypeTask'
    BY <1>22 DEF rcv_wake, Goto, TypeOK, TypeTask, Labels, Results, Codes
  <2> QED BY <2>1, <2>2 DEF TypeOK
<1>23. ASSUME NEW p \in Procs, rcv_spin(p) PROVE TypeOK'
  <2>1. CASE r_msg[p] = "EAGAIN"
    <3>1. TypeQueue'
      BY <1>23, <2>1, ConstantsAssumption DEF rcv_spin, Goto, TypeOK, TypeQueue
    <3>2. TypeTask'
      BY <1>23, <2>1, ConstantsAssumption DEF rcv_spin, Goto, TypeOK, TypeTask, Labels, Results, Codes
    <3> QED BY <3>1, <3>2 DEF TypeOK
  <2>2. CASE r_msg[p] \in Msgs
    <3>1. TypeQueue'
      BY <1>23, <2>2, ConstantsAssumption DEF rcv_spin, Accept, LeaveRcu, Goto, TypeOK, TypeQueue
    <3>2. TypeTask'
      BY <1>23, <2>2, ConstantsAssumption DEF rcv_spin, Accept, LeaveRcu, Goto, TypeOK, TypeTask, Labels, Results, Codes
    <3> QED BY <3>1, <3>2 DEF TypeOK
  <2>3. CASE r_msg[p] \in {"E2BIG", "EIDRM"}
    <3>1. Accept(p) /\ Return(p, r_msg[p])
        BY <1>23, <2>3, ConstantsAssumption DEF rcv_spin, Accept, Codes
    <3> QED BY <1>23, <2>3, <3>1 DEF rcv_spin, Accept, LeaveRcu, Return, Goto, TypeOK, TypeQueue,
      TypeTask, Labels, Results, Codes
  <2> QED BY <1>23, <2>1, <2>2, <2>3 DEF rcv_spin, TypeOK, TypeTask, Codes
<1>24. ASSUME NEW p \in Procs, rcv_relock(p) PROVE TypeOK'
  <2>1. lock = NoProc /\ \A q \in Procs : lock # q
    BY <1>24, ConstantsAssumption DEF rcv_relock
  <2>2. \A q \in Procs : pc[q] \notin {"wake", "set"}
    BY <2>1 DEF LockInv, Locked
  <2>3. r_msg[p] # "NULL"
    BY <2>2 DEF ReceiverInv, WakerInv
  <2>4. CASE r_msg[p] = "EAGAIN"
    <3>1. q_receivers' \in Seq(Procs)
        BY <1>24, <2>4, RemoveAtProps DEF rcv_relock, TypeOK, TypeQueue
    <3>2. CASE p \in sig
        BY <1>24, <2>4, <3>1, <3>2 DEF rcv_relock, UnlockReturn, LeaveRcu, Return, Goto, TypeOK, TypeQueue, TypeTask, Labels, Results, Codes
    <3>3. CASE p \notin sig
        BY <1>24, <2>4, <3>1, <3>3 DEF rcv_relock, Goto, TypeOK, TypeQueue, TypeTask, Labels, Results, Codes
    <3> QED BY <3>2, <3>3
  <2>5. CASE r_msg[p] \in Msgs
    <3>a. r_msg[p] # "EAGAIN"
      BY <2>5, ConstantsAssumption DEF Codes
    <3>b. Accept(p) /\ UNCHANGED <<life, lock, perm, queue, q_receivers, q_senders, acct,
                                   rw_mutex, args, state, sig, walk, ref>>
      BY <1>24, <3>a DEF rcv_relock
    <3>c. LeaveRcu(p) /\ UNCHANGED alloc
      BY <2>5, <3>b DEF Accept
    <3>1. TypeQueue'
      BY <3>b, <3>c DEF LeaveRcu, TypeOK, TypeQueue
    <3>2. TypeTask'
      BY <2>5, <3>b DEF Accept, LeaveRcu, Goto, TypeOK, TypeTask, Labels, Results, Codes
    <3> QED BY <3>1, <3>2 DEF TypeOK
  <2>6. CASE r_msg[p] \in {"E2BIG", "EIDRM"}
    <3>1. Accept(p) /\ Return(p, r_msg[p])
        BY <1>24, <2>6, ConstantsAssumption DEF rcv_relock, Accept, Codes
    <3> QED BY <1>24, <2>6, <3>1 DEF rcv_relock, Accept, LeaveRcu, Return, Goto, TypeOK, TypeQueue,
      TypeTask, Labels, Results, Codes
  <2> QED BY <2>3, <2>4, <2>5, <2>6 DEF TypeOK, TypeTask, Codes
<1>25. ASSUME NEW p \in Procs, rcv_copy(p) PROVE TypeOK'
  <2>1. TypeQueue'
    BY <1>25 DEF rcv_copy, Return, Goto, TypeOK, TypeQueue
  <2>2. TypeTask'
    BY <1>25 DEF rcv_copy, Return, Goto, TypeOK, TypeTask, Labels, Results, Codes
  <2> QED BY <2>1, <2>2 DEF TypeOK
<1>26. ASSUME NEW p \in Procs, msgctl(p) PROVE TypeOK'
  <2>1. TypeQueue'
    BY <1>26 DEF msgctl, Goto, TypeOK, TypeQueue
  <2>2. TypeTask'
    BY <1>26 DEF msgctl, Goto, TypeOK, TypeTask, Labels, Results, Codes
  <2> QED BY <2>1, <2>2 DEF TypeOK
<1>27. ASSUME NEW p \in Procs, ctl_fail(p) PROVE TypeOK'
  <2>1. TypeQueue'
    BY <1>27 DEF ctl_fail, UnlockReturn, LeaveRcu, Return, Goto, TypeOK, TypeQueue
  <2>2. TypeTask'
    BY <1>27 DEF ctl_fail, UnlockReturn, LeaveRcu, Return, Goto, TypeOK, TypeTask, Labels, Results, Codes
  <2> QED BY <2>1, <2>2 DEF TypeOK
<1>28. ASSUME NEW p \in Procs, ctl_start(p) PROVE TypeOK'
  <2>1. mode' \subseteq {"r", "w"} /\ q_qbytes' \in Nat
    BY <1>28, ConstantsAssumption DEF ctl_start, TypeOK, TypeQueue
  <2> QED BY <1>28, <2>1 DEF ctl_start, Goto, TypeOK, TypeQueue, TypeTask, Labels, Results, Codes
<1>29. ASSUME NEW p \in Procs, expunge_next(p) PROVE TypeOK'
  <2>1. TypeQueue'
    BY <1>29 DEF expunge_next, Goto, TypeOK, TypeQueue
  <2>a. q_receivers[tmp[p]] \in Procs /\ tmp[p] + 1 \in Nat
    BY <1>29 DEF expunge_next, TypeOK, TypeQueue, TypeTask
  <2>2. TypeTask'
    BY <1>29, <2>a DEF expunge_next, Goto, TypeOK, TypeTask, Labels, Results, Codes
  <2> QED BY <2>1, <2>2 DEF TypeOK
<1>30. ASSUME NEW p \in Procs, expunge_set(p) PROVE TypeOK'
  <2>1. TypeQueue'
    BY <1>30 DEF expunge_set, Goto, TypeOK, TypeQueue
  <2>2. TypeTask'
    BY <1>30 DEF expunge_set, Goto, TypeOK, TypeTask, Labels, Results, Codes
  <2> QED BY <2>1, <2>2 DEF TypeOK
<1>31. ASSUME NEW p \in Procs, ctl_set_done(p) PROVE TypeOK'
  <2>1. TypeQueue'
    BY <1>31 DEF ctl_set_done, Woken, UnlockReturn, LeaveRcu, Return, Goto, TypeOK, TypeQueue
  <2>2. TypeTask'
    BY <1>31 DEF ctl_set_done, Woken, UnlockReturn, LeaveRcu, Return, Goto, TypeOK, TypeTask, Labels, Results, Codes
  <2> QED BY <2>1, <2>2 DEF TypeOK
<1>32. ASSUME NEW p \in Procs, freeque_rmid(p) PROVE TypeOK'
  <2>1. TypeQueue'
    BY <1>32 DEF freeque_rmid, Woken, LeaveRcu, Goto, TypeOK, TypeQueue
  <2>2. TypeTask'
    BY <1>32 DEF freeque_rmid, Woken, LeaveRcu, Goto, TypeOK, TypeTask, Labels, Results, Codes
  <2> QED BY <2>1, <2>2 DEF TypeOK
<1>33. ASSUME NEW p \in Procs, freeque_drain(p) PROVE TypeOK'
  <2>1. q_messages \in Seq(Msgs)
    BY DEF TypeOK, TypeQueue
  <2>2. CASE q_messages # <<>>
    <3>1. q_messages' \in Seq(Msgs)
        BY <1>33, <2>1, <2>2, HeadTailProperties DEF freeque_drain
    <3> QED BY <1>33, <2>2, <3>1, SMTT(30) DEF freeque_drain, TypeOK, TypeQueue, TypeTask, Labels,
      Results, Codes
  <2>3. CASE q_messages = <<>>
    <3>1. msg_bytes' \in Int /\ refcount \in Int /\ UNCHANGED <<q_messages, msg_hdrs, alloc>>
        BY <1>33, <2>3 DEF freeque_drain, TypeOK, TypeQueue
    <3>2. TypeQueue'
        BY <1>33, <3>1 DEF freeque_drain, TypeOK, TypeQueue
    <3>3. TypeTask'
      <4>1. ref' \in [Procs -> Int]
        BY <1>33, <2>3, <3>1 DEF freeque_drain, TypeOK, TypeTask
      <4>2. pc' \in [Procs -> Labels]
        BY <1>33, <2>3 DEF freeque_drain, Goto, TypeOK, TypeTask, Labels
      <4> QED BY <1>33, <4>1, <4>2 DEF freeque_drain, TypeOK, TypeTask
    <3> QED BY <3>2, <3>3 DEF TypeOK
  <2> QED BY <2>2, <2>3
<1>34. ASSUME NEW p \in Procs, freeque_putref(p) PROVE TypeOK'
  <2>1. TypeQueue'
    BY <1>34 DEF freeque_putref, PutStore, Return, Goto, TypeOK, TypeQueue
  <2>2. TypeTask'
    BY <1>34 DEF freeque_putref, PutStore, Return, Goto, TypeOK, TypeTask, Labels, Results, Codes
  <2> QED BY <2>1, <2>2 DEF TypeOK
<1> QED BY <1>s, <1>1, <1>2, <1>3, <1>4, <1>5, <1>6, <1>7, <1>8, <1>9, <1>10, <1>11, <1>12, <1>13,
  <1>14, <1>15, <1>16, <1>17, <1>18, <1>19, <1>20, <1>21, <1>22, <1>23, <1>24, <1>25, <1>26, <1>27,
  <1>28, <1>29, <1>30, <1>31, <1>32, <1>33, <1>34 DEF Next, KernelStep, Procs

(* The holders of references are finitely many, and there are none once    *)
(* the count of them is 0.                                                 *)
LEMMA HoldersFinite ==
    /\ IsFiniteSet(RefHolders)
    /\ Cardinality(RefHolders) \in Nat
    /\ Cardinality(RefHolders) = 0 => RefHolders = {}
<1>1. IsFiniteSet(Procs \cup {NoProc})
  BY ConstantsAssumption, FS_AddElement
<1>2. RefHolders \subseteq Procs \cup {NoProc}
  BY DEF RefHolders
<1>3. IsFiniteSet(RefHolders)
  BY <1>1, <1>2, FS_Subset
<1> QED BY <1>3, FS_CardinalityType, FS_EmptySet

(* The same of the next state.                                             *)
LEMMA HoldersFiniteNext ==
    /\ IsFiniteSet(RefHolders')
    /\ Cardinality(RefHolders') \in Nat
    /\ Cardinality(RefHolders') = 0 => RefHolders' = {}
<1>1. IsFiniteSet(Procs \cup {NoProc})
  BY ConstantsAssumption, FS_AddElement
<1>2. RefHolders' \subseteq Procs \cup {NoProc}
  BY DEF RefHolders
<1>3. IsFiniteSet(RefHolders')
  BY <1>1, <1>2, FS_Subset
<1> QED BY <1>3, FS_CardinalityType, FS_EmptySet

(* The queue lives as LifeInv says, and its count covers its holders.      *)
LEMMA LifeStep ==
    ASSUME TypeOK, LockInv, CallInv, LifeInv, RefInv, ReceiverInv, [Next]_vars
    PROVE  LifeInv' /\ RefInv'
<1> USE DEF LifeInv, Labels, perm, queue, acct, rcu, life, args, walk
<1>t. /\ pc \in [Procs -> Labels] /\ ref \in [Procs -> Int] /\ refcount \in Int
      /\ mem \in {"none", "live", "rcu", "freed"} /\ NoProc \notin Procs
      /\ deleted \in BOOLEAN /\ readers \subseteq Procs
  BY ConstantsAssumption DEF TypeOK, TypeTask, TypeQueue
<1>s. CASE UNCHANGED vars
  BY <1>s, <1>t DEF vars, RefInv, ReferencesCovered, RefHolders
<1>1. ASSUME NEW p \in Procs, newque(p) PROVE LifeInv' /\ RefInv'
  <2>1. RefHolders' = {NoProc}
    BY <1>1, <1>t DEF newque, RefHolders
  <2>2. Cardinality({NoProc}) = 1
    BY FS_Singleton
  <2>3. LifeInv'
    BY <1>1, <1>t, <2>1 DEF newque
  <2>4. RefInv'
    BY <1>1, <1>t, <2>1, <2>2 DEF newque, RefInv, ReferencesCovered
  <2> QED BY <2>3, <2>4
<1>2. ASSUME NEW p \in Procs, ipc_find(p) PROVE LifeInv' /\ RefInv'
  <2>1. RefHolders' = RefHolders
    BY <1>2, <1>t DEF ipc_find, Goto, Return, RefHolders, CallInv
  <2>2. LifeInv'
    BY <1>2, <1>t, <2>1 DEF ipc_find, Goto, Return
  <2>3. RefInv'
    BY <1>2, <1>t, <2>1, HoldersFinite DEF ipc_find, Goto, Return, RefInv, ReferencesCovered
  <2> QED BY <2>2, <2>3
<1>3. ASSUME NEW p \in Procs, ipc_lock_deleted(p) PROVE LifeInv' /\ RefInv'
  <2>1. RefHolders' = RefHolders
    BY <1>3, <1>t DEF ipc_lock_deleted, LeaveRcu, Return, Goto, RefHolders, CallInv
  <2>2. LifeInv'
    BY <1>3, <1>t, <2>1 DEF ipc_lock_deleted, LeaveRcu, Return, Goto
  <2>3. RefInv'
    BY <1>3, <1>t, <2>1, HoldersFinite DEF ipc_lock_deleted, LeaveRcu, Return, Goto, RefInv, ReferencesCovered
  <2> QED BY <2>2, <2>3
<1>4. ASSUME NEW p \in Procs, SyscallExit(p) PROVE LifeInv' /\ RefInv'
  <2>1. RefHolders' = RefHolders
    BY <1>4, <1>t DEF SyscallExit, Goto, RefHolders, CallInv
  <2>2. LifeInv'
    BY <1>4, <1>t, <2>1 DEF SyscallExit, Goto
  <2>3. RefInv'
    BY <1>4, <1>t, <2>1, HoldersFinite DEF SyscallExit, Goto, RefInv, ReferencesCovered
  <2> QED BY <2>2, <2>3
<1>5. ASSUME NEW p \in Procs, Signal(p) PROVE LifeInv' /\ RefInv'
  <2>1. RefHolders' = RefHolders
    BY <1>5, <1>t DEF Signal, RefHolders, CallInv
  <2>2. LifeInv'
    BY <1>5, <1>t, <2>1 DEF Signal
  <2>3. RefInv'
    BY <1>5, <1>t, <2>1, HoldersFinite DEF Signal, RefInv, ReferencesCovered
  <2> QED BY <2>2, <2>3
<1>6. CASE ipc_immediate_free
  <2>1. RefHolders' = RefHolders
    BY <1>6, <1>t DEF ipc_immediate_free, RefHolders, CallInv
  <2>2. LifeInv'
    BY <1>6, <1>t, <2>1 DEF ipc_immediate_free
  <2>3. RefInv'
    BY <1>6, <1>t, <2>1, HoldersFinite DEF ipc_immediate_free, RefInv, ReferencesCovered
  <2> QED BY <2>2, <2>3
<1>7. ASSUME NEW p \in Procs, msgsnd(p) PROVE LifeInv' /\ RefInv'
  <2>1. RefHolders' = RefHolders
    BY <1>7, <1>t DEF msgsnd, Goto, RefHolders, CallInv
  <2>2. LifeInv'
    BY <1>7, <1>t, <2>1 DEF msgsnd, Goto
  <2>3. RefInv'
    BY <1>7, <1>t, <2>1, HoldersFinite DEF msgsnd, Goto, RefInv, ReferencesCovered
  <2> QED BY <2>2, <2>3
<1>8. ASSUME NEW p \in Procs, snd_fail(p) PROVE LifeInv' /\ RefInv'
  <2>1. RefHolders' = RefHolders
    BY <1>8, <1>t DEF snd_fail, AtTop, UnlockReturn, LeaveRcu, Return, Goto, RefHolders, CallInv
  <2>2. LifeInv'
    BY <1>8, <1>t, <2>1 DEF snd_fail, AtTop, UnlockReturn, LeaveRcu, Return, Goto
  <2>3. RefInv'
    BY <1>8, <1>t, <2>1, HoldersFinite DEF snd_fail, AtTop, UnlockReturn, LeaveRcu, Return, Goto, RefInv, ReferencesCovered
  <2> QED BY <2>2, <2>3
<1>9. ASSUME NEW p \in Procs, snd_sleep(p) PROVE LifeInv' /\ RefInv'
  <2>1. RefHolders' = RefHolders \cup {p} /\ p \notin RefHolders
    BY <1>9, <1>t DEF snd_sleep, AtTop, Goto, RefHolders
  <2>2. Cardinality(RefHolders') = Cardinality(RefHolders) + 1
    BY <2>1, HoldersFinite, FS_AddElement
  <2>3. mem = "live" /\ ~deleted
    BY <1>9, <1>t DEF snd_sleep, AtTop
  <2>4. \A q \in Procs : pc'[q] \notin {"sput", "put"}
    BY <1>9, <1>t DEF snd_sleep, AtTop, Goto, LockInv, Locked
  <2>5. LifeInv'
    BY <1>9, <1>t, <2>3 DEF snd_sleep, AtTop, Goto, LeaveRcu
  <2>6. RefInv'
    BY <1>9, <1>t, <2>2, <2>3, <2>4, HoldersFinite DEF snd_sleep, ipc_rcu_getref, RefInv, ReferencesCovered
  <2> QED BY <2>5, <2>6
<1>10. ASSUME NEW p \in Procs, snd_relock(p) PROVE LifeInv' /\ RefInv'
  <2>1. RefHolders' = RefHolders
    BY <1>10, <1>t DEF snd_relock, Goto, RefHolders, CallInv
  <2>2. LifeInv'
    BY <1>10, <1>t, <2>1 DEF snd_relock, Goto
  <2>3. RefInv'
    BY <1>10, <1>t, <2>1, HoldersFinite DEF snd_relock, Goto, RefInv, ReferencesCovered
  <2> QED BY <2>2, <2>3
<1>11. ASSUME NEW p \in Procs, snd_putref(p) PROVE LifeInv' /\ RefInv'
  <2>1. RefHolders' = RefHolders \ {p} /\ p \in RefHolders
    BY <1>11, <1>t DEF snd_putref, Goto, RefHolders
  <2>2. Cardinality(RefHolders') = Cardinality(RefHolders) - 1
    BY <2>1, HoldersFinite, FS_RemoveElement
  <2>3. mem = "live" /\ ref[p] >= Cardinality(RefHolders)
    BY <1>11, <1>t, <2>1 DEF snd_putref, RefInv
  <2>4. ref[p] - 1 <= 0 => RefHolders' = {} /\ deleted'
    <3>1. ref[p] - 1 <= 0 => Cardinality(RefHolders') = 0
        BY <1>t, <2>2, <2>3, HoldersFinite, HoldersFiniteNext
    <3>2. RefHolders' = {} => deleted'
        BY <1>11, <1>t DEF snd_putref, RefHolders
    <3> QED BY <3>1, <3>2, HoldersFiniteNext
  <2>5. LifeInv'
    BY <1>11, <1>t, <2>3, <2>4 DEF snd_putref, PutStore, Goto, LockInv, Reading, Locked
  <2>6. RefInv'
    BY <1>11, <1>t, <2>2, <2>3, HoldersFinite DEF snd_putref, PutStore, Goto, RefInv, ReferencesCovered
  <2> QED BY <2>5, <2>6
<1>12. ASSUME NEW p \in Procs, snd_awake(p) PROVE LifeInv' /\ RefInv'
  <2>1. RefHolders' = RefHolders
    BY <1>12, <1>t DEF snd_awake, UnlockReturn, LeaveRcu, Return, Goto, RefHolders, CallInv
  <2>2. LifeInv'
    BY <1>12, <1>t, <2>1 DEF snd_awake, UnlockReturn, LeaveRcu, Return, Goto
  <2>3. RefInv'
    BY <1>12, <1>t, <2>1, HoldersFinite DEF snd_awake, UnlockReturn, LeaveRcu, Return, Goto, RefInv, ReferencesCovered
  <2> QED BY <2>2, <2>3
<1>13. ASSUME NEW p \in Procs, snd_start(p) PROVE LifeInv' /\ RefInv'
  <2>1. RefHolders' = RefHolders
    BY <1>13, <1>t DEF snd_start, AtTop, Goto, RefHolders, CallInv
  <2>2. LifeInv'
    BY <1>13, <1>t, <2>1 DEF snd_start, AtTop, Goto
  <2>3. RefInv'
    BY <1>13, <1>t, <2>1, HoldersFinite DEF snd_start, AtTop, Goto, RefInv, ReferencesCovered
  <2> QED BY <2>2, <2>3
<1>14. ASSUME NEW p \in Procs, pipelined_send(p) PROVE LifeInv' /\ RefInv'
  <2>1. RefHolders' = RefHolders
    BY <1>14, <1>t DEF pipelined_send, Goto, RefHolders, CallInv
  <2>2. LifeInv'
    BY <1>14, <1>t, <2>1 DEF pipelined_send, Goto
  <2>3. RefInv'
    BY <1>14, <1>t, <2>1, HoldersFinite DEF pipelined_send, Goto, RefInv, ReferencesCovered
  <2> QED BY <2>2, <2>3
<1>15. ASSUME NEW p \in Procs, wake_receiver(p) PROVE LifeInv' /\ RefInv'
  <2>1. RefHolders' = RefHolders
    BY <1>15, <1>t DEF wake_receiver, Goto, Woken, RefHolders, CallInv
  <2>2. LifeInv'
    BY <1>15, <1>t, <2>1 DEF wake_receiver, Goto, Woken
  <2>3. RefInv'
    BY <1>15, <1>t, <2>1, HoldersFinite DEF wake_receiver, Goto, Woken, RefInv, ReferencesCovered
  <2> QED BY <2>2, <2>3
<1>16. ASSUME NEW p \in Procs, deliver(p) PROVE LifeInv' /\ RefInv'
  <2>1. RefHolders' = RefHolders
    BY <1>16, <1>t DEF deliver, Goto, RefHolders, CallInv
  <2>2. LifeInv'
    BY <1>16, <1>t, <2>1 DEF deliver, Goto
  <2>3. RefInv'
    BY <1>16, <1>t, <2>1, HoldersFinite DEF deliver, Goto, RefInv, ReferencesCovered
  <2> QED BY <2>2, <2>3
<1>17. ASSUME NEW p \in Procs, snd_done(p) PROVE LifeInv' /\ RefInv'
  <2>1. RefHolders' = RefHolders
    BY <1>17, <1>t DEF snd_done, UnlockReturn, LeaveRcu, Return, Goto, RefHolders, CallInv
  <2>2. LifeInv'
    BY <1>17, <1>t, <2>1 DEF snd_done, UnlockReturn, LeaveRcu, Return, Goto
  <2>3. RefInv'
    BY <1>17, <1>t, <2>1, HoldersFinite DEF snd_done, UnlockReturn, LeaveRcu, Return, Goto, RefInv, ReferencesCovered
  <2> QED BY <2>2, <2>3
<1>18. ASSUME NEW p \in Procs, msgrcv(p) PROVE LifeInv' /\ RefInv'
  <2>1. RefHolders' = RefHolders
    BY <1>18, <1>t DEF msgrcv, Goto, RefHolders, CallInv
  <2>2. LifeInv'
    BY <1>18, <1>t, <2>1 DEF msgrcv, Goto
  <2>3. RefInv'
    BY <1>18, <1>t, <2>1, HoldersFinite DEF msgrcv, Goto, RefInv, ReferencesCovered
  <2> QED BY <2>2, <2>3
<1>19. ASSUME NEW p \in Procs, rcv_fail(p) PROVE LifeInv' /\ RefInv'
  <2>1. RefHolders' = RefHolders
    BY <1>19, <1>t DEF rcv_fail, AtTop, UnlockReturn, LeaveRcu, Return, Goto, RefHolders, CallInv
  <2>2. LifeInv'
    BY <1>19, <1>t, <2>1 DEF rcv_fail, AtTop, UnlockReturn, LeaveRcu, Return, Goto
  <2>3. RefInv'
    BY <1>19, <1>t, <2>1, HoldersFinite DEF rcv_fail, AtTop, UnlockReturn, LeaveRcu, Return, Goto, RefInv, ReferencesCovered
  <2> QED BY <2>2, <2>3
<1>20. ASSUME NEW p \in Procs, rcv_dequeue(p) PROVE LifeInv' /\ RefInv'
  <2>1. RefHolders' = RefHolders
    BY <1>20, <1>t DEF rcv_dequeue, AtTop, Unlink, LeaveRcu, Goto, Woken, RefHolders, CallInv
  <2>2. LifeInv'
    BY <1>20, <1>t, <2>1 DEF rcv_dequeue, AtTop, Unlink, LeaveRcu, Goto, Woken
  <2>3. RefInv'
    BY <1>20, <1>t, <2>1, HoldersFinite DEF rcv_dequeue, AtTop, Unlink, LeaveRcu, Goto, Woken, RefInv, ReferencesCovered
  <2> QED BY <2>2, <2>3
<1>21. ASSUME NEW p \in Procs, rcv_sleep(p) PROVE LifeInv' /\ RefInv'
  <2>1. RefHolders' = RefHolders
    BY <1>21, <1>t DEF rcv_sleep, AtTop, LeaveRcu, Goto, RefHolders, CallInv
  <2>2. LifeInv'
    BY <1>21, <1>t, <2>1 DEF rcv_sleep, AtTop, LeaveRcu, Goto
  <2>3. RefInv'
    BY <1>21, <1>t, <2>1, HoldersFinite DEF rcv_sleep, AtTop, LeaveRcu, Goto, RefInv, ReferencesCovered
  <2> QED BY <2>2, <2>3
<1>22. ASSUME NEW p \in Procs, rcv_wake(p) PROVE LifeInv' /\ RefInv'
  <2>1. RefHolders' = RefHolders
    BY <1>22, <1>t DEF rcv_wake, Goto, RefHolders, CallInv
  <2>2. LifeInv'
    BY <1>22, <1>t, <2>1 DEF rcv_wake, Goto
  <2>3. RefInv'
    BY <1>22, <1>t, <2>1, HoldersFinite DEF rcv_wake, Goto, RefInv, ReferencesCovered
  <2> QED BY <2>2, <2>3
<1>23. ASSUME NEW p \in Procs, rcv_spin(p) PROVE LifeInv' /\ RefInv'
  <2>1. RefHolders' = RefHolders
    BY <1>23, <1>t DEF ReceiverInv, ListInv, Waiting, HasFrame, rcv_spin, Accept, LeaveRcu, Return, Goto, RefHolders, CallInv
  <2>2. LifeInv'
    BY <1>23, <1>t, <2>1 DEF ReceiverInv, ListInv, Waiting, HasFrame, rcv_spin, Accept, LeaveRcu, Return, Goto
  <2>3. RefInv'
    BY <1>23, <1>t, <2>1, HoldersFinite DEF ReceiverInv, ListInv, Waiting, HasFrame, rcv_spin, Accept, LeaveRcu, Return, Goto, RefInv, ReferencesCovered
  <2> QED BY <2>2, <2>3
<1>24. ASSUME NEW p \in Procs, rcv_relock(p) PROVE LifeInv' /\ RefInv'
  <2>1. RefHolders' = RefHolders
    BY <1>24, <1>t DEF ReceiverInv, ListInv, Waiting, HasFrame, rcv_relock, Accept, UnlockReturn, LeaveRcu, Return, Goto, RefHolders, CallInv
  <2>2. LifeInv'
    BY <1>24, <1>t, <2>1 DEF ReceiverInv, ListInv, Waiting, HasFrame, rcv_relock, Accept, UnlockReturn, LeaveRcu, Return, Goto
  <2>3. RefInv'
    BY <1>24, <1>t, <2>1, HoldersFinite DEF ReceiverInv, ListInv, Waiting, HasFrame, rcv_relock, Accept, UnlockReturn, LeaveRcu, Return, Goto, RefInv, ReferencesCovered
  <2> QED BY <2>2, <2>3
<1>25. ASSUME NEW p \in Procs, rcv_copy(p) PROVE LifeInv' /\ RefInv'
  <2>1. RefHolders' = RefHolders
    BY <1>25, <1>t DEF rcv_copy, Return, Goto, RefHolders, CallInv
  <2>2. LifeInv'
    BY <1>25, <1>t, <2>1 DEF rcv_copy, Return, Goto
  <2>3. RefInv'
    BY <1>25, <1>t, <2>1, HoldersFinite DEF rcv_copy, Return, Goto, RefInv, ReferencesCovered
  <2> QED BY <2>2, <2>3
<1>26. ASSUME NEW p \in Procs, msgctl(p) PROVE LifeInv' /\ RefInv'
  <2>1. RefHolders' = RefHolders
    BY <1>26, <1>t DEF msgctl, Goto, RefHolders, CallInv
  <2>2. LifeInv'
    BY <1>26, <1>t, <2>1 DEF msgctl, Goto
  <2>3. RefInv'
    BY <1>26, <1>t, <2>1, HoldersFinite DEF msgctl, Goto, RefInv, ReferencesCovered
  <2> QED BY <2>2, <2>3
<1>27. ASSUME NEW p \in Procs, ctl_fail(p) PROVE LifeInv' /\ RefInv'
  <2>1. RefHolders' = RefHolders
    BY <1>27, <1>t DEF ctl_fail, UnlockReturn, LeaveRcu, Return, Goto, RefHolders, CallInv
  <2>2. LifeInv'
    BY <1>27, <1>t, <2>1 DEF ctl_fail, UnlockReturn, LeaveRcu, Return, Goto
  <2>3. RefInv'
    BY <1>27, <1>t, <2>1, HoldersFinite DEF ctl_fail, UnlockReturn, LeaveRcu, Return, Goto, RefInv, ReferencesCovered
  <2> QED BY <2>2, <2>3
<1>28. ASSUME NEW p \in Procs, ctl_start(p) PROVE LifeInv' /\ RefInv'
  <2>1. RefHolders' = RefHolders
    BY <1>28, <1>t DEF ctl_start, Goto, RefHolders, CallInv
  <2>2. LifeInv'
    BY <1>28, <1>t, <2>1 DEF ctl_start, Goto
  <2>3. RefInv'
    BY <1>28, <1>t, <2>1, HoldersFinite DEF ctl_start, Goto, RefInv, ReferencesCovered
  <2> QED BY <2>2, <2>3
<1>29. ASSUME NEW p \in Procs, expunge_next(p) PROVE LifeInv' /\ RefInv'
  <2>1. RefHolders' = RefHolders
    BY <1>29, <1>t DEF expunge_next, Goto, RefHolders, CallInv
  <2>2. LifeInv'
    BY <1>29, <1>t, <2>1 DEF expunge_next, Goto
  <2>3. RefInv'
    BY <1>29, <1>t, <2>1, HoldersFinite DEF expunge_next, Goto, RefInv, ReferencesCovered
  <2> QED BY <2>2, <2>3
<1>30. ASSUME NEW p \in Procs, expunge_set(p) PROVE LifeInv' /\ RefInv'
  <2>1. RefHolders' = RefHolders
    BY <1>30, <1>t DEF expunge_set, Goto, RefHolders, CallInv
  <2>2. LifeInv'
    BY <1>30, <1>t, <2>1 DEF expunge_set, Goto
  <2>3. RefInv'
    BY <1>30, <1>t, <2>1, HoldersFinite DEF expunge_set, Goto, RefInv, ReferencesCovered
  <2> QED BY <2>2, <2>3
<1>31. ASSUME NEW p \in Procs, ctl_set_done(p) PROVE LifeInv' /\ RefInv'
  <2>1. RefHolders' = RefHolders
    BY <1>31, <1>t DEF ctl_set_done, Woken, UnlockReturn, LeaveRcu, Return, Goto, RefHolders, CallInv
  <2>2. LifeInv'
    BY <1>31, <1>t, <2>1 DEF ctl_set_done, Woken, UnlockReturn, LeaveRcu, Return, Goto
  <2>3. RefInv'
    BY <1>31, <1>t, <2>1, HoldersFinite DEF ctl_set_done, Woken, UnlockReturn, LeaveRcu, Return, Goto, RefInv, ReferencesCovered
  <2> QED BY <2>2, <2>3
<1>32. ASSUME NEW p \in Procs, freeque_rmid(p) PROVE LifeInv' /\ RefInv'
  <2>1. /\ RefHolders' = (RefHolders \ {NoProc}) \cup {p}
        /\ NoProc \in RefHolders /\ p \notin RefHolders
    BY <1>32, <1>t DEF freeque_rmid, Goto, RefHolders
  <2>2. /\ IsFiniteSet(RefHolders \ {NoProc})
        /\ Cardinality(RefHolders \ {NoProc}) = Cardinality(RefHolders) - 1
    BY <2>1, HoldersFinite, FS_RemoveElement
  <2> DEFINE S == RefHolders \ {NoProc}
  <2>a. Cardinality(S \cup {p}) = Cardinality(S) + 1
    <3>1. p \notin S
        BY <2>1
    <3> HIDE DEF S
    <3> QED BY <2>2, <3>1, FS_AddElement DEF S
  <2>3. Cardinality(RefHolders') = Cardinality(RefHolders)
    BY <2>1, <2>2, <2>a, HoldersFinite
  <2>4. mem = "live" /\ ~deleted
    BY <1>32, <1>t DEF freeque_rmid
  <2>5. \A q \in Procs : pc'[q] \notin {"sput", "put"}
    BY <1>32, <1>t, <2>4 DEF freeque_rmid, Goto, LockInv, Locked
  <2>6. LifeInv'
    BY <1>32, <1>t, <2>4 DEF freeque_rmid, Goto, LeaveRcu, LockInv, Locked
  <2>7. RefInv'
    BY <1>32, <1>t, <2>3, <2>4, <2>5 DEF freeque_rmid, RefInv, ReferencesCovered
  <2> QED BY <2>6, <2>7
<1>33. ASSUME NEW p \in Procs, freeque_drain(p) PROVE LifeInv' /\ RefInv'
  <2>1. RefHolders' = RefHolders
    BY <1>33, <1>t DEF freeque_drain, Goto, RefHolders, CallInv
  <2>2. LifeInv'
    BY <1>33, <1>t, <2>1 DEF freeque_drain, Goto
  <2>3. RefInv'
    BY <1>33, <1>t, <2>1, HoldersFinite DEF freeque_drain, Goto, RefInv, ReferencesCovered
  <2> QED BY <2>2, <2>3
<1>34. ASSUME NEW p \in Procs, freeque_putref(p) PROVE LifeInv' /\ RefInv'
  <2>1. RefHolders' = RefHolders \ {p} /\ p \in RefHolders
    BY <1>34, <1>t DEF freeque_putref, Goto, Return, RefHolders
  <2>2. Cardinality(RefHolders') = Cardinality(RefHolders) - 1
    BY <2>1, HoldersFinite, FS_RemoveElement
  <2>3. mem = "live" /\ ref[p] >= Cardinality(RefHolders)
    BY <1>34, <1>t, <2>1 DEF freeque_putref, RefInv
  <2>4. ref[p] - 1 <= 0 => RefHolders' = {} /\ deleted'
    <3>1. ref[p] - 1 <= 0 => Cardinality(RefHolders') = 0
        BY <1>t, <2>2, <2>3, HoldersFinite, HoldersFiniteNext
    <3>2. RefHolders' = {} => deleted'
        BY <1>34, <1>t DEF freeque_putref, RefHolders
    <3> QED BY <3>1, <3>2, HoldersFiniteNext
  <2>5. LifeInv'
    BY <1>34, <1>t, <2>3, <2>4 DEF freeque_putref, PutStore, Goto, Return, LockInv, Reading, Locked
  <2>6. RefInv'
    BY <1>34, <1>t, <2>2, <2>3, HoldersFinite DEF freeque_putref, PutStore, Goto, Return, RefInv, ReferencesCovered
  <2> QED BY <2>5, <2>6
<1> QED BY <1>s, <1>1, <1>2, <1>3, <1>4, <1>5, <1>6, <1>7, <1>8, <1>9, <1>10, <1>11, <1>12, <1>13,
  <1>14, <1>15, <1>16, <1>17, <1>18, <1>19, <1>20, <1>21, <1>22, <1>23, <1>24, <1>25, <1>26, <1>27,
  <1>28, <1>29, <1>30, <1>31, <1>32, <1>33, <1>34 DEF Next, KernelStep, Procs

(* A step that leaves the wait list, its cursors and what the waiting      *)
(* receivers see alone.                                                    *)
Quiet ==
    /\ UNCHANGED <<q_receivers, msr, tmp, deleted>>
    /\ \A q \in Procs : (pc'[q] \in {"wake", "set"}) = (pc[q] \in {"wake", "set"})
    /\ \A q \in Procs : (pc'[q] = "walk") = (pc[q] = "walk")
    /\ \A q \in Procs : pc[q] \in {"wake", "set", "walk"} => cmd'[q] = cmd[q]
    /\ \A q \in Procs : Waiting(q)' = Waiting(q)
    /\ \A q \in Procs : r_msg'[q] # r_msg[q] => r_msg'[q] # "NULL" /\ ~Waiting(q)

(* ReceiverInv depends on nothing else.                                    *)
LEMMA QuietStep ==
    ASSUME TypeOK, ReceiverInv, Quiet
    PROVE  ReceiverInv'
<1>1. WakerInv'
  BY DEF ReceiverInv, WakerInv, Quiet, Waiting, HasFrame
<1>2. \A i : Expunged(i)' = Expunged(i)
  BY DEF Quiet, Expunged
<1>3. ListInv'
  <2>1. ASSUME NEW q \in Procs, HasFrame(q)', r_msg'[q] = "EAGAIN"
        PROVE  HasFrame(q) /\ r_msg[q] = "EAGAIN"
    BY <2>1 DEF Quiet, Waiting
  <2>2. ASSUME NEW i \in DOMAIN q_receivers
        PROVE  Waiting(q_receivers[i])' = Waiting(q_receivers[i])
    <3>1. q_receivers'[i] = q_receivers[i] /\ q_receivers[i] \in Procs
        BY DEF Quiet, TypeOK, TypeQueue
    <3> QED BY <3>1 DEF Quiet, Waiting, HasFrame
  <2> QED BY <1>2, <2>1, <2>2 DEF ReceiverInv, ListInv, Quiet
<1>4. CursorInv'
  BY DEF ReceiverInv, CursorInv, Quiet
<1> QED BY <1>1, <1>3, <1>4 DEF ReceiverInv

(* The wait list and the wakers keep ReceiverInv.                          *)
LEMMA ReceiverStep ==
    ASSUME TypeOK, LockInv, CallInv, LifeInv, ReceiverInv, [Next]_vars
    PROVE  ReceiverInv'
<1> USE DEF Labels, perm, queue, acct, rcu, life, args, walk
<1>t. /\ pc \in [Procs -> Labels] /\ tmp \in [Procs -> Nat] /\ NoProc \notin Procs
      /\ cmd \in [Procs -> {"none", "SND", "RCV", "SET", "RMID"}]
      /\ r_msg \in [Procs -> Msgs \cup Codes] /\ msr \in [Procs -> Procs \cup {NoProc}]
      /\ q_receivers \in Seq(Procs) /\ Msgs \cap Codes = {}
  BY ConstantsAssumption DEF TypeOK, TypeTask, TypeQueue
<1>s. CASE UNCHANGED vars
  <2>1. Quiet
    BY <1>s DEF vars, Quiet, Waiting, HasFrame
  <2> QED BY <2>1, QuietStep
<1>1. ASSUME NEW p \in Procs, newque(p) PROVE ReceiverInv'
  <2>1. \A q \in Procs : pc'[q] \in {"idle", "find", "ret"} /\ pc[q] = pc'[q]
    BY <1>1, <1>t DEF newque, LifeInv
  <2>2. WakerInv'
    BY <1>1, <2>1 DEF newque, ReceiverInv, WakerInv
  <2>3. q_receivers' = <<>> /\ DOMAIN q_receivers' = {}
    BY <1>1 DEF newque
  <2>4. ListInv'
    BY <2>1, <2>3 DEF ListInv, Waiting, HasFrame
  <2>5. CursorInv'
    BY <2>1 DEF CursorInv
  <2> QED BY <2>2, <2>4, <2>5 DEF ReceiverInv
<1>2. ASSUME NEW p \in Procs, ipc_find(p) PROVE ReceiverInv'
  <2>1. Quiet
    BY <1>2, <1>t DEF ipc_find, Goto, Return, Quiet, Waiting, HasFrame, CallInv, Codes
  <2> QED BY <2>1, QuietStep
<1>3. ASSUME NEW p \in Procs, ipc_lock_deleted(p) PROVE ReceiverInv'
  <2>1. Quiet
    BY <1>3, <1>t DEF ipc_lock_deleted, LeaveRcu, Return, Goto, Quiet, Waiting, HasFrame, CallInv, Codes
  <2> QED BY <2>1, QuietStep
<1>4. ASSUME NEW p \in Procs, SyscallExit(p) PROVE ReceiverInv'
  <2>1. Quiet
    BY <1>4, <1>t DEF SyscallExit, Goto, Quiet, Waiting, HasFrame, CallInv, Codes
  <2> QED BY <2>1, QuietStep
<1>5. ASSUME NEW p \in Procs, Signal(p) PROVE ReceiverInv'
  <2>1. Quiet
    BY <1>5, <1>t DEF Signal, Quiet, Waiting, HasFrame, CallInv, Codes
  <2> QED BY <2>1, QuietStep
<1>6. CASE ipc_immediate_free
  <2>1. Quiet
    BY <1>6, <1>t DEF ipc_immediate_free, Quiet, Waiting, HasFrame, CallInv, Codes
  <2> QED BY <2>1, QuietStep
<1>7. ASSUME NEW p \in Procs, msgsnd(p) PROVE ReceiverInv'
  <2>1. Quiet
    BY <1>7, <1>t DEF msgsnd, Goto, Quiet, Waiting, HasFrame, CallInv, Codes
  <2> QED BY <2>1, QuietStep
<1>8. ASSUME NEW p \in Procs, snd_fail(p) PROVE ReceiverInv'
  <2>1. Quiet
    BY <1>8, <1>t DEF snd_fail, AtTop, UnlockReturn, LeaveRcu, Return, Goto, Quiet, Waiting, HasFrame, CallInv, Codes
  <2> QED BY <2>1, QuietStep
<1>9. ASSUME NEW p \in Procs, snd_sleep(p) PROVE ReceiverInv'
  <2>1. Quiet
    BY <1>9, <1>t DEF snd_sleep, AtTop, ipc_rcu_getref, LeaveRcu, Goto, Quiet, Waiting, HasFrame, CallInv, Codes
  <2> QED BY <2>1, QuietStep
<1>10. ASSUME NEW p \in Procs, snd_relock(p) PROVE ReceiverInv'
  <2>1. Quiet
    BY <1>10, <1>t DEF snd_relock, Goto, Quiet, Waiting, HasFrame, CallInv, Codes
  <2> QED BY <2>1, QuietStep
<1>11. ASSUME NEW p \in Procs, snd_putref(p) PROVE ReceiverInv'
  <2>1. Quiet
    BY <1>11, <1>t DEF snd_putref, PutStore, Goto, Quiet, Waiting, HasFrame, CallInv, Codes
  <2> QED BY <2>1, QuietStep
<1>12. ASSUME NEW p \in Procs, snd_awake(p) PROVE ReceiverInv'
  <2>1. Quiet
    BY <1>12, <1>t DEF snd_awake, UnlockReturn, LeaveRcu, Return, Goto, Quiet, Waiting, HasFrame, CallInv, Codes
  <2> QED BY <2>1, QuietStep
<1>13. ASSUME NEW p \in Procs, snd_start(p) PROVE ReceiverInv'
  <2>1. Quiet
    BY <1>13, <1>t DEF snd_start, AtTop, Goto, Quiet, Waiting, HasFrame, CallInv, Codes
  <2> QED BY <2>1, QuietStep
<1>14. ASSUME NEW p \in Procs, pipelined_send(p) PROVE ReceiverInv'
  <2>0. pc[p] = "scan" /\ lock = p /\ ~deleted /\ cmd[p] = "SND"
    BY <1>14 DEF pipelined_send, LockInv, Locked, LifeInv
  <2>1. \A q \in Procs : q # p => pc[q] \notin Locked
    BY <2>0 DEF LockInv
  <2>2. \A q \in Procs : r_msg[q] # "NULL"
    BY <2>0, <2>1 DEF ReceiverInv, WakerInv, Locked
  <2>3. \A i : ~Expunged(i)
    BY <2>0, <2>1 DEF Expunged, Locked
  <2>4. CASE NextReceiver(hold[p]) \notin DOMAIN q_receivers
    <3>1. Quiet
        BY <1>14, <1>t, <2>4 DEF pipelined_send, Goto, Quiet, Waiting, HasFrame
    <3> QED BY <3>1, QuietStep
  <2>5. CASE NextReceiver(hold[p]) \in DOMAIN q_receivers
    <3>1. PICK i \in DOMAIN q_receivers :
             /\ msr' = [msr EXCEPT ![p] = q_receivers[i]]
             /\ q_receivers' = RemoveAt(q_receivers, i)
             /\ r_msg' = [r_msg EXCEPT ![q_receivers[i]] = "NULL"]
        BY <1>14, <2>5 DEF pipelined_send
    <3>2. pc' = [pc EXCEPT ![p] = "wake"] /\ UNCHANGED <<deleted, cmd, tmp>>
        BY <1>14, <2>5 DEF pipelined_send, Goto
    <3> DEFINE x == q_receivers[i]
    <3>3. x \in Procs /\ Waiting(x) /\ x # p
        BY <1>t, <2>0, <2>3 DEF ReceiverInv, ListInv, Waiting, HasFrame
    <3>4. /\ \A k \in DOMAIN q_receivers' :
                /\ q_receivers'[k] # x
                /\ \E j \in DOMAIN q_receivers : q_receivers'[k] = q_receivers[j]
          /\ \A j \in DOMAIN q_receivers : j # i =>
                \E k \in DOMAIN q_receivers' : q_receivers'[k] = q_receivers[j]
          /\ \A j, k \in DOMAIN q_receivers' : q_receivers'[j] = q_receivers'[k] => j = k
        BY <1>t, <3>1, RemoveAtEntries DEF ReceiverInv, ListInv
    <3> HIDE DEF x
    <3>5. msr'[p] = x /\ r_msg'[x] = "NULL" /\ \A q \in Procs : q # x => r_msg'[q] = r_msg[q]
        BY <1>t, <3>1, <3>3 DEF x
    <3>6. pc'[p] = "wake" /\ \A q \in Procs : q # p => pc'[q] = pc[q]
        BY <1>t, <3>2
    <3>7. WakerInv'
        BY <2>1, <2>2, <3>3, <3>5, <3>6 DEF WakerInv, Waiting, HasFrame, Locked
    <3>8. \A k : ~Expunged(k)'
        BY <2>0, <2>1, <3>2, <3>6 DEF Expunged, Locked
    <3>9. ListInv'
      <4>1. ASSUME NEW q \in Procs, HasFrame(q)', r_msg'[q] = "EAGAIN"
            PROVE  \E k \in DOMAIN q_receivers' : q_receivers'[k] = q
        <5>1. q # x /\ q # p
            BY <3>5, <3>6, <4>1 DEF HasFrame
        <5>2. HasFrame(q) /\ r_msg[q] = "EAGAIN"
            BY <3>5, <3>6, <4>1, <5>1 DEF HasFrame
        <5>3. PICK j \in DOMAIN q_receivers : q_receivers[j] = q
            BY <5>2 DEF ReceiverInv, ListInv
        <5> QED BY <3>4, <5>1, <5>3 DEF x
      <4>2. ASSUME NEW k \in DOMAIN q_receivers'
            PROVE  Waiting(q_receivers[k])'
        <5>1. PICK j \in DOMAIN q_receivers : q_receivers'[k] = q_receivers[j]
            BY <3>4
        <5>2. Waiting(q_receivers[j]) /\ q_receivers[j] # x /\ q_receivers[j] \in Procs
            BY <1>t, <2>0, <2>3, <3>4, <5>1 DEF ReceiverInv, ListInv
        <5> QED BY <2>0, <3>5, <3>6, <5>1, <5>2 DEF Waiting, HasFrame
      <4> QED BY <2>0, <3>2, <3>4, <3>8, <4>1, <4>2 DEF ListInv
    <3>10. CursorInv'
        BY <2>0, <2>1, <3>2, <3>4, <3>5, <3>6 DEF CursorInv, Locked
    <3> QED BY <3>7, <3>9, <3>10 DEF ReceiverInv
  <2> QED BY <2>4, <2>5
<1>15. ASSUME NEW p \in Procs, wake_receiver(p) PROVE ReceiverInv'
  <2>1. Quiet
    BY <1>15, <1>t DEF wake_receiver, Goto, Woken, Quiet, Waiting, HasFrame, CallInv, Codes
  <2> QED BY <2>1, QuietStep
<1>16. ASSUME NEW p \in Procs, deliver(p) PROVE ReceiverInv'
  <2> DEFINE x == msr[p]
  <2>0. pc[p] = "set" /\ lock = p /\ ~deleted /\ cmd[p] = "SND" /\ hold[p] \in Msgs
    BY <1>16 DEF deliver, LockInv, Locked, LifeInv, CallInv
  <2>1. \A q \in Procs : q # p => pc[q] \notin Locked
    BY <2>0 DEF LockInv
  <2>2. x \in Procs /\ HasFrame(x) /\ r_msg[x] = "NULL" /\ x # p
    BY <2>0 DEF ReceiverInv, WakerInv, HasFrame
  <2>3. \A q \in Procs : q # x => r_msg[q] # "NULL"
    BY <2>1 DEF ReceiverInv, WakerInv, Locked
  <2>4. \A i \in DOMAIN q_receivers : q_receivers[i] # x
    BY <2>0 DEF ReceiverInv, CursorInv
  <2>5. PICK v : v \in Msgs \cup {"E2BIG"} /\ r_msg' = [r_msg EXCEPT ![x] = v]
    BY <1>16, <2>0 DEF deliver
  <2> HIDE DEF x
  <2>6. r_msg'[x] \notin {"NULL", "EAGAIN"} /\ \A q \in Procs : q # x => r_msg'[q] = r_msg[q]
    BY <1>t, <2>2, <2>5 DEF Codes
  <2>7. /\ pc'[p] \in {"scan", "unlk"}
        /\ \A q \in Procs : q # p => pc'[q] = pc[q]
        /\ UNCHANGED <<q_receivers, deleted, cmd, tmp>>
    BY <1>16, <1>t DEF deliver, Goto
  <2>8. \A i : ~Expunged(i) /\ ~Expunged(i)'
    BY <2>0, <2>1, <2>7 DEF Expunged, Locked
  <2>9. WakerInv'
    BY <2>1, <2>3, <2>6, <2>7 DEF WakerInv, Locked
  <2>10. \A q \in Procs : q # x => HasFrame(q)' = HasFrame(q) /\ Waiting(q)' = Waiting(q)
    BY <2>0, <2>6, <2>7 DEF Waiting, HasFrame
  <2>11. ListInv'
    <3>1. ASSUME NEW q \in Procs, HasFrame(q)', r_msg'[q] = "EAGAIN"
          PROVE  \E i \in DOMAIN q_receivers : q_receivers[i] = q
        BY <2>6, <2>10, <3>1 DEF ReceiverInv, ListInv
    <3>2. ASSUME NEW i \in DOMAIN q_receivers
          PROVE  Waiting(q_receivers[i])'
      <4>1. q_receivers[i] \in Procs /\ Waiting(q_receivers[i]) /\ q_receivers[i] # x
        BY <1>t, <2>0, <2>4, <2>8 DEF ReceiverInv, ListInv
      <4>2. \A q \in Procs : q # x /\ Waiting(q) => Waiting(q)'
        BY <2>10
      <4>3. q_receivers'[i] = q_receivers[i]
        BY <2>7
      <4> QED BY <4>1, <4>2, <4>3 DEF Waiting, HasFrame
    <3> QED BY <2>0, <2>7, <2>8, <3>1, <3>2 DEF ReceiverInv, ListInv
  <2>12. CursorInv'
    BY <2>1, <2>7 DEF CursorInv, Locked
  <2> QED BY <2>9, <2>11, <2>12 DEF ReceiverInv
<1>17. ASSUME NEW p \in Procs, snd_done(p) PROVE ReceiverInv'
  <2>1. Quiet
    BY <1>17, <1>t DEF snd_done, UnlockReturn, LeaveRcu, Return, Goto, Quiet, Waiting, HasFrame, CallInv, Codes
  <2> QED BY <2>1, QuietStep
<1>18. ASSUME NEW p \in Procs, msgrcv(p) PROVE ReceiverInv'
  <2>1. Quiet
    BY <1>18, <1>t DEF msgrcv, Goto, Quiet, Waiting, HasFrame, CallInv, Codes
  <2> QED BY <2>1, QuietStep
<1>19. ASSUME NEW p \in Procs, rcv_fail(p) PROVE ReceiverInv'
  <2>1. Quiet
    BY <1>19, <1>t DEF rcv_fail, AtTop, UnlockReturn, LeaveRcu, Return, Goto, Quiet, Waiting, HasFrame, CallInv, Codes
  <2> QED BY <2>1, QuietStep
<1>20. ASSUME NEW p \in Procs, rcv_dequeue(p) PROVE ReceiverInv'
  <2>1. Quiet
    BY <1>20, <1>t DEF rcv_dequeue, AtTop, Unlink, LeaveRcu, Goto, Woken, Quiet, Waiting, HasFrame, CallInv, Codes
  <2> QED BY <2>1, QuietStep
<1>21. ASSUME NEW p \in Procs, rcv_sleep(p) PROVE ReceiverInv'
  <2>0. pc[p] \in {"lock", "loop"} /\ lock \in {NoProc, p} /\ ~deleted
    BY <1>21 DEF rcv_sleep, AtTop
  <2>1. \A q \in Procs : pc[q] \notin {"wake", "set", "walk"}
    BY <1>t, <2>0 DEF LockInv, Locked
  <2>2. \A q \in Procs : r_msg[q] # "NULL"
    BY <2>1 DEF ReceiverInv, WakerInv
  <2>3. \A i \in DOMAIN q_receivers :
           q_receivers[i] \in Procs /\ Waiting(q_receivers[i]) /\ q_receivers[i] # p
    BY <1>t, <2>0, <2>1 DEF ReceiverInv, ListInv, Expunged, Waiting, HasFrame
  <2>4. /\ pc'[p] = "rsleep" /\ r_msg'[p] = "EAGAIN"
        /\ \A q \in Procs : q # p => pc'[q] = pc[q] /\ r_msg'[q] = r_msg[q]
        /\ UNCHANGED <<deleted, cmd, tmp, msr>>
    BY <1>21, <1>t DEF rcv_sleep, Goto
  <2> DEFINE n == Len(q_receivers)
  <2>5. /\ q_receivers' = Append(q_receivers, p)
        /\ DOMAIN q_receivers = 1 .. n /\ n \in Nat
    BY <1>21, <1>t DEF rcv_sleep
  <2>6. /\ DOMAIN q_receivers' = 1 .. n + 1 /\ q_receivers'[n + 1] = p
        /\ \A i \in 1 .. n : q_receivers'[i] = q_receivers[i]
    BY <1>t, <2>5
  <2> HIDE DEF n
  <2>7. \A q \in Procs : pc'[q] \notin {"wake", "set", "walk"} /\ r_msg'[q] # "NULL"
    BY <2>1, <2>2, <2>4
  <2>8. WakerInv'
    BY <2>7 DEF WakerInv
  <2>9. ListInv'
    <3>1. ASSUME NEW q \in Procs, HasFrame(q)', r_msg'[q] = "EAGAIN"
          PROVE  \E i \in DOMAIN q_receivers' : q_receivers'[i] = q
      <4>1. CASE q = p
        <5>1. n + 1 \in DOMAIN q_receivers'
            BY <2>5, <2>6
        <5> QED BY <2>6, <4>1, <5>1
      <4>2. CASE q # p
        <5>1. PICK i \in DOMAIN q_receivers : q_receivers[i] = q
            BY <2>4, <3>1, <4>2 DEF HasFrame, ReceiverInv, ListInv
        <5>2. i \in DOMAIN q_receivers' /\ q_receivers'[i] = q
            BY <2>5, <2>6, <5>1
        <5> QED BY <5>2
      <4> QED BY <4>1, <4>2
    <3>2. ASSUME NEW i \in DOMAIN q_receivers'
          PROVE  Waiting(q_receivers[i])'
      <4>1. CASE i = n + 1
        BY <2>4, <2>6, <4>1 DEF Waiting, HasFrame
      <4>2. CASE i # n + 1
        <5>1. i \in 1 .. n
            BY <2>5, <2>6, <4>2
        <5>2. q_receivers'[i] = q_receivers[i]
            BY <2>6, <5>1
        <5> QED BY <2>3, <2>4, <2>5, <5>1, <5>2 DEF Waiting, HasFrame
      <4> QED BY <4>1, <4>2
    <3>3. ASSUME NEW i \in DOMAIN q_receivers', NEW j \in DOMAIN q_receivers',
                 q_receivers'[i] = q_receivers'[j]
          PROVE  i = j
      <4>1. \A k, l \in 1 .. n : q_receivers[k] = q_receivers[l] => k = l
        BY <2>5 DEF ReceiverInv, ListInv
      <4>2. \A k \in 1 .. n : q_receivers'[k] # p
        BY <2>3, <2>5, <2>6
      <4>3. (i \in 1 .. n \/ i = n + 1) /\ (j \in 1 .. n \/ j = n + 1)
        BY <2>5, <2>6
      <4> QED BY <2>6, <3>3, <4>1, <4>2, <4>3
    <3>4. \A i : ~Expunged(i)'
        BY <2>7 DEF Expunged
    <3> QED BY <2>0, <2>4, <3>1, <3>2, <3>3, <3>4 DEF ListInv
  <2>10. CursorInv'
    BY <2>7 DEF CursorInv
  <2> QED BY <2>8, <2>9, <2>10 DEF ReceiverInv
<1>22. ASSUME NEW p \in Procs, rcv_wake(p) PROVE ReceiverInv'
  <2>1. Quiet
    BY <1>22, <1>t DEF rcv_wake, Goto, Quiet, Waiting, HasFrame, CallInv, Codes
  <2> QED BY <2>1, QuietStep
<1>23. ASSUME NEW p \in Procs, rcv_spin(p) PROVE ReceiverInv'
  <2>1. Quiet
    BY <1>23, <1>t DEF rcv_spin, Accept, LeaveRcu, Return, Goto, Quiet, Waiting, HasFrame, CallInv, Codes
  <2> QED BY <2>1, QuietStep
<1>24. ASSUME NEW p \in Procs, rcv_relock(p) PROVE ReceiverInv'
  <2>1. \A q \in Procs : pc[q] \notin Locked
    BY <1>24, <1>t DEF rcv_relock, LockInv
  <2>2. \A q \in Procs : r_msg[q] # "NULL"
    BY <2>1 DEF ReceiverInv, WakerInv, Locked
  <2>3. CASE r_msg[p] # "EAGAIN"
    <3>1. Quiet
        BY <1>24, <1>t, <2>2, <2>3 DEF rcv_relock, Accept, LeaveRcu, Return, Goto, Quiet, Waiting, HasFrame
    <3> QED BY <3>1, QuietStep
  <2>4. CASE r_msg[p] = "EAGAIN"
    <3>1. PICK i \in DOMAIN q_receivers :
             q_receivers[i] = p /\ q_receivers' = RemoveAt(q_receivers, i)
        BY <1>24, <2>4 DEF rcv_relock
    <3>2. pc[p] = "relock" /\ ~deleted
        BY <1>24, <2>4 DEF rcv_relock, ReceiverInv, ListInv, Waiting, HasFrame
    <3>3. /\ pc'[p] \in {"ret", "loop"}
          /\ \A q \in Procs : q # p => pc'[q] = pc[q]
          /\ UNCHANGED <<r_msg, deleted, cmd, tmp, msr>>
        BY <1>24, <1>t, <2>4 DEF rcv_relock, UnlockReturn, LeaveRcu, Return, Goto
    <3>4. /\ \A k \in DOMAIN q_receivers' :
                /\ q_receivers'[k] # p
                /\ \E j \in DOMAIN q_receivers : q_receivers'[k] = q_receivers[j]
          /\ \A j \in DOMAIN q_receivers : j # i =>
                \E k \in DOMAIN q_receivers' : q_receivers'[k] = q_receivers[j]
          /\ \A j, k \in DOMAIN q_receivers' : q_receivers'[j] = q_receivers'[k] => j = k
        BY <1>t, <3>1, RemoveAtEntries DEF ReceiverInv, ListInv
    <3>5. \A q \in Procs : pc'[q] \notin {"wake", "set", "walk"}
        BY <2>1, <3>3 DEF Locked
    <3>6. WakerInv'
        BY <2>2, <3>3, <3>5 DEF WakerInv
    <3>7. \A k : ~Expunged(k) /\ ~Expunged(k)'
        BY <2>1, <3>5 DEF Expunged, Locked
    <3>8. ListInv'
      <4>1. ASSUME NEW q \in Procs, HasFrame(q)', r_msg'[q] = "EAGAIN"
            PROVE  \E k \in DOMAIN q_receivers' : q_receivers'[k] = q
        <5>1. q # p /\ HasFrame(q) /\ r_msg[q] = "EAGAIN"
            BY <3>3, <4>1 DEF HasFrame
        <5>2. PICK j \in DOMAIN q_receivers : q_receivers[j] = q
            BY <5>1 DEF ReceiverInv, ListInv
        <5> QED BY <3>1, <3>4, <5>1, <5>2
      <4>2. ASSUME NEW k \in DOMAIN q_receivers'
            PROVE  Waiting(q_receivers[k])'
        <5>1. PICK j \in DOMAIN q_receivers : q_receivers'[k] = q_receivers[j]
            BY <3>4
        <5>2. Waiting(q_receivers[j]) /\ q_receivers[j] # p /\ q_receivers[j] \in Procs
            BY <1>t, <3>2, <3>4, <3>7, <5>1 DEF ReceiverInv, ListInv
        <5> QED BY <3>3, <5>1, <5>2 DEF Waiting, HasFrame
      <4> QED BY <3>2, <3>3, <3>4, <3>7, <4>1, <4>2 DEF ListInv
    <3>9. CursorInv'
        BY <3>5 DEF CursorInv
    <3> QED BY <3>6, <3>8, <3>9 DEF ReceiverInv
  <2> QED BY <2>3, <2>4
<1>25. ASSUME NEW p \in Procs, rcv_copy(p) PROVE ReceiverInv'
  <2>1. Quiet
    BY <1>25, <1>t DEF rcv_copy, Return, Goto, Quiet, Waiting, HasFrame, CallInv, Codes
  <2> QED BY <2>1, QuietStep
<1>26. ASSUME NEW p \in Procs, msgctl(p) PROVE ReceiverInv'
  <2>1. Quiet
    BY <1>26, <1>t DEF msgctl, Goto, Quiet, Waiting, HasFrame, CallInv, Codes
  <2> QED BY <2>1, QuietStep
<1>27. ASSUME NEW p \in Procs, ctl_fail(p) PROVE ReceiverInv'
  <2>1. Quiet
    BY <1>27, <1>t DEF ctl_fail, UnlockReturn, LeaveRcu, Return, Goto, Quiet, Waiting, HasFrame, CallInv, Codes
  <2> QED BY <2>1, QuietStep
<1>28. ASSUME NEW p \in Procs, ctl_start(p) PROVE ReceiverInv'
  <2>1. \A q \in Procs : pc[q] \notin Locked
    BY <1>28, <1>t DEF ctl_start, LockInv
  <2>2. /\ pc[p] = "lock" /\ pc'[p] = "walk" /\ tmp'[p] = 1
        /\ \A q \in Procs : q # p => pc'[q] = pc[q]
        /\ UNCHANGED <<q_receivers, r_msg, deleted, cmd, msr>>
    BY <1>28, <1>t DEF ctl_start, Goto
  <2>3. \A i \in DOMAIN q_receivers : ~Expunged(i) /\ ~Expunged(i)'
    BY <1>t, <2>1, <2>2 DEF Expunged, Locked
  <2>4. \A q \in Procs : HasFrame(q)' = HasFrame(q) /\ Waiting(q)' = Waiting(q)
    BY <2>2 DEF Waiting, HasFrame
  <2>5. WakerInv'
    BY <2>1, <2>2 DEF ReceiverInv, WakerInv, Locked
  <2>6. ListInv'
    BY <1>t, <2>2, <2>3, <2>4 DEF ReceiverInv, ListInv, Waiting, HasFrame
  <2>7. CursorInv'
    BY <2>1, <2>2 DEF CursorInv, Locked
  <2> QED BY <2>5, <2>6, <2>7 DEF ReceiverInv
<1>29. ASSUME NEW p \in Procs, expunge_next(p) PROVE ReceiverInv'
  <2> DEFINE t == tmp[p]
             x == q_receivers[t]
  <2>0. pc[p] = "walk" /\ lock = p /\ ~deleted /\ t \in DOMAIN q_receivers /\ t \in Nat
    BY <1>29, <1>t DEF expunge_next, LockInv, Locked, LifeInv
  <2>c. cmd[p] \in {"SET", "RMID"}
    BY <2>0 DEF CallInv
  <2>1. \A q \in Procs : q # p => pc[q] \notin Locked
    BY <2>0 DEF LockInv
  <2>2. \A q \in Procs : r_msg[q] # "NULL"
    BY <2>0, <2>1 DEF ReceiverInv, WakerInv, Locked
  <2>3. \A i : Expunged(i) <=> cmd[p] = "RMID" /\ i < t
    BY <2>0, <2>1 DEF Expunged, Locked
  <2>4. x \in Procs /\ Waiting(x) /\ x # p
    BY <1>t, <2>0, <2>3 DEF ReceiverInv, ListInv, Waiting, HasFrame
  <2>5. /\ pc'[p] = "wake" /\ tmp'[p] = t + 1 /\ msr'[p] = x /\ r_msg'[x] = "NULL"
        /\ \A q \in Procs : q # p => pc'[q] = pc[q] /\ msr'[q] = msr[q] /\ tmp'[q] = tmp[q]
        /\ \A q \in Procs : q # x => r_msg'[q] = r_msg[q]
        /\ UNCHANGED <<q_receivers, deleted, cmd>>
    BY <1>29, <1>t, <2>4 DEF expunge_next, Goto
  <2>6. q_receivers[t] = x /\ (t + 1) - 1 = t
    BY <2>0
  <2> HIDE DEF t, x
  <2>7. WakerInv'
    BY <2>1, <2>2, <2>4, <2>5 DEF WakerInv, Waiting, HasFrame, Locked
  <2>8. \A i : Expunged(i)' <=> cmd[p] = "RMID" /\ i < t
    BY <2>1, <2>5, <2>6 DEF Expunged, Locked
  <2>9. \A q \in Procs : HasFrame(q)' = HasFrame(q) /\ Waiting(q)' = Waiting(q)
    <3>1. \A q \in Procs : HasFrame(q)' = HasFrame(q)
        BY <2>0, <2>5 DEF HasFrame
    <3> QED BY <2>4, <2>5, <3>1 DEF Waiting
  <2>10. ListInv'
    <3>1. \A q \in Procs : (HasFrame(q)' /\ r_msg'[q] = "EAGAIN") =>
                (HasFrame(q) /\ r_msg[q] = "EAGAIN")
        BY <2>5, <2>9
    <3>2. ASSUME NEW i \in DOMAIN q_receivers
          PROVE  Waiting(q_receivers[i])' <=> ~Expunged(i)'
      <4>1. q_receivers[i] \in Procs
        BY <1>t
      <4>2. Waiting(q_receivers[i]) <=> ~Expunged(i)
        BY <2>0 DEF ReceiverInv, ListInv
      <4>3. q_receivers'[i] = q_receivers[i]
        BY <2>5
      <4>4. Waiting(q_receivers[i])' <=> Waiting(q_receivers[i])
        BY <2>9, <4>1, <4>3 DEF Waiting, HasFrame
      <4> QED BY <2>3, <2>8, <4>2, <4>4
    <3> QED BY <2>0, <2>5, <3>1, <3>2 DEF ReceiverInv, ListInv
  <2>11. CursorInv'
    BY <2>0, <2>1, <2>5, <2>6, <2>c DEF CursorInv, Locked
  <2> QED BY <2>7, <2>10, <2>11 DEF ReceiverInv
<1>30. ASSUME NEW p \in Procs, expunge_set(p) PROVE ReceiverInv'
  <2> DEFINE t == tmp[p]
  <2>x. PICK x : x = msr[p]
    OBVIOUS
  <2>0. pc[p] = "set" /\ cmd[p] \in {"SET", "RMID"} /\ lock = p /\ ~deleted /\ t \in Nat
    BY <1>30, <1>t DEF expunge_set, LockInv, Locked, LifeInv
  <2>1. \A q \in Procs : q # p => pc[q] \notin Locked
    BY <2>0 DEF LockInv
  <2>2. x \in Procs /\ HasFrame(x) /\ r_msg[x] = "NULL" /\ x # p
    BY <2>0, <2>x DEF ReceiverInv, WakerInv, HasFrame
  <2>3. \A q \in Procs : q # x => r_msg[q] # "NULL"
    BY <2>1, <2>x DEF ReceiverInv, WakerInv, Locked
  <2>4. t - 1 \in DOMAIN q_receivers /\ q_receivers[t - 1] = x
    BY <2>0, <2>x DEF ReceiverInv, CursorInv
  <2>5. \A i \in DOMAIN q_receivers : q_receivers[i] = x => i = t - 1
    BY <2>4 DEF ReceiverInv, ListInv
  <2>6. \A i : Expunged(i) <=> cmd[p] = "RMID" /\ i < t - 1
    BY <2>0, <2>1 DEF Expunged, Locked
  <2>7. /\ pc'[p] = "walk"
        /\ r_msg'[x] = IF cmd[p] = "SET" THEN "EAGAIN" ELSE "EIDRM"
        /\ \A q \in Procs : q # p => pc'[q] = pc[q]
        /\ \A q \in Procs : q # x => r_msg'[q] = r_msg[q]
        /\ UNCHANGED <<q_receivers, deleted, cmd, tmp>>
    BY <1>30, <1>t, <2>2, <2>x DEF expunge_set, Goto
  <2>8. t \in Nat /\ t >= 1 /\ tmp'[p] = t
    BY <1>t, <2>0, <2>4, <2>7
  <2> HIDE DEF t
  <2>9. \A i : Expunged(i)' <=> cmd[p] = "RMID" /\ i < t
    BY <2>1, <2>7, <2>8 DEF Expunged, Locked
  <2>10. WakerInv'
    BY <2>0, <2>1, <2>3, <2>7 DEF WakerInv, Locked
  <2>11. \A q \in Procs : HasFrame(q)' = HasFrame(q)
    BY <2>0, <2>7 DEF HasFrame
  <2>12. \A q \in Procs : q # x => Waiting(q)' = Waiting(q)
    BY <2>7, <2>11 DEF Waiting
  <2>13. Waiting(x)' <=> cmd[p] = "SET"
    BY <2>0, <2>2, <2>7, <2>11 DEF Waiting
  <2>14. ListInv'
    <3>1. ASSUME NEW q \in Procs, HasFrame(q)', r_msg'[q] = "EAGAIN"
          PROVE  \E i \in DOMAIN q_receivers : q_receivers[i] = q
      <4>1. CASE q = x
        BY <2>4, <4>1
      <4>2. CASE q # x
        BY <2>7, <2>11, <3>1, <4>2 DEF ReceiverInv, ListInv
      <4> QED BY <4>1, <4>2
    <3>2. ASSUME NEW i \in DOMAIN q_receivers
          PROVE  Waiting(q_receivers[i])' <=> ~Expunged(i)'
      <4>1. q_receivers[i] \in Procs /\ q_receivers'[i] = q_receivers[i] /\ i \in Int
        BY <1>t, <2>7
      <4>2. Waiting(q_receivers[i]) <=> ~Expunged(i)
        BY <2>0 DEF ReceiverInv, ListInv
      <4>3. CASE i = t - 1
        <5>1. Waiting(q_receivers[i])' <=> cmd[p] = "SET"
            BY <2>4, <2>7, <2>13, <4>1, <4>3 DEF Waiting, HasFrame
        <5>2. i < t
            BY <2>8, <4>3
        <5> QED BY <2>0, <2>9, <5>1, <5>2
      <4>4. CASE i # t - 1
        <5>1. q_receivers[i] # x
            BY <2>5, <4>4
        <5>2. Waiting(q_receivers[i])' <=> Waiting(q_receivers[i])
            BY <2>12, <4>1, <5>1 DEF Waiting, HasFrame
        <5>3. i < t <=> i < t - 1
            BY <2>8, <4>1, <4>4
        <5> QED BY <2>6, <2>9, <4>2, <5>2, <5>3
      <4> QED BY <4>3, <4>4
    <3> QED BY <2>0, <2>7, <3>1, <3>2 DEF ReceiverInv, ListInv
  <2>15. CursorInv'
    BY <2>1, <2>7, <2>8 DEF CursorInv, Locked
  <2> QED BY <2>10, <2>14, <2>15 DEF ReceiverInv
<1>31. ASSUME NEW p \in Procs, ctl_set_done(p) PROVE ReceiverInv'
  <2>0. pc[p] = "walk" /\ cmd[p] = "SET" /\ lock = p
    BY <1>31 DEF ctl_set_done, LockInv, Locked
  <2>1. \A q \in Procs : q # p => pc[q] \notin Locked
    BY <2>0 DEF LockInv
  <2>2. /\ pc'[p] = "ret"
        /\ \A q \in Procs : q # p => pc'[q] = pc[q]
        /\ UNCHANGED <<q_receivers, r_msg, deleted, cmd, msr>>
    BY <1>31, <1>t DEF ctl_set_done, UnlockReturn, LeaveRcu, Return, Goto
  <2>3. \A i : ~Expunged(i) /\ ~Expunged(i)'
    BY <2>0, <2>1, <2>2 DEF Expunged, Locked
  <2>4. \A q \in Procs : HasFrame(q)' = HasFrame(q) /\ Waiting(q)' = Waiting(q)
    BY <2>0, <2>2 DEF Waiting, HasFrame
  <2>5. WakerInv'
    BY <2>0, <2>1, <2>2 DEF ReceiverInv, WakerInv, Locked
  <2>6. ListInv'
    <3>1. \A i \in DOMAIN q_receivers : Waiting(q_receivers[i])' = Waiting(q_receivers[i])
        BY <1>t, <2>2, <2>4 DEF Waiting, HasFrame
    <3> QED BY <2>2, <2>3, <2>4, <3>1 DEF ReceiverInv, ListInv
  <2>7. CursorInv'
    BY <2>1, <2>2 DEF CursorInv, Locked
  <2> QED BY <2>5, <2>6, <2>7 DEF ReceiverInv
<1>32. ASSUME NEW p \in Procs, freeque_rmid(p) PROVE ReceiverInv'
  <2>0. pc[p] = "walk" /\ cmd[p] = "RMID" /\ lock = p /\ ~deleted
    BY <1>32 DEF freeque_rmid, LockInv, Locked, LifeInv
  <2>1. \A q \in Procs : q # p => pc[q] \notin Locked
    BY <2>0 DEF LockInv
  <2>2. /\ pc'[p] = "drain"
        /\ \A q \in Procs : q # p => pc'[q] = pc[q]
        /\ deleted' /\ UNCHANGED <<q_receivers, r_msg, cmd, msr>>
    BY <1>32, <1>t DEF freeque_rmid, Goto
  <2>3. \A i \in DOMAIN q_receivers : i < tmp[p]
    BY <1>32, <1>t, <2>0 DEF freeque_rmid, ReceiverInv, CursorInv
  <2>4. \A i \in DOMAIN q_receivers : ~Waiting(q_receivers[i])
    BY <2>0, <2>3 DEF ReceiverInv, ListInv, Expunged
  <2>5. \A q \in Procs : r_msg[q] # "NULL"
    BY <2>0, <2>1 DEF ReceiverInv, WakerInv, Locked
  <2>6. \A q \in Procs : ~Waiting(q)
    BY <2>4, <2>5 DEF ReceiverInv, ListInv, Waiting
  <2>7. \A q \in Procs : ~Waiting(q)'
    BY <2>2, <2>6 DEF Waiting, HasFrame
  <2>8. WakerInv'
    BY <2>1, <2>2, <2>5 DEF WakerInv, Locked
  <2>9. ListInv'
    <3>1. \A q \in Procs : ~(HasFrame(q)' /\ r_msg'[q] = "EAGAIN")
        BY <2>7 DEF Waiting
    <3> QED BY <2>2, <2>7, <3>1 DEF ReceiverInv, ListInv
  <2>10. CursorInv'
    BY <2>1, <2>2 DEF CursorInv, Locked
  <2> QED BY <2>8, <2>9, <2>10 DEF ReceiverInv
<1>33. ASSUME NEW p \in Procs, freeque_drain(p) PROVE ReceiverInv'
  <2>1. Quiet
    BY <1>33, <1>t DEF freeque_drain, Goto, Quiet, Waiting, HasFrame, CallInv, Codes
  <2> QED BY <2>1, QuietStep
<1>34. ASSUME NEW p \in Procs, freeque_putref(p) PROVE ReceiverInv'
  <2>1. Quiet
    BY <1>34, <1>t DEF freeque_putref, PutStore, Return, Goto, Quiet, Waiting, HasFrame, CallInv, Codes
  <2> QED BY <2>1, QuietStep
<1> QED BY <1>s, <1>1, <1>2, <1>3, <1>4, <1>5, <1>6, <1>7, <1>8, <1>9, <1>10, <1>11, <1>12, <1>13,
  <1>14, <1>15, <1>16, <1>17, <1>18, <1>19, <1>20, <1>21, <1>22, <1>23, <1>24, <1>25, <1>26, <1>27,
  <1>28, <1>29, <1>30, <1>31, <1>32, <1>33, <1>34 DEF Next, KernelStep, Procs

(* The inductive invariant holds at the start.                             *)
LEMMA InitInv == Init => IInv
<1> SUFFICES ASSUME Init PROVE IInv
  OBVIOUS
<1> USE DEF Init
<1>1. TypeOK
  <2>1. NoReq \in Requests
    BY NoReqType
  <2>2. TypeQueue
    <3>1. /\ refcount = 0 /\ q_qbytes = 0 /\ q_cbytes = 0 /\ q_qnum = 0
          /\ msg_bytes = 0 /\ msg_hdrs = 0
        OBVIOUS
    <3>2. refcount \in Int /\ q_qbytes \in Nat /\ q_cbytes \in Int /\ q_qnum \in Int
        BY <3>1
    <3>3. msg_bytes \in Int /\ msg_hdrs \in Int
        BY <3>1
    <3>4. deleted \in BOOLEAN
        OBVIOUS
    <3>5. q_messages \in Seq(Msgs) /\ q_receivers \in Seq(Procs) /\ q_senders \in Seq(Procs)
        OBVIOUS
    <3> QED BY <3>2, <3>3, <3>4, <3>5 DEF TypeQueue
  <2>3. TypeTask
    BY <2>1 DEF TypeTask, Labels, Results, Codes
  <2> QED BY <2>2, <2>3 DEF TypeOK
<1>2. LockInv
  BY ConstantsAssumption DEF LockInv, Locked, Reading
<1>3. CallInv
  BY DEF CallInv
<1>4. LifeInv
  BY DEF LifeInv
<1>5. RefInv
  BY DEF RefInv, ReferencesCovered
<1>6. ReceiverInv
  <2>1. \A p \in Procs : pc[p] = "idle" /\ r_msg[p] = "EAGAIN"
    OBVIOUS
  <2>2. DOMAIN q_receivers = {} /\ deleted = FALSE
    OBVIOUS
  <2> QED BY <2>1, <2>2 DEF ReceiverInv, WakerInv, ListInv, CursorInv, HasFrame
<1> QED BY <1>1, <1>2, <1>3, <1>4, <1>5, <1>6 DEF IInv

(* IInv is an invariant of every instance of the queue, whatever the       *)
(* number of senders, receivers, controllers and messages.                 *)
THEOREM Inductive == Spec => []IInv
<1>1. IInv /\ [Next]_vars => IInv'
  <2> SUFFICES ASSUME IInv, [Next]_vars PROVE IInv'
    OBVIOUS
  <2>1. TypeOK /\ LockInv /\ CallInv /\ LifeInv /\ RefInv /\ ReceiverInv
    BY DEF IInv
  <2>2. TypeOK'
    BY <2>1, TypeStep
  <2>3. LockInv'
    BY <2>1, LockStep
  <2>4. CallInv'
    BY <2>1, CallStep
  <2>5. LifeInv' /\ RefInv'
    BY <2>1, LifeStep
  <2>6. ReceiverInv'
    BY <2>1, ReceiverStep
  <2> QED BY <2>2, <2>3, <2>4, <2>5, <2>6 DEF IInv
<1> QED BY <1>1, InitInv, PTL DEF Spec

(* Every variable keeps its type, and no call returns the transient NULL.  *)
THEOREM TypeCorrect == Spec => []TypeOK
<1>1. IInv => TypeOK
  BY DEF IInv
<1> QED BY <1>1, Inductive, PTL

(* No task touches the msg_queue after its memory has been given back      *)
(* (ipc_immediate_free), whatever IPC_RMID, msgsnd and msgrcv interleave.  *)
THEOREM MemorySafe == Spec => []NoUseAfterFree
<1>1. IInv => NoUseAfterFree
  <2> SUFFICES ASSUME IInv, NEW p \in Procs, Dereferences(p)
               PROVE  mem \in {"live", "rcu"}
    BY DEF NoUseAfterFree
  <2>1. mem \in {"none", "live", "rcu", "freed"}
    BY DEF IInv, TypeOK, TypeQueue
  <2>2. mem # "none"
    BY DEF IInv, LifeInv, Dereferences
  <2>3. mem # "freed"
    BY DEF IInv, LifeInv, Dereferences, RefHolders
  <2> QED BY <2>1, <2>2, <2>3
<1> QED BY <1>1, Inductive, PTL

(* The wakeups of pipelined_send() and expunge_all() find the receiver and *)
(* its msg_receiver, on its kernel stack, still there.                     *)
THEOREM WakeupSafe == Spec => []WakeupHitsLiveFrame
<1>1. IInv => WakeupHitsLiveFrame
  BY DEF IInv, ReceiverInv, WakerInv, WakeupHitsLiveFrame
<1> QED BY <1>1, Inductive, PTL

(* The reference count never falls below the number of references, though  *)
(* freeque() drops its own outside the lock.                               *)
THEOREM ReferencesSafe == Spec => []ReferencesCovered
<1>1. IInv => ReferencesCovered
  BY DEF IInv, RefInv
<1> QED BY <1>1, Inductive, PTL

-----------------------------------------------------------------------------
(* The search of msgrcv().                                                 *)

(* One step of the walk of do_msgrcv(), and the states it goes through.    *)
Visit(list, r, a, i) ==
    IF a.stop \/ ~testmsg(list[i], a.type, convert_mode(r)) THEN a
    ELSE IF convert_mode(r) = "LESSEQUAL" /\ MType[list[i]] # 1
         THEN [at |-> i, type |-> MType[list[i]] - 1, stop |-> FALSE]
         ELSE [at |-> i, type |-> a.type, stop |-> TRUE]

Cursors == [at : Nat, type : Int, stop : BOOLEAN]
FirstCursor(r) == [at |-> 0, type |-> SearchType(r), stop |-> FALSE]

Walk(f, list, r) ==
    /\ f \in [0 .. Len(list) -> Cursors]
    /\ f[0] = FirstCursor(r)
    /\ \A i \in 1 .. Len(list) : f[i] = Visit(list, r, f[i - 1], i)

(* What convert_mode() returns.                                            *)
LEMMA SearchTypes ==
    ASSUME NEW r \in RequestSet
    PROVE  /\ SearchType(r) \in Int
           /\ convert_mode(r) \in {"ANY", "LESSEQUAL", "NOTEQUAL", "EQUAL"}
<1>1. r.msgtyp \in Int /\ r.except \in BOOLEAN /\ LONG_MIN \in Int /\ LONG_MIN < 0
  BY MessageAssumption DEF RequestSet
<1>2. r.msgtyp < 0 \/ r.msgtyp = 0 \/ r.msgtyp > 0
  BY <1>1
<1>3. SearchType(r) \in Int
  BY <1>1, <1>2 DEF SearchType
<1>4. convert_mode(r) \in {"ANY", "LESSEQUAL", "NOTEQUAL", "EQUAL"}
  BY <1>1, <1>2 DEF convert_mode
<1> QED BY <1>3, <1>4

(* FindMsg() is where such a walk ends.                                    *)
LEMMA FindIsWalk ==
    ASSUME NEW list \in Seq(Msgs), NEW r \in RequestSet
    PROVE  \E f : Walk(f, list, r) /\ FindMsg(list, r) = f[Len(list)].at
<1> DEFINE n == Len(list)
           D == 1 .. n
           b == FirstCursor(r)
           c == [T \in SUBSET D |-> Max(T)]
           h == [xv \in D \X Cursors |-> Visit(list, r, xv[2], xv[1])]
<1>n. n \in Nat /\ DOMAIN list = D /\ \A i \in D : list[i] \in Msgs /\ MType[list[i]] \in Nat
  BY MessageAssumption
<1>1. \A T \in SUBSET D : T # {} => c[T] \in T
  BY <1>n, MaxOfInterval
<1>2. \A x \in D, a \in Cursors : Visit(list, r, a, x) \in Cursors
  <2> SUFFICES ASSUME NEW x \in D, NEW a \in Cursors PROVE Visit(list, r, a, x) \in Cursors
    OBVIOUS
  <2>1. MType[list[x]] - 1 \in Int /\ x \in Nat /\ a.type \in Int
    BY <1>n DEF Cursors
  <2>2. [at |-> x, type |-> MType[list[x]] - 1, stop |-> FALSE] \in Cursors
    BY <2>1 DEF Cursors
  <2>3. [at |-> x, type |-> a.type, stop |-> TRUE] \in Cursors
    BY <2>1 DEF Cursors
  <2> QED BY <2>2, <2>3 DEF Visit
<1>3. h \in [D \X Cursors -> Cursors]
  <2>1. \A xv \in D \X Cursors : Visit(list, r, xv[2], xv[1]) \in Cursors
    <3> SUFFICES ASSUME NEW xv \in D \X Cursors PROVE Visit(list, r, xv[2], xv[1]) \in Cursors
        OBVIOUS
    <3>1. xv[1] \in D /\ xv[2] \in Cursors
        OBVIOUS
    <3> QED BY <1>2, <3>1
  <2> QED BY <2>1
<1>4. \A x \in D, a \in Cursors : h[<<x, a>>] = Visit(list, r, a, x)
  OBVIOUS
<1>5. b \in Cursors /\ IsFiniteSet(D)
  BY <1>n, SearchTypes, FS_Interval DEF FirstCursor, Cursors
<1> HIDE DEF h, c
<1>6. PICK e \in [SUBSET D -> Cursors] : FollowsFold(e, D, b, c, h)
  BY <1>1, <1>3, <1>5, FoldExists
<1> DEFINE seq == [i \in DOMAIN list |-> i]
           Step(f, U) == IF U = {} THEN b ELSE Visit(list, r, f[U \ {Max(U)}], seq[Max(U)])
           Rec(f) == f = [U \in SUBSET DOMAIN seq |-> Step(f, U)]
           f0 == CHOOSE f : Rec(f)
<1>7. DOMAIN seq = D /\ \A U \in SUBSET D : U # {} => seq[Max(U)] = Max(U)
  <2>1. \A U \in SUBSET D : U # {} => Max(U) \in D
    BY <1>1 DEF c
  <2> QED BY <1>n, <2>1
<1>8. \A U \in SUBSET D : e[U] = Step(e, U)
  <2> SUFFICES ASSUME NEW U \in SUBSET D PROVE e[U] = Step(e, U)
    OBVIOUS
  <2> HIDE DEF seq
  <2>1. e[U] = IF U = {} THEN b ELSE h[<<c[U], e[U \ {c[U]}]>>]
    BY <1>6 DEF FollowsFold
  <2>2. c[U] = Max(U)
    BY DEF c
  <2>3. CASE U = {}
    BY <2>1, <2>3
  <2>4. CASE U # {}
    <3>1. c[U] \in D /\ e[U \ {c[U]}] \in Cursors
        BY <1>1, <2>4
    <3>2. h[<<c[U], e[U \ {c[U]}]>>] = Visit(list, r, e[U \ {c[U]}], c[U])
        BY <1>4, <3>1
    <3> QED BY <1>7, <2>1, <2>2, <2>4, <3>2
  <2> QED BY <2>3, <2>4
<1>9. Rec(e)
  <2>1. e = [U \in SUBSET DOMAIN seq |-> e[U]]
    BY <1>7
  <2>2. [U \in SUBSET DOMAIN seq |-> e[U]] = [U \in SUBSET DOMAIN seq |-> Step(e, U)]
    BY <1>7, <1>8, Zenon
  <2> QED BY <2>1, <2>2, Zenon
<1>10. Rec(f0)
  BY <1>9, Zenon
<1>11. FindMsg(list, r) = f0[DOMAIN seq].at
  BY Zenon DEF FindMsg, FoldLeftDomain, FoldLeft, MapThenFoldSet, Visit, FirstCursor
<1> HIDE DEF f0
<1>12. f0[D] = e[D]
  <2> DEFINE P == {U \in SUBSET D : f0[U] = e[U]}
  <2>1. ASSUME NEW U \in SUBSET D, \A W \in SUBSET U : W # U => W \in P
        PROVE  U \in P
    <3>1. f0[U] = Step(f0, U)
        BY <1>7, <1>10, Zenon
    <3>2. e[U] = Step(e, U)
        BY <1>8
    <3>3. CASE U = {}
        BY <3>1, <3>2, <3>3
    <3>4. CASE U # {}
      <4>1. Max(U) \in U
        BY <1>1, <3>4 DEF c
      <4>2. f0[U \ {Max(U)}] = e[U \ {Max(U)}]
        BY <2>1, <4>1
      <4> QED BY <3>1, <3>2, <3>4, <4>2
    <3> QED BY <3>3, <3>4
  <2> HIDE DEF P
  <2>2. \A U \in SUBSET D : U \in P
    BY <1>5, <2>1, SubsetInduction
  <2>3. D \in P
    BY <2>2
  <2> QED BY <2>3 DEF P
<1> DEFINE f == [i \in 0 .. n |-> e[1 .. i]]
<1>13. f \in [0 .. n -> Cursors]
  <2>1. \A i \in 0 .. n : 1 .. i \in SUBSET D
    BY <1>n
  <2> QED BY <2>1
<1>14. f[0] = FirstCursor(r)
  <2>1. 1 .. 0 = {} /\ {} \in SUBSET D
    OBVIOUS
  <2> QED BY <1>8, <2>1
<1>15. ASSUME NEW i \in 1 .. n PROVE f[i] = Visit(list, r, f[i - 1], i)
  <2>1. 1 .. i \in SUBSET D /\ 1 .. i # {}
    BY <1>n
  <2>2. Max(1 .. i) = i
    <3> DEFINE I == 1 .. i
    <3>1. i \in I /\ i \in Nat /\ \A y \in I : y \in Nat /\ y <= i
        BY <1>n
    <3>2. Max(I) \in I /\ \A y \in I : Max(I) >= y
      <4>1. I \subseteq 1 .. n /\ I # {}
        BY <2>1
      <4> HIDE DEF I
      <4> QED BY <1>n, <4>1, MaxOfInterval
    <3> HIDE DEF I
    <3> DEFINE m == Max(I)
    <3>3. m \in I /\ m >= i
        BY <3>1, <3>2
    <3> HIDE DEF m
    <3>4. m = i
        BY <3>1, <3>3
    <3> QED BY <3>4 DEF I, m
  <2>3. (1 .. i) \ {i} = 1 .. (i - 1) /\ i - 1 \in 0 .. n /\ i \in 0 .. n
    BY <1>n
  <2>4. e[1 .. i] = Visit(list, r, e[1 .. (i - 1)], i)
    BY <1>7, <1>8, <2>1, <2>2, <2>3
  <2> QED BY <2>3, <2>4
<1>16. f[n] = e[D]
  BY <1>n
<1> HIDE DEF f
<1>17. Walk(f, list, r)
  BY <1>13, <1>14, <1>15 DEF Walk
<1>18. FindMsg(list, r) = f[n].at
  BY <1>7, <1>11, <1>12, <1>16
<1> QED BY <1>17, <1>18

(* The walk has looked at the first i messages: it remembers the first one *)
(* wanted, in mode LESSEQUAL the first of the least type wanted.           *)
BestOf(list, r, i, k) ==
    /\ k \in 1 .. i /\ Wants(r, list[k])
    /\ \A j \in 1 .. i : Wants(r, list[j]) =>
          IF convert_mode(r) = "LESSEQUAL"
          THEN MType[list[k]] <= MType[list[j]] /\ (j < k => MType[list[k]] < MType[list[j]])
          ELSE k <= j

(* FindMsg() is 0 when testmsg() accepts no message of the list, and else  *)
(* the first (of the least type) that it accepts.                          *)
LEMMA FindsWanted ==
    ASSUME NEW list \in Seq(Msgs), NEW r \in RequestSet
    PROVE  \/ FindMsg(list, r) = 0 /\ \A j \in DOMAIN list : ~Wants(r, list[j])
           \/ BestOf(list, r, Len(list), FindMsg(list, r))
<1> DEFINE n == Len(list)
           md == convert_mode(r)
           Ty(i) == MType[list[i]]
<1>1. PICK f : Walk(f, list, r) /\ FindMsg(list, r) = f[n].at
  BY FindIsWalk
<1>n. n \in Nat /\ DOMAIN list = 1 .. n /\ \A i \in 1 .. n : Ty(i) \in Nat /\ Ty(i) >= 1
  BY MessageAssumption
<1>m. md \in {"ANY", "LESSEQUAL", "NOTEQUAL", "EQUAL"} /\ SearchType(r) \in Int
  BY SearchTypes
<1>f. \A i \in 0 .. n : f[i] \in Cursors
  BY <1>1 DEF Walk
<1> DEFINE None(i) == f[i] = FirstCursor(r) /\ \A j \in 1 .. i : ~Wants(r, list[j])
           Some(i) == /\ BestOf(list, r, i, f[i].at)
                      /\ md # "LESSEQUAL" => f[i].stop
                      /\ (md = "LESSEQUAL" /\ f[i].stop) => Ty(f[i].at) = 1
                      /\ (md = "LESSEQUAL" /\ ~f[i].stop) => f[i].type = Ty(f[i].at) - 1
           P == {i \in 0 .. n : None(i) \/ Some(i)}
<1>2. 0 \in P
  BY <1>1, <1>n DEF Walk
<1>3. ASSUME NEW i \in 0 .. n, i \in P, i + 1 <= n PROVE i + 1 \in P
  <2> DEFINE k == i + 1
             a == f[i]
             d == f[k]
  <2>1. k \in 1 .. n /\ k - 1 = i /\ i \in Nat /\ 1 .. k = (1 .. i) \cup {k}
    BY <1>3, <1>n
  <2>2. d = Visit(list, r, a, k)
    BY <1>1, <2>1 DEF Walk
  <2>3. a \in Cursors /\ a.type \in Int /\ a.at \in Nat /\ a.stop \in BOOLEAN
    BY <1>f DEF Cursors
  <2>4. Ty(k) \in Nat /\ Ty(k) >= 1 /\ \A j \in 1 .. i : Ty(j) \in Nat /\ Ty(j) >= 1
    BY <1>n, <2>1
  <2>5. CASE None(i)
    <3>1. a.type = SearchType(r) /\ a.stop = FALSE
        BY <2>5 DEF FirstCursor
    <3>2. testmsg(list[k], a.type, md) <=> Wants(r, list[k])
        BY <3>1 DEF Wants
    <3>3. CASE ~Wants(r, list[k])
      <4>1. d = a
        BY <2>2, <3>2, <3>3 DEF Visit
      <4> QED BY <2>1, <2>5, <3>3, <4>1
    <3>4. CASE Wants(r, list[k])
      <4>1. BestOf(list, r, k, k)
        BY <2>1, <2>4, <2>5, <3>4 DEF BestOf
      <4>2. CASE md = "LESSEQUAL" /\ Ty(k) # 1
        <5>1. d = [at |-> k, type |-> Ty(k) - 1, stop |-> FALSE]
            BY <2>2, <3>1, <3>2, <3>4, <4>2 DEF Visit
        <5> QED BY <2>1, <4>1, <4>2, <5>1
      <4>3. CASE ~(md = "LESSEQUAL" /\ Ty(k) # 1)
        <5>1. d = [at |-> k, type |-> a.type, stop |-> TRUE]
            BY <2>2, <3>1, <3>2, <3>4, <4>3 DEF Visit
        <5> QED BY <2>1, <4>1, <4>3, <5>1
      <4> QED BY <4>2, <4>3
    <3> QED BY <3>3, <3>4
  <2>6. CASE Some(i)
    <3> DEFINE z == a.at
    <3>1. z \in 1 .. i /\ Wants(r, list[z]) /\ Ty(z) \in Nat /\ Ty(z) >= 1
        BY <2>4, <2>6 DEF BestOf
    <3>2. CASE a.stop \/ ~testmsg(list[k], a.type, md)
      <4>1. d = a
        BY <2>2, <3>2 DEF Visit
      <4>2. md = "LESSEQUAL" => Ty(z) <= Ty(k)
        <5>1. CASE md = "LESSEQUAL" /\ a.stop
            BY <2>4, <2>6, <5>1
        <5>2. CASE md = "LESSEQUAL" /\ ~a.stop
          <6>1. ~(Ty(k) <= a.type) /\ a.type = Ty(z) - 1
            BY <2>6, <3>2, <5>2 DEF testmsg
          <6> QED BY <2>3, <2>4, <3>1, <6>1
        <5> QED BY <5>1, <5>2
      <4>3. BestOf(list, r, k, z)
        <5>1. BestOf(list, r, i, z)
            BY <2>6
        <5>2. z <= k /\ z \in 1 .. k
            BY <2>1, <3>1
        <5> HIDE DEF z, k, a
        <5>3. \A j \in 1 .. k : Wants(r, list[j]) =>
                IF md = "LESSEQUAL" THEN Ty(z) <= Ty(j) /\ (j < z => Ty(z) < Ty(j)) ELSE z <= j
          <6> SUFFICES ASSUME NEW j \in 1 .. k, Wants(r, list[j])
                       PROVE IF md = "LESSEQUAL" THEN Ty(z) <= Ty(j) /\ (j < z => Ty(z) < Ty(j)) ELSE z <= j
            OBVIOUS
          <6>1. CASE j = k
            BY <2>1, <3>1, <4>2, <5>2, <6>1
          <6>2. CASE j # k
            BY <2>1, <5>1, <6>2 DEF BestOf
          <6> QED BY <6>1, <6>2
        <5> QED BY <3>1, <5>2, <5>3 DEF BestOf
      <4> QED BY <2>1, <2>6, <4>1, <4>3
    <3>3. CASE ~a.stop /\ testmsg(list[k], a.type, md)
      <4>1. md = "LESSEQUAL" /\ a.type = Ty(z) - 1
        BY <2>6, <3>3
      <4>2. Ty(k) < Ty(z)
        BY <2>4, <3>1, <3>3, <4>1 DEF testmsg
      <4>3. Wants(r, list[k])
        <5>1. Ty(z) <= SearchType(r)
            BY <3>1, <4>1 DEF Wants, testmsg
        <5> QED BY <1>m, <2>4, <3>1, <4>1, <4>2, <5>1 DEF Wants, testmsg
      <4>4. BestOf(list, r, k, k)
        <5>1. \A j \in 1 .. i : Wants(r, list[j]) => Ty(k) < Ty(j)
          <6> SUFFICES ASSUME NEW j \in 1 .. i, Wants(r, list[j]) PROVE Ty(k) < Ty(j)
            OBVIOUS
          <6>1. Ty(z) <= Ty(j)
            BY <2>6, <4>1 DEF BestOf
          <6> QED BY <2>4, <3>1, <4>2, <6>1, SMTT(30)
        <5> QED BY <2>1, <2>4, <4>1, <4>3, <5>1 DEF BestOf
      <4>5. CASE Ty(k) # 1
        <5>1. d = [at |-> k, type |-> Ty(k) - 1, stop |-> FALSE]
            BY <2>2, <3>3, <4>1, <4>5 DEF Visit
        <5> QED BY <2>1, <4>1, <4>4, <5>1
      <4>6. CASE Ty(k) = 1
        <5>1. d = [at |-> k, type |-> a.type, stop |-> TRUE]
            BY <2>2, <3>3, <4>1, <4>6 DEF Visit
        <5> QED BY <2>1, <4>1, <4>4, <4>6, <5>1
      <4> QED BY <4>5, <4>6
    <3> QED BY <2>3, <3>2, <3>3
  <2> QED BY <1>3, <2>5, <2>6
<1> HIDE DEF P
<1>4. \A i \in 0 .. n : i \in P
  BY <1>n, <1>2, <1>3, StepInduction
<1>5. n \in P
  BY <1>n, <1>4
<1> QED BY <1>1, <1>n, <1>5 DEF P, FirstCursor

(* testmsg() with the mode and type of convert_mode() accepts the messages *)
(* that msgrcv() asks for, but for the type whose sign cannot be dropped.  *)
LEMMA WantsEligible ==
    ASSUME NEW r \in RequestSet, r.msgtyp # LONG_MIN, NEW m \in Msgs
    PROVE  /\ Wants(r, m) <=> Eligible(r, m)
           /\ convert_mode(r) = "LESSEQUAL" <=> r.msgtyp < 0
<1>1. /\ r.msgtyp \in Int /\ r.except \in BOOLEAN /\ LONG_MIN \in Int /\ LONG_MIN < 0
      /\ MType[m] \in Nat
  BY MessageAssumption DEF RequestSet
<1>2. CASE r.msgtyp = 0
  BY <1>1, <1>2 DEF convert_mode, Eligible, Wants, testmsg
<1>3. CASE r.msgtyp < 0
  BY <1>1, <1>3 DEF convert_mode, SearchType, Eligible, Wants, testmsg
<1>4. CASE r.msgtyp > 0
  BY <1>1, <1>4 DEF convert_mode, SearchType, Eligible, Wants, testmsg
<1> QED BY <1>1, <1>2, <1>3, <1>4

(* On a list of any length the walk of do_msgrcv(), which narrows msgtyp   *)
(* as it goes, stops at the first message of the least eligible type (for  *)
(* msgtyp < 0) or at the first eligible one, and at none only when there   *)
(* is none.                                                                *)
THEOREM SearchCorrect ==
    ASSUME NEW list \in Seq(Msgs), NEW r \in RequestSet, r.msgtyp # LONG_MIN
    PROVE  FindsBest(list, r)
<1> DEFINE i == FindMsg(list, r)
           n == Len(list)
<1>n. n \in Nat /\ DOMAIN list = 1 .. n /\ \A j \in 1 .. n : list[j] \in Msgs /\ MType[list[j]] \in Nat
  BY MessageAssumption
<1>m. \A j \in 1 .. n : Wants(r, list[j]) <=> Eligible(r, list[j])
  BY <1>n, WantsEligible
<1>1. CASE i = 0 /\ \A j \in DOMAIN list : ~Wants(r, list[j])
  BY <1>n, <1>m, <1>1 DEF FindsBest
<1>2. CASE BestOf(list, r, n, i)
  <2>1. i \in DOMAIN list /\ Eligible(r, list[i])
    BY <1>n, <1>m, <1>2 DEF BestOf
  <2>2. ASSUME NEW j \in DOMAIN list, Eligible(r, list[j])
        PROVE  ~Better(r, list[j], list[i]) /\ (j < i => Better(r, list[i], list[j]))
    <3>1. IF convert_mode(r) = "LESSEQUAL"
          THEN MType[list[i]] <= MType[list[j]] /\ (j < i => MType[list[i]] < MType[list[j]])
          ELSE i <= j
        BY <1>n, <1>m, <1>2, <2>2 DEF BestOf
    <3>2. convert_mode(r) = "LESSEQUAL" <=> r.msgtyp < 0
        BY <1>n, <2>1, WantsEligible
    <3> HIDE DEF i
    <3> QED BY <1>n, <2>1, <3>1, <3>2 DEF Better
  <2>3. IsBest(list, r, i)
    BY <2>1, <2>2 DEF IsBest
  <2> QED BY <2>1, <2>3 DEF FindsBest
<1> QED BY <1>1, <1>2, FindsWanted

-----------------------------------------------------------------------------
(* The lists, counters and messages.                                       *)

(* list_add_tail(), position by position.                                  *)
LEMMA AppendAt ==
    ASSUME NEW S, NEW s \in Seq(S), NEW e \in S
    PROVE  /\ Append(s, e) \in Seq(S) /\ Len(Append(s, e)) = Len(s) + 1
           /\ DOMAIN s = 1 .. Len(s) /\ Len(s) \in Nat
           /\ DOMAIN Append(s, e) = DOMAIN s \cup {Len(s) + 1}
           /\ Append(s, e)[Len(s) + 1] = e
           /\ \A j \in DOMAIN s : Append(s, e)[j] = s[j] /\ j # Len(s) + 1
    OBVIOUS

(* q_senders lists the sleeping senders.                                   *)
LEMMA SenderStep ==
    ASSUME TypeOK, LockInv, CallInv, LifeInv, SenderInv, [Next]_vars
    PROVE  SenderInv'
<1> USE DEF SenderInv, HasSender, perm, queue, acct, rcu, life, args, walk
<1>t. /\ pc \in [Procs -> Labels] /\ NoProc \notin Procs /\ q_senders \in Seq(Procs)
      /\ deleted \in BOOLEAN /\ mem \in {"none", "live", "rcu", "freed"}
  BY ConstantsAssumption DEF TypeOK, TypeTask, TypeQueue
<1>s. CASE UNCHANGED vars
  BY <1>s, <1>t DEF vars
<1>1. ASSUME NEW p \in Procs, newque(p) PROVE SenderInv'
  <2>1. q_senders' = <<>> /\ DOMAIN q_senders' = {} /\ pc' = pc
    BY <1>1 DEF newque
  <2>2. \A q \in Procs : pc[q] \notin HasSender
    BY <1>1 DEF newque, LifeInv
  <2> QED BY <1>1, <2>1, <2>2 DEF newque
<1>2. ASSUME NEW p \in Procs, ipc_find(p) PROVE SenderInv'
  BY <1>2, <1>t DEF ipc_find, Goto, Return
<1>3. ASSUME NEW p \in Procs, ipc_lock_deleted(p) PROVE SenderInv'
  BY <1>3, <1>t DEF ipc_lock_deleted, LeaveRcu, Return, Goto
<1>4. ASSUME NEW p \in Procs, SyscallExit(p) PROVE SenderInv'
  BY <1>4, <1>t DEF SyscallExit, Goto
<1>5. ASSUME NEW p \in Procs, Signal(p) PROVE SenderInv'
  BY <1>5, <1>t DEF Signal
<1>6. CASE ipc_immediate_free
  BY <1>6, <1>t DEF ipc_immediate_free
<1>7. ASSUME NEW p \in Procs, msgsnd(p) PROVE SenderInv'
  BY <1>7, <1>t DEF msgsnd, Goto
<1>8. ASSUME NEW p \in Procs, snd_fail(p) PROVE SenderInv'
  BY <1>8, <1>t DEF snd_fail, AtTop, UnlockReturn, LeaveRcu, Return, Goto
<1>9. ASSUME NEW p \in Procs, snd_sleep(p) PROVE SenderInv'
  <2> DEFINE s == Append(q_senders, p)
  <2>1. pc[p] \in {"lock", "loop"} /\ ~deleted /\ ~deleted' /\ mem' = mem /\ q_senders' = s
    BY <1>9 DEF snd_sleep, AtTop
  <2>2. /\ DOMAIN s = DOMAIN q_senders \cup {Len(q_senders) + 1}
        /\ s[Len(q_senders) + 1] = p
        /\ \A j \in DOMAIN q_senders : s[j] = q_senders[j] /\ j # Len(q_senders) + 1
    BY <1>t, AppendAt
  <2>3. \A j \in DOMAIN q_senders : q_senders[j] # p
    BY <2>1
  <2>4. pc' = [pc EXCEPT ![p] = "ssleep"]
    BY <1>9 DEF snd_sleep, Goto
  <2>5. mem # "none"
    BY <2>1 DEF LifeInv
  <2> HIDE DEF s
  <2>6. \A i, j \in DOMAIN s : s[i] = s[j] => i = j
    BY <2>2, <2>3
  <2>7. ASSUME NEW q \in Procs
        PROVE  pc'[q] \in HasSender <=> \E i \in DOMAIN s : s[i] = q
    BY <1>t, <2>1, <2>2, <2>4
  <2> QED BY <2>1, <2>5, <2>6, <2>7
<1>10. ASSUME NEW p \in Procs, snd_relock(p) PROVE SenderInv'
  BY <1>10, <1>t DEF snd_relock, Goto
<1>11. ASSUME NEW p \in Procs, snd_putref(p) PROVE SenderInv'
  BY <1>11, <1>t DEF snd_putref, PutStore, Goto
<1>12. ASSUME NEW p \in Procs, snd_awake(p) PROVE SenderInv'
  <2>1. CASE deleted
    <3>1. UNCHANGED <<q_senders, mem, deleted>>
        BY <1>12, <2>1 DEF snd_awake
    <3> QED BY <2>1, <3>1
  <2>2. CASE ~deleted
    <3>1. PICK i \in DOMAIN q_senders :
                  q_senders[i] = p /\ q_senders' = RemoveAt(q_senders, i)
        BY <1>12, <2>2 DEF snd_awake
    <3> DEFINE s == RemoveAt(q_senders, i)
    <3>2. /\ \A k \in DOMAIN s : s[k] # p /\ \E j \in DOMAIN q_senders : s[k] = q_senders[j]
          /\ \A j \in DOMAIN q_senders : j # i => \E k \in DOMAIN s : s[k] = q_senders[j]
          /\ \A j, k \in DOMAIN s : s[j] = s[k] => j = k
        BY <1>t, <3>1, RemoveAtEntries
    <3>3. /\ pc[p] = "awake" /\ mem' = mem /\ deleted' = deleted
          /\ pc' = [pc EXCEPT ![p] = "ret"] \/ pc' = [pc EXCEPT ![p] = "loop"]
        BY <1>12, <2>2 DEF snd_awake, UnlockReturn, Return, Goto
    <3>4. mem # "none"
        BY <3>3 DEF LifeInv
    <3> HIDE DEF s
    <3>5. ASSUME NEW q \in Procs
          PROVE  pc'[q] \in HasSender <=> \E k \in DOMAIN s : s[k] = q
      <4>1. CASE q = p
        BY <1>t, <3>2, <3>3, <4>1
      <4>2. CASE q # p
        <5>1. pc'[q] = pc[q]
            BY <1>t, <3>3, <4>2
        <5> QED BY <2>2, <3>1, <3>2, <4>2, <5>1
      <4> QED BY <4>1, <4>2
    <3>6. q_senders' = s
        BY <3>1 DEF s
    <3> QED BY <2>2, <3>2, <3>3, <3>4, <3>5, <3>6
  <2> QED BY <1>t, <2>1, <2>2
<1>13. ASSUME NEW p \in Procs, snd_start(p) PROVE SenderInv'
  BY <1>13, <1>t DEF snd_start, AtTop, Goto
<1>14. ASSUME NEW p \in Procs, pipelined_send(p) PROVE SenderInv'
  BY <1>14, <1>t DEF pipelined_send, Goto
<1>15. ASSUME NEW p \in Procs, wake_receiver(p) PROVE SenderInv'
  BY <1>15, <1>t DEF wake_receiver, Goto, Woken
<1>16. ASSUME NEW p \in Procs, deliver(p) PROVE SenderInv'
  BY <1>16, <1>t DEF deliver, Goto
<1>17. ASSUME NEW p \in Procs, snd_done(p) PROVE SenderInv'
  BY <1>17, <1>t DEF snd_done, UnlockReturn, LeaveRcu, Return, Goto
<1>18. ASSUME NEW p \in Procs, msgrcv(p) PROVE SenderInv'
  BY <1>18, <1>t DEF msgrcv, Goto
<1>19. ASSUME NEW p \in Procs, rcv_fail(p) PROVE SenderInv'
  BY <1>19, <1>t DEF rcv_fail, AtTop, UnlockReturn, LeaveRcu, Return, Goto
<1>20. ASSUME NEW p \in Procs, rcv_dequeue(p) PROVE SenderInv'
  BY <1>20, <1>t DEF rcv_dequeue, AtTop, Unlink, LeaveRcu, Goto, Woken
<1>21. ASSUME NEW p \in Procs, rcv_sleep(p) PROVE SenderInv'
  BY <1>21, <1>t DEF rcv_sleep, AtTop, LeaveRcu, Goto
<1>22. ASSUME NEW p \in Procs, rcv_wake(p) PROVE SenderInv'
  BY <1>22, <1>t DEF rcv_wake, Goto
<1>23. ASSUME NEW p \in Procs, rcv_spin(p) PROVE SenderInv'
  BY <1>23, <1>t DEF rcv_spin, Accept, LeaveRcu, Return, Goto
<1>24. ASSUME NEW p \in Procs, rcv_relock(p) PROVE SenderInv'
  BY <1>24, <1>t DEF rcv_relock, Accept, UnlockReturn, LeaveRcu, Return, Goto
<1>25. ASSUME NEW p \in Procs, rcv_copy(p) PROVE SenderInv'
  BY <1>25, <1>t DEF rcv_copy, Return, Goto
<1>26. ASSUME NEW p \in Procs, msgctl(p) PROVE SenderInv'
  BY <1>26, <1>t DEF msgctl, Goto
<1>27. ASSUME NEW p \in Procs, ctl_fail(p) PROVE SenderInv'
  BY <1>27, <1>t DEF ctl_fail, UnlockReturn, LeaveRcu, Return, Goto
<1>28. ASSUME NEW p \in Procs, ctl_start(p) PROVE SenderInv'
  BY <1>28, <1>t DEF ctl_start, Goto
<1>29. ASSUME NEW p \in Procs, expunge_next(p) PROVE SenderInv'
  BY <1>29, <1>t DEF expunge_next, Goto
<1>30. ASSUME NEW p \in Procs, expunge_set(p) PROVE SenderInv'
  BY <1>30, <1>t DEF expunge_set, Goto
<1>31. ASSUME NEW p \in Procs, ctl_set_done(p) PROVE SenderInv'
  BY <1>31, <1>t DEF ctl_set_done, Woken, UnlockReturn, LeaveRcu, Return, Goto
<1>32. ASSUME NEW p \in Procs, freeque_rmid(p) PROVE SenderInv'
  <2>1. q_senders' = <<>> /\ DOMAIN q_senders' = {} /\ deleted'
    BY <1>32 DEF freeque_rmid
  <2> QED BY <2>1
<1>33. ASSUME NEW p \in Procs, freeque_drain(p) PROVE SenderInv'
  BY <1>33, <1>t DEF freeque_drain, Goto
<1>34. ASSUME NEW p \in Procs, freeque_putref(p) PROVE SenderInv'
  BY <1>34, <1>t DEF freeque_putref, PutStore, Return, Goto
<1> QED BY <1>s, <1>1, <1>2, <1>3, <1>4, <1>5, <1>6, <1>7, <1>8, <1>9, <1>10, <1>11, <1>12, <1>13,
  <1>14, <1>15, <1>16, <1>17, <1>18, <1>19, <1>20, <1>21, <1>22, <1>23, <1>24, <1>25, <1>26, <1>27,
  <1>28, <1>29, <1>30, <1>31, <1>32, <1>33, <1>34 DEF Next, KernelStep, Procs

(* rw_mutex belongs to the msgctl() in progress.                           *)
LEMMA MutexStep ==
    ASSUME TypeOK, CallInv, MutexInv, [Next]_vars
    PROVE  MutexInv'
<1> USE DEF MutexInv, CallInv, perm, queue, acct, rcu, life, args, walk
<1>t. /\ pc \in [Procs -> Labels] /\ NoProc \notin Procs
      /\ cmd \in [Procs -> {"none", "SND", "RCV", "SET", "RMID"}]
  BY ConstantsAssumption DEF TypeOK, TypeTask
<1>s. CASE UNCHANGED vars
  BY <1>s, <1>t DEF vars
<1>1. ASSUME NEW p \in Procs, newque(p) PROVE MutexInv'
  BY <1>1, <1>t DEF newque
<1>2. ASSUME NEW p \in Procs, ipc_find(p) PROVE MutexInv'
  BY <1>2, <1>t DEF ipc_find, Goto, Return
<1>3. ASSUME NEW p \in Procs, ipc_lock_deleted(p) PROVE MutexInv'
  BY <1>3, <1>t DEF ipc_lock_deleted, LeaveRcu, Return, Goto
<1>4. ASSUME NEW p \in Procs, SyscallExit(p) PROVE MutexInv'
  BY <1>4, <1>t DEF SyscallExit, Goto
<1>5. ASSUME NEW p \in Procs, Signal(p) PROVE MutexInv'
  BY <1>5, <1>t DEF Signal
<1>6. CASE ipc_immediate_free
  BY <1>6, <1>t DEF ipc_immediate_free
<1>7. ASSUME NEW p \in Procs, msgsnd(p) PROVE MutexInv'
  BY <1>7, <1>t DEF msgsnd, Goto
<1>8. ASSUME NEW p \in Procs, snd_fail(p) PROVE MutexInv'
  BY <1>8, <1>t DEF snd_fail, AtTop, UnlockReturn, LeaveRcu, Return, Goto
<1>9. ASSUME NEW p \in Procs, snd_sleep(p) PROVE MutexInv'
  BY <1>9, <1>t DEF snd_sleep, AtTop, ipc_rcu_getref, LeaveRcu, Goto
<1>10. ASSUME NEW p \in Procs, snd_relock(p) PROVE MutexInv'
  BY <1>10, <1>t DEF snd_relock, Goto
<1>11. ASSUME NEW p \in Procs, snd_putref(p) PROVE MutexInv'
  BY <1>11, <1>t DEF snd_putref, PutStore, Goto
<1>12. ASSUME NEW p \in Procs, snd_awake(p) PROVE MutexInv'
  BY <1>12, <1>t DEF snd_awake, UnlockReturn, LeaveRcu, Return, Goto
<1>13. ASSUME NEW p \in Procs, snd_start(p) PROVE MutexInv'
  BY <1>13, <1>t DEF snd_start, AtTop, Goto
<1>14. ASSUME NEW p \in Procs, pipelined_send(p) PROVE MutexInv'
  BY <1>14, <1>t DEF pipelined_send, Goto
<1>15. ASSUME NEW p \in Procs, wake_receiver(p) PROVE MutexInv'
  BY <1>15, <1>t DEF wake_receiver, Goto, Woken
<1>16. ASSUME NEW p \in Procs, deliver(p) PROVE MutexInv'
  BY <1>16, <1>t DEF deliver, Goto
<1>17. ASSUME NEW p \in Procs, snd_done(p) PROVE MutexInv'
  BY <1>17, <1>t DEF snd_done, UnlockReturn, LeaveRcu, Return, Goto
<1>18. ASSUME NEW p \in Procs, msgrcv(p) PROVE MutexInv'
  BY <1>18, <1>t DEF msgrcv, Goto
<1>19. ASSUME NEW p \in Procs, rcv_fail(p) PROVE MutexInv'
  BY <1>19, <1>t DEF rcv_fail, AtTop, UnlockReturn, LeaveRcu, Return, Goto
<1>20. ASSUME NEW p \in Procs, rcv_dequeue(p) PROVE MutexInv'
  BY <1>20, <1>t DEF rcv_dequeue, AtTop, Unlink, LeaveRcu, Goto, Woken
<1>21. ASSUME NEW p \in Procs, rcv_sleep(p) PROVE MutexInv'
  BY <1>21, <1>t DEF rcv_sleep, AtTop, LeaveRcu, Goto
<1>22. ASSUME NEW p \in Procs, rcv_wake(p) PROVE MutexInv'
  BY <1>22, <1>t DEF rcv_wake, Goto
<1>23. ASSUME NEW p \in Procs, rcv_spin(p) PROVE MutexInv'
  BY <1>23, <1>t DEF rcv_spin, Accept, LeaveRcu, Return, Goto
<1>24. ASSUME NEW p \in Procs, rcv_relock(p) PROVE MutexInv'
  BY <1>24, <1>t DEF rcv_relock, Accept, UnlockReturn, LeaveRcu, Return, Goto
<1>25. ASSUME NEW p \in Procs, rcv_copy(p) PROVE MutexInv'
  BY <1>25, <1>t DEF rcv_copy, Return, Goto
<1>26. ASSUME NEW p \in Procs, msgctl(p) PROVE MutexInv'
  BY <1>26, <1>t DEF msgctl, Goto
<1>27. ASSUME NEW p \in Procs, ctl_fail(p) PROVE MutexInv'
  BY <1>27, <1>t DEF ctl_fail, UnlockReturn, LeaveRcu, Return, Goto
<1>28. ASSUME NEW p \in Procs, ctl_start(p) PROVE MutexInv'
  BY <1>28, <1>t DEF ctl_start, Goto
<1>29. ASSUME NEW p \in Procs, expunge_next(p) PROVE MutexInv'
  BY <1>29, <1>t DEF expunge_next, Goto
<1>30. ASSUME NEW p \in Procs, expunge_set(p) PROVE MutexInv'
  BY <1>30, <1>t DEF expunge_set, Goto
<1>31. ASSUME NEW p \in Procs, ctl_set_done(p) PROVE MutexInv'
  BY <1>31, <1>t DEF ctl_set_done, Woken, UnlockReturn, LeaveRcu, Return, Goto
<1>32. ASSUME NEW p \in Procs, freeque_rmid(p) PROVE MutexInv'
  BY <1>32, <1>t DEF freeque_rmid, Woken, LeaveRcu, Goto
<1>33. ASSUME NEW p \in Procs, freeque_drain(p) PROVE MutexInv'
  BY <1>33, <1>t DEF freeque_drain, Goto
<1>34. ASSUME NEW p \in Procs, freeque_putref(p) PROVE MutexInv'
  BY <1>34, <1>t DEF freeque_putref, PutStore, Return, Goto
<1> QED BY <1>s, <1>1, <1>2, <1>3, <1>4, <1>5, <1>6, <1>7, <1>8, <1>9, <1>10, <1>11, <1>12, <1>13,
  <1>14, <1>15, <1>16, <1>17, <1>18, <1>19, <1>20, <1>21, <1>22, <1>23, <1>24, <1>25, <1>26, <1>27,
  <1>28, <1>29, <1>30, <1>31, <1>32, <1>33, <1>34 DEF Next, KernelStep, Procs

(* Nobody sleeps beside room, but for the time ss_wakeup() takes to come.  *)
LEMMA RoomStep ==
    ASSUME TypeOK, LockInv, CallInv, LifeInv, SenderInv, RoomInv, [Next]_vars
    PROVE  RoomInv'
<1> USE DEF RoomInv, perm, queue, acct, rcu, life, args, walk
<1>t. /\ pc \in [Procs -> Labels] /\ NoProc \notin Procs
      /\ cmd \in [Procs -> {"none", "SND", "RCV", "SET", "RMID"}]
      /\ hold \in [Procs -> Msgs \cup {NoMsg}] /\ state \in [Procs -> {"RUN", "INT"}]
      /\ q_senders \in Seq(Procs) /\ MSize \in [Msgs -> Nat]
      /\ q_cbytes \in Int /\ q_qnum \in Int /\ q_qbytes \in Nat
  BY ConstantsAssumption, MessageAssumption DEF TypeOK, TypeTask, TypeQueue
<1>s. CASE UNCHANGED vars
  BY <1>s, <1>t DEF vars, Fits, CallInv
<1>1. ASSUME NEW p \in Procs, newque(p) PROVE RoomInv'
  <2>1. \A q \in Procs : pc'[q] # "ssleep"
    BY <1>1 DEF newque, LifeInv
  <2> QED BY <2>1
<1>2. ASSUME NEW p \in Procs, ipc_find(p) PROVE RoomInv'
  BY <1>2, <1>t DEF ipc_find, Goto, Return, Fits, CallInv
<1>3. ASSUME NEW p \in Procs, ipc_lock_deleted(p) PROVE RoomInv'
  BY <1>3, <1>t DEF ipc_lock_deleted, LeaveRcu, Return, Goto, Fits, CallInv
<1>4. ASSUME NEW p \in Procs, SyscallExit(p) PROVE RoomInv'
  BY <1>4, <1>t DEF SyscallExit, Goto, Fits, CallInv
<1>5. ASSUME NEW p \in Procs, Signal(p) PROVE RoomInv'
  BY <1>5, <1>t DEF Signal, Fits, CallInv
<1>6. CASE ipc_immediate_free
  BY <1>6, <1>t DEF ipc_immediate_free, Fits, CallInv
<1>7. ASSUME NEW p \in Procs, msgsnd(p) PROVE RoomInv'
  BY <1>7, <1>t DEF msgsnd, Goto, Fits, CallInv
<1>8. ASSUME NEW p \in Procs, snd_fail(p) PROVE RoomInv'
  BY <1>8, <1>t DEF snd_fail, AtTop, UnlockReturn, LeaveRcu, Return, Goto, Fits, CallInv
<1>9. ASSUME NEW p \in Procs, snd_sleep(p) PROVE RoomInv'
  BY <1>9, <1>t DEF snd_sleep, AtTop, ipc_rcu_getref, LeaveRcu, Goto, Fits, CallInv
<1>10. ASSUME NEW p \in Procs, snd_relock(p) PROVE RoomInv'
  BY <1>10, <1>t DEF snd_relock, Goto, Fits, CallInv
<1>11. ASSUME NEW p \in Procs, snd_putref(p) PROVE RoomInv'
  BY <1>11, <1>t DEF snd_putref, PutStore, Goto, Fits, CallInv
<1>12. ASSUME NEW p \in Procs, snd_awake(p) PROVE RoomInv'
  BY <1>12, <1>t DEF snd_awake, UnlockReturn, LeaveRcu, Return, Goto, Fits, CallInv
<1>13. ASSUME NEW p \in Procs, snd_start(p) PROVE RoomInv'
  BY <1>13, <1>t DEF snd_start, AtTop, Goto, Fits, CallInv
<1>14. ASSUME NEW p \in Procs, pipelined_send(p) PROVE RoomInv'
  <2>1. CASE UNCHANGED <<queue, acct, hold>>
    BY <1>14, <1>t, <2>1 DEF pipelined_send, Goto, Fits
  <2>2. CASE /\ q_cbytes' = q_cbytes + MSize[hold[p]]
             /\ q_qnum' = q_qnum + 1
             /\ hold' = [hold EXCEPT ![p] = NoMsg]
             /\ Goto(p, "unlk")
    <3>1. hold[p] \in Msgs /\ MSize[hold[p]] \in Nat
        BY <1>14, <1>t DEF pipelined_send, CallInv
    <3>2. /\ UNCHANGED <<deleted, q_qbytes, state, cmd>> /\ pc[p] = "scan" /\ cmd[p] = "SND"
        BY <1>14 DEF pipelined_send
    <3>3. \A s \in Procs : pc'[s] = "ssleep" => pc[s] = "ssleep" /\ hold'[s] = hold[s] /\ hold[s] \in Msgs
        BY <1>t, <2>2, <3>2 DEF Goto, CallInv
    <3>4. \A s \in Procs : pc[s] \in {"walk", "wake", "set"} /\ cmd[s] = "SET" => pc'[s] = pc[s]
        BY <1>t, <2>2, <3>2 DEF Goto
    <3>5. \A m \in Msgs : ~Fits(m) => ~Fits(m)'
        BY <1>t, <2>2, <3>1, <3>2 DEF Fits
    <3> QED BY <1>t, <3>2, <3>3, <3>4, <3>5 DEF Fits
  <2> QED BY <1>14, <2>1, <2>2 DEF pipelined_send
<1>15. ASSUME NEW p \in Procs, wake_receiver(p) PROVE RoomInv'
  BY <1>15, <1>t DEF wake_receiver, Goto, Woken, Fits, CallInv
<1>16. ASSUME NEW p \in Procs, deliver(p) PROVE RoomInv'
  BY <1>16, <1>t DEF deliver, Goto, Fits, CallInv
<1>17. ASSUME NEW p \in Procs, snd_done(p) PROVE RoomInv'
  BY <1>17, <1>t DEF snd_done, UnlockReturn, LeaveRcu, Return, Goto, Fits, CallInv
<1>18. ASSUME NEW p \in Procs, msgrcv(p) PROVE RoomInv'
  BY <1>18, <1>t DEF msgrcv, Goto, Fits, CallInv
<1>19. ASSUME NEW p \in Procs, rcv_fail(p) PROVE RoomInv'
  BY <1>19, <1>t DEF rcv_fail, AtTop, UnlockReturn, LeaveRcu, Return, Goto, Fits, CallInv
<1>20. ASSUME NEW p \in Procs, rcv_dequeue(p) PROVE RoomInv'
  <2>1. \A s \in Procs : pc[s] = "ssleep" => s \in ToSet(q_senders)
    BY <1>20 DEF SenderInv, HasSender, CallInv, ToSet, rcv_dequeue
  <2>2. \A s \in Procs : pc[s] = "ssleep" => state'[s] = "RUN"
    BY <1>20, <2>1 DEF rcv_dequeue, Woken
  <2>3. \A s \in Procs : pc'[s] = "ssleep" => pc[s] = "ssleep"
    BY <1>20, <1>t DEF rcv_dequeue, AtTop, Unlink, LeaveRcu, Goto, Woken
  <2> QED BY <2>2, <2>3
<1>21. ASSUME NEW p \in Procs, rcv_sleep(p) PROVE RoomInv'
  BY <1>21, <1>t DEF rcv_sleep, AtTop, LeaveRcu, Goto, Fits, CallInv
<1>22. ASSUME NEW p \in Procs, rcv_wake(p) PROVE RoomInv'
  BY <1>22, <1>t DEF rcv_wake, Goto, Fits, CallInv
<1>23. ASSUME NEW p \in Procs, rcv_spin(p) PROVE RoomInv'
  BY <1>23, <1>t DEF rcv_spin, Accept, LeaveRcu, Return, Goto, Fits, CallInv
<1>24. ASSUME NEW p \in Procs, rcv_relock(p) PROVE RoomInv'
  BY <1>24, <1>t DEF rcv_relock, Accept, UnlockReturn, LeaveRcu, Return, Goto, Fits, CallInv
<1>25. ASSUME NEW p \in Procs, rcv_copy(p) PROVE RoomInv'
  BY <1>25, <1>t DEF rcv_copy, Return, Goto, Fits, CallInv
<1>26. ASSUME NEW p \in Procs, msgctl(p) PROVE RoomInv'
  BY <1>26, <1>t DEF msgctl, Goto, Fits, CallInv
<1>27. ASSUME NEW p \in Procs, ctl_fail(p) PROVE RoomInv'
  BY <1>27, <1>t DEF ctl_fail, UnlockReturn, LeaveRcu, Return, Goto, Fits, CallInv
<1>28. ASSUME NEW p \in Procs, ctl_start(p) PROVE RoomInv'
  BY <1>28, <1>t DEF ctl_start, Goto, Fits, CallInv
<1>29. ASSUME NEW p \in Procs, expunge_next(p) PROVE RoomInv'
  BY <1>29, <1>t DEF expunge_next, Goto, Fits, CallInv
<1>30. ASSUME NEW p \in Procs, expunge_set(p) PROVE RoomInv'
  BY <1>30, <1>t DEF expunge_set, Goto, Fits, CallInv
<1>31. ASSUME NEW p \in Procs, ctl_set_done(p) PROVE RoomInv'
  <2>1. \A s \in Procs : pc[s] = "ssleep" => s \in ToSet(q_senders)
    BY <1>31 DEF SenderInv, HasSender, LifeInv, ToSet, ctl_set_done
  <2>2. \A s \in Procs : pc[s] = "ssleep" => state'[s] = "RUN"
    BY <1>31, <2>1 DEF ctl_set_done, Woken
  <2>3. \A s \in Procs : pc'[s] = "ssleep" => pc[s] = "ssleep"
    BY <1>31, <1>t DEF ctl_set_done, Woken, UnlockReturn, LeaveRcu, Return, Goto
  <2> QED BY <2>2, <2>3
<1>32. ASSUME NEW p \in Procs, freeque_rmid(p) PROVE RoomInv'
  BY <1>32 DEF freeque_rmid
<1>33. ASSUME NEW p \in Procs, freeque_drain(p) PROVE RoomInv'
  BY <1>33, <1>t DEF freeque_drain, Goto, Fits, CallInv
<1>34. ASSUME NEW p \in Procs, freeque_putref(p) PROVE RoomInv'
  BY <1>34, <1>t DEF freeque_putref, PutStore, Return, Goto, Fits, CallInv
<1> QED BY <1>s, <1>1, <1>2, <1>3, <1>4, <1>5, <1>6, <1>7, <1>8, <1>9, <1>10, <1>11, <1>12, <1>13,
  <1>14, <1>15, <1>16, <1>17, <1>18, <1>19, <1>20, <1>21, <1>22, <1>23, <1>24, <1>25, <1>26, <1>27,
  <1>28, <1>29, <1>30, <1>31, <1>32, <1>33, <1>34 DEF Next, KernelStep, Procs

(* Messages are in the hands of those who deal with them.                  *)
LEMMA HoldStep ==
    ASSUME TypeOK, CallInv, MutexInv, ReceiverInv, HoldInv, [Next]_vars
    PROVE  HoldInv'
<1> USE DEF HoldInv, HasFrame, CallInv, MutexInv, Codes, perm, queue, acct, rcu, life, args, walk
<1>t. /\ pc \in [Procs -> Labels] /\ NoProc \notin Procs
      /\ cmd \in [Procs -> {"none", "SND", "RCV", "SET", "RMID"}]
      /\ hold \in [Procs -> Msgs \cup {NoMsg}] /\ r_msg \in [Procs -> Msgs \cup Codes]
      /\ q_receivers \in Seq(Procs) /\ Msgs \cap Codes = {} /\ NoMsg \notin Msgs
  BY ConstantsAssumption DEF TypeOK, TypeTask, TypeQueue
<1>s. CASE UNCHANGED vars
  BY <1>s, <1>t DEF vars
<1>1. ASSUME NEW p \in Procs, newque(p) PROVE HoldInv'
  BY <1>1, <1>t DEF newque
<1>2. ASSUME NEW p \in Procs, ipc_find(p) PROVE HoldInv'
  BY <1>2, <1>t DEF ipc_find, Goto, Return
<1>3. ASSUME NEW p \in Procs, ipc_lock_deleted(p) PROVE HoldInv'
  BY <1>3, <1>t DEF ipc_lock_deleted, LeaveRcu, Return, Goto
<1>4. ASSUME NEW p \in Procs, SyscallExit(p) PROVE HoldInv'
  BY <1>4, <1>t DEF SyscallExit, Goto
<1>5. ASSUME NEW p \in Procs, Signal(p) PROVE HoldInv'
  BY <1>5, <1>t DEF Signal
<1>6. CASE ipc_immediate_free
  BY <1>6, <1>t DEF ipc_immediate_free
<1>7. ASSUME NEW p \in Procs, msgsnd(p) PROVE HoldInv'
  BY <1>7, <1>t DEF msgsnd, Goto
<1>8. ASSUME NEW p \in Procs, snd_fail(p) PROVE HoldInv'
  BY <1>8, <1>t DEF snd_fail, AtTop, UnlockReturn, LeaveRcu, Return, Goto
<1>9. ASSUME NEW p \in Procs, snd_sleep(p) PROVE HoldInv'
  BY <1>9, <1>t DEF snd_sleep, AtTop, ipc_rcu_getref, LeaveRcu, Goto
<1>10. ASSUME NEW p \in Procs, snd_relock(p) PROVE HoldInv'
  BY <1>10, <1>t DEF snd_relock, Goto
<1>11. ASSUME NEW p \in Procs, snd_putref(p) PROVE HoldInv'
  BY <1>11, <1>t DEF snd_putref, PutStore, Goto
<1>12. ASSUME NEW p \in Procs, snd_awake(p) PROVE HoldInv'
  BY <1>12, <1>t DEF snd_awake, UnlockReturn, LeaveRcu, Return, Goto
<1>13. ASSUME NEW p \in Procs, snd_start(p) PROVE HoldInv'
  BY <1>13, <1>t DEF snd_start, AtTop, Goto
<1>14. ASSUME NEW p \in Procs, pipelined_send(p) PROVE HoldInv'
  BY <1>14, <1>t DEF pipelined_send, Goto
<1>15. ASSUME NEW p \in Procs, wake_receiver(p) PROVE HoldInv'
  BY <1>15, <1>t DEF wake_receiver, Goto, Woken
<1>16. ASSUME NEW p \in Procs, deliver(p) PROVE HoldInv'
  <2>1. pc[p] = "set" /\ HasFrame(msr[p]) /\ msr[p] \in Procs /\ cmd[p] = "SND"
    BY <1>16 DEF deliver, ReceiverInv, WakerInv
  <2> QED BY <1>16, <1>t, <2>1 DEF deliver, Goto
<1>17. ASSUME NEW p \in Procs, snd_done(p) PROVE HoldInv'
  BY <1>17, <1>t DEF snd_done, UnlockReturn, LeaveRcu, Return, Goto
<1>18. ASSUME NEW p \in Procs, msgrcv(p) PROVE HoldInv'
  BY <1>18, <1>t DEF msgrcv, Goto
<1>19. ASSUME NEW p \in Procs, rcv_fail(p) PROVE HoldInv'
  BY <1>19, <1>t DEF rcv_fail, AtTop, UnlockReturn, LeaveRcu, Return, Goto
<1>20. ASSUME NEW p \in Procs, rcv_dequeue(p) PROVE HoldInv'
  BY <1>20, <1>t DEF rcv_dequeue, AtTop, Unlink, LeaveRcu, Goto, Woken
<1>21. ASSUME NEW p \in Procs, rcv_sleep(p) PROVE HoldInv'
  BY <1>21, <1>t DEF rcv_sleep, AtTop, LeaveRcu, Goto
<1>22. ASSUME NEW p \in Procs, rcv_wake(p) PROVE HoldInv'
  BY <1>22, <1>t DEF rcv_wake, Goto
<1>23. ASSUME NEW p \in Procs, rcv_spin(p) PROVE HoldInv'
  BY <1>23, <1>t DEF rcv_spin, Accept, LeaveRcu, Return, Goto
<1>24. ASSUME NEW p \in Procs, rcv_relock(p) PROVE HoldInv'
  BY <1>24, <1>t DEF rcv_relock, Accept, UnlockReturn, LeaveRcu, Return, Goto
<1>25. ASSUME NEW p \in Procs, rcv_copy(p) PROVE HoldInv'
  BY <1>25, <1>t DEF rcv_copy, Return, Goto
<1>26. ASSUME NEW p \in Procs, msgctl(p) PROVE HoldInv'
  BY <1>26, <1>t DEF msgctl, Goto
<1>27. ASSUME NEW p \in Procs, ctl_fail(p) PROVE HoldInv'
  BY <1>27, <1>t DEF ctl_fail, UnlockReturn, LeaveRcu, Return, Goto
<1>28. ASSUME NEW p \in Procs, ctl_start(p) PROVE HoldInv'
  BY <1>28, <1>t DEF ctl_start, Goto
<1>29. ASSUME NEW p \in Procs, expunge_next(p) PROVE HoldInv'
  BY <1>29, <1>t DEF expunge_next, Goto
<1>30. ASSUME NEW p \in Procs, expunge_set(p) PROVE HoldInv'
  BY <1>30, <1>t DEF expunge_set, Goto
<1>31. ASSUME NEW p \in Procs, ctl_set_done(p) PROVE HoldInv'
  BY <1>31, <1>t DEF ctl_set_done, Woken, UnlockReturn, LeaveRcu, Return, Goto
<1>32. ASSUME NEW p \in Procs, freeque_rmid(p) PROVE HoldInv'
  BY <1>32, <1>t DEF freeque_rmid, Woken, LeaveRcu, Goto
<1>33. ASSUME NEW p \in Procs, freeque_drain(p) PROVE HoldInv'
  BY <1>33, <1>t DEF freeque_drain, Goto
<1>34. ASSUME NEW p \in Procs, freeque_putref(p) PROVE HoldInv'
  BY <1>34, <1>t DEF freeque_putref, PutStore, Return, Goto
<1> QED BY <1>s, <1>1, <1>2, <1>3, <1>4, <1>5, <1>6, <1>7, <1>8, <1>9, <1>10, <1>11, <1>12, <1>13,
  <1>14, <1>15, <1>16, <1>17, <1>18, <1>19, <1>20, <1>21, <1>22, <1>23, <1>24, <1>25, <1>26, <1>27,
  <1>28, <1>29, <1>30, <1>31, <1>32, <1>33, <1>34 DEF Next, KernelStep, Procs

(* The bytes of a list, entry by entry.                                    *)
LEMMA SizeEmpty == SizeOf(<<>>) = 0
<1> DEFINE g == [i \in DOMAIN <<>> |-> MSize[<<>>[i]]]
<1>1. DOMAIN g = {}
  OBVIOUS
<1> HIDE DEF g
<1>2. SumFunctionOnSet(g, DOMAIN g) = 0
  BY <1>1, SumEmpty
<1> QED BY <1>2 DEF SizeOf, SumFunction, g

LEMMA SizeSum ==
    ASSUME NEW s \in Seq(Msgs)
    PROVE  /\ IsFiniteSet(DOMAIN s) /\ DOMAIN s = 1 .. Len(s) /\ Len(s) \in Nat
           /\ \E g \in [DOMAIN s -> Nat] :
                 /\ \A i \in DOMAIN s : g[i] = MSize[s[i]]
                 /\ SizeOf(s) = SumFunctionOnSet(g, DOMAIN s)
<1> DEFINE g == [i \in DOMAIN s |-> MSize[s[i]]]
<1>1. DOMAIN s = 1 .. Len(s) /\ Len(s) \in Nat
  OBVIOUS
<1>2. IsFiniteSet(DOMAIN s)
  BY <1>1, FS_Interval
<1>3. g \in [DOMAIN s -> Nat] /\ \A i \in DOMAIN s : g[i] = MSize[s[i]]
  BY MessageAssumption
<1>4. DOMAIN g = DOMAIN s
  OBVIOUS
<1>5. SizeOf(s) = SumFunctionOnSet(g, DOMAIN g)
  BY DEF SizeOf, SumFunction
<1> HIDE DEF g
<1> QED BY <1>1, <1>2, <1>3, <1>4, <1>5

LEMMA SizeType ==
    ASSUME NEW s \in Seq(Msgs)
    PROVE  SizeOf(s) \in Nat
<1>1. PICK g \in [DOMAIN s -> Nat] : SizeOf(s) = SumFunctionOnSet(g, DOMAIN s)
  BY SizeSum
<1> QED BY <1>1, SizeSum, SumNat

LEMMA SizeAppend ==
    ASSUME NEW s \in Seq(Msgs), NEW m \in Msgs
    PROVE  SizeOf(Append(s, m)) = SizeOf(s) + MSize[m]
<1> DEFINE t == Append(s, m)
           n == Len(s) + 1
<1>1. /\ t \in Seq(Msgs) /\ DOMAIN t = DOMAIN s \cup {n} /\ t[n] = m
      /\ \A j \in DOMAIN s : t[j] = s[j] /\ j # n
  OBVIOUS
<1> HIDE DEF t, n
<1>2. PICK g \in [DOMAIN s -> Nat] : /\ \A i \in DOMAIN s : g[i] = MSize[s[i]]
                                     /\ SizeOf(s) = SumFunctionOnSet(g, DOMAIN s)
  BY SizeSum
<1>3. PICK h \in [DOMAIN t -> Nat] : /\ \A i \in DOMAIN t : h[i] = MSize[t[i]]
                                     /\ SizeOf(t) = SumFunctionOnSet(h, DOMAIN t)
  BY <1>1, SizeSum
<1>4. IsFiniteSet(DOMAIN s) /\ IsFiniteSet(DOMAIN t)
  BY <1>1, SizeSum
<1>5. n \in DOMAIN t /\ DOMAIN t \ {n} = DOMAIN s
  BY <1>1
<1>6. SumFunctionOnSet(h, DOMAIN t) = h[n] + SumFunctionOnSet(h, DOMAIN s)
  <2>1. \A x \in DOMAIN t : h[x] \in Int
    OBVIOUS
  <2> QED BY <1>4, <1>5, <2>1, SumRemove, SMTT(30)
<1>7. SumFunctionOnSet(g, DOMAIN s) = SumFunctionOnSet(h, DOMAIN s)
  <2>1. \A x \in DOMAIN s : g[x] \in Int /\ g[x] = h[x]
    BY <1>1, <1>2, <1>3
  <2> QED BY <1>4, <2>1, SumCong
<1>8. h[n] = MSize[m] /\ MSize[m] \in Nat
  BY <1>1, <1>3, <1>5, MessageAssumption
<1>9. SizeOf(s) \in Nat
  BY SizeType
<1>10. SizeOf(t) = MSize[m] + SizeOf(s)
  BY <1>2, <1>3, <1>6, <1>7, <1>8
<1> QED BY <1>8, <1>9, <1>10 DEF t

LEMMA SizeRemoveAt ==
    ASSUME NEW s \in Seq(Msgs), NEW k \in DOMAIN s
    PROVE  SizeOf(RemoveAt(s, k)) = SizeOf(s) - MSize[s[k]]
<1> DEFINE t == RemoveAt(s, k)
           n == Len(s)
<1>1. /\ n \in Nat /\ k \in 1 .. n /\ DOMAIN s = 1 .. n
      /\ t \in Seq(Msgs) /\ Len(t) = n - 1
      /\ \A j \in 1 .. n - 1 : t[j] = IF j < k THEN s[j] ELSE s[j + 1]
  BY RemoveAtProps
<1>2. DOMAIN t = 1 .. n - 1
  BY <1>1
<1> HIDE DEF t, n
<1>3. PICK g \in [DOMAIN s -> Nat] : /\ \A i \in DOMAIN s : g[i] = MSize[s[i]]
                                     /\ SizeOf(s) = SumFunctionOnSet(g, DOMAIN s)
  BY SizeSum
<1>4. PICK h \in [DOMAIN t -> Nat] : /\ \A i \in DOMAIN t : h[i] = MSize[t[i]]
                                     /\ SizeOf(t) = SumFunctionOnSet(h, DOMAIN t)
  BY <1>1, SizeSum
<1>5. IsFiniteSet(DOMAIN s) /\ IsFiniteSet(DOMAIN t)
  BY <1>1, SizeSum
<1> DEFINE D == 1 .. n - 1
           e == [j \in D |-> IF j < k THEN j ELSE j + 1]
<1>e. \A j \in D : j \in Nat /\ 1 <= j /\ j <= n - 1 /\ e[j] = IF j < k THEN j ELSE j + 1
  BY <1>1
<1>d. \A j : j \in D <=> j \in Nat /\ 1 <= j /\ j <= n - 1
  BY <1>1
<1> HIDE DEF e, D
<1>a. /\ n \in Nat /\ k \in Nat /\ 1 <= k /\ k <= n
      /\ \A i : i \in DOMAIN s <=> i \in Nat /\ 1 <= i /\ i <= n
  BY <1>1
<1>6. /\ \A j \in D : e[j] \in DOMAIN s \ {k} /\ h[j] \in Int /\ h[j] = g[e[j]]
      /\ \A i, j \in D : e[i] = e[j] => i = j
  <2>1. ASSUME NEW j \in D
        PROVE  e[j] \in DOMAIN s \ {k} /\ h[j] \in Int /\ h[j] = g[e[j]]
    <3>1. e[j] \in DOMAIN s \ {k}
      <4>1. CASE j < k
        BY <1>a, <1>e, <4>1
      <4>2. CASE ~(j < k)
        <5>1. e[j] = j + 1 /\ j \in Nat /\ 1 <= j /\ j <= n - 1
            BY <1>e, <4>2
        <5>2. j + 1 \in Nat /\ 1 <= j + 1 /\ j + 1 <= n /\ j + 1 # k
            BY <1>a, <4>2, <5>1
        <5> QED BY <1>a, <5>1, <5>2
      <4> QED BY <4>1, <4>2
    <3>2. t[j] = s[e[j]]
        BY <1>1, <1>e DEF D
    <3>3. h[j] \in Nat /\ h[j] = MSize[t[j]]
        BY <1>2, <1>4 DEF D
    <3> QED BY <1>3, <3>1, <3>2, <3>3
  <2>2. \A i, j \in D : e[i] = e[j] => i = j
    <3> SUFFICES ASSUME NEW i \in D, NEW j \in D, e[i] = e[j] PROVE i = j
        OBVIOUS
    <3>1. i \in Nat /\ j \in Nat /\ k \in Nat
        BY <1>a, <1>e
    <3>2. e[i] = (IF i < k THEN i ELSE i + 1) /\ e[j] = (IF j < k THEN j ELSE j + 1)
        BY <1>e
    <3>3. CASE i < k /\ j < k
        BY <3>1, <3>2, <3>3
    <3>4. CASE i < k /\ ~(j < k)
      <4>1. i = j + 1
        BY <3>2, <3>4
      <4> QED BY <3>1, <3>4, <4>1
    <3>5. CASE ~(i < k) /\ j < k
      <4>1. i + 1 = j
        BY <3>2, <3>5
      <4> QED BY <3>1, <3>5, <4>1
    <3>6. CASE ~(i < k) /\ ~(j < k)
      <4>1. i + 1 = j + 1
        BY <3>2, <3>6
      <4> QED BY <3>1, <4>1
    <3> QED BY <3>3, <3>4, <3>5, <3>6
  <2> QED BY <2>1, <2>2
<1>7. ASSUME NEW i \in DOMAIN s \ {k} PROVE \E j \in D : e[j] = i
  <2>a. i \in Nat /\ 1 <= i /\ i <= n /\ i # k
      BY <1>a
  <2>1. CASE i < k
    <3>1. i \in D
      BY <1>a, <1>d, <2>a, <2>1
    <3>2. e[i] = i
      BY <1>e, <2>1, <3>1
    <3> QED BY <3>1, <3>2
  <2>2. CASE i > k
    <3>1. i - 1 \in D
      <4>1. i - 1 \in Nat /\ 1 <= i - 1 /\ i - 1 <= n - 1
          BY <1>a, <2>a, <2>2
      <4> QED BY <1>d, <4>1
    <3>2. e[i - 1] = i
      <4>1. ~(i - 1 < k) /\ (i - 1) + 1 = i
          BY <1>a, <2>a, <2>2
      <4> QED BY <1>e, <3>1, <4>1
    <3> QED BY <3>1, <3>2
  <2> QED BY <1>a, <2>a, <2>1, <2>2
<1>8. SumFunctionOnSet(h, DOMAIN t) = SumFunctionOnSet(g, DOMAIN s \ {k})
  <2>1. DOMAIN t = D
    BY <1>2 DEF D
  <2>2. IsFiniteSet(D) /\ \A j \in D : h[j] \in Int /\ h[j] = g[e[j]]
    BY <1>5, <1>6, <2>1
  <2>3. \A i, j \in D : e[i] = e[j] => i = j
    BY <1>6
  <2>4. SumFunctionOnSet(h, D) = SumFunctionOnSet(g, DOMAIN s \ {k})
    <3> DEFINE R == DOMAIN s \ {k}
    <3>1. \A j \in D : e[j] \in R
        BY <1>6
    <3>2. \A i \in R : \E j \in D : e[j] = i
        BY <1>7
    <3> HIDE DEF R
    <3>3. Renames(e, h, D, g, R)
        BY <2>2, <2>3, <3>1, <3>2 DEF Renames
    <3>4. SumFunctionOnSet(h, D) = SumFunctionOnSet(g, R)
        BY <2>2, <3>3, SumReindex
    <3> QED BY <3>4 DEF R
  <2> QED BY <2>1, <2>4
<1>9. SumFunctionOnSet(g, DOMAIN s) = g[k] + SumFunctionOnSet(g, DOMAIN s \ {k})
  <2>1. \A x \in DOMAIN s : g[x] \in Int
    OBVIOUS
  <2> QED BY <1>5, <2>1, SumRemove
<1>10. g[k] = MSize[s[k]] /\ MSize[s[k]] \in Nat /\ SizeOf(t) \in Nat
  BY <1>1, <1>3, SizeType, MessageAssumption
<1>11. SizeOf(s) = MSize[s[k]] + SizeOf(t)
  BY <1>3, <1>4, <1>8, <1>9, <1>10
<1> QED BY <1>10, <1>11 DEF t

(* The counters follow the list.                                           *)
LEMMA AcctStep ==
    ASSUME TypeOK, CallInv, LifeInv, MutexInv, ReceiverInv, AcctInv, [Next]_vars
    PROVE  AcctInv'
<1> USE DEF AcctInv, perm, queue, acct, rcu, life, args, walk
<1>t. /\ pc \in [Procs -> Labels] /\ NoProc \notin Procs
      /\ cmd \in [Procs -> {"none", "SND", "RCV", "SET", "RMID"}]
      /\ q_messages \in Seq(Msgs) /\ q_cbytes \in Int /\ q_qnum \in Int
      /\ msg_hdrs \in Int /\ msg_bytes \in Int /\ hold \in [Procs -> Msgs \cup {NoMsg}]
      /\ deleted \in BOOLEAN /\ mem \in {"none", "live", "rcu", "freed"}
      /\ MSize \in [Msgs -> Nat]
  BY ConstantsAssumption, MessageAssumption DEF TypeOK, TypeTask, TypeQueue
<1>s. CASE UNCHANGED vars
  BY <1>s, <1>t DEF vars, CallInv, Woken
<1>1. ASSUME NEW p \in Procs, newque(p) PROVE AcctInv'
  <2>1. q_messages = <<>> /\ ~deleted /\ \A q \in Procs : pc[q] # "drain"
    BY <1>1 DEF newque, LifeInv
  <2>2. msg_bytes = 0 /\ msg_hdrs = 0
    BY <2>1, SizeEmpty
  <2> QED BY <1>1, <2>2, SizeEmpty DEF newque
<1>2. ASSUME NEW p \in Procs, ipc_find(p) PROVE AcctInv'
  BY <1>2, <1>t DEF ipc_find, Goto, Return, CallInv, Woken
<1>3. ASSUME NEW p \in Procs, ipc_lock_deleted(p) PROVE AcctInv'
  BY <1>3, <1>t DEF ipc_lock_deleted, LeaveRcu, Return, Goto, CallInv, Woken
<1>4. ASSUME NEW p \in Procs, SyscallExit(p) PROVE AcctInv'
  BY <1>4, <1>t DEF SyscallExit, Goto, CallInv, Woken
<1>5. ASSUME NEW p \in Procs, Signal(p) PROVE AcctInv'
  BY <1>5, <1>t DEF Signal, CallInv, Woken
<1>6. CASE ipc_immediate_free
  BY <1>6, <1>t DEF ipc_immediate_free, CallInv, Woken
<1>7. ASSUME NEW p \in Procs, msgsnd(p) PROVE AcctInv'
  BY <1>7, <1>t DEF msgsnd, Goto, CallInv, Woken
<1>8. ASSUME NEW p \in Procs, snd_fail(p) PROVE AcctInv'
  BY <1>8, <1>t DEF snd_fail, AtTop, UnlockReturn, LeaveRcu, Return, Goto, CallInv, Woken
<1>9. ASSUME NEW p \in Procs, snd_sleep(p) PROVE AcctInv'
  BY <1>9, <1>t DEF snd_sleep, AtTop, ipc_rcu_getref, LeaveRcu, Goto, CallInv, Woken
<1>10. ASSUME NEW p \in Procs, snd_relock(p) PROVE AcctInv'
  BY <1>10, <1>t DEF snd_relock, Goto, CallInv, Woken
<1>11. ASSUME NEW p \in Procs, snd_putref(p) PROVE AcctInv'
  BY <1>11, <1>t DEF snd_putref, PutStore, Goto, CallInv, Woken
<1>12. ASSUME NEW p \in Procs, snd_awake(p) PROVE AcctInv'
  BY <1>12, <1>t DEF snd_awake, UnlockReturn, LeaveRcu, Return, Goto, CallInv, Woken
<1>13. ASSUME NEW p \in Procs, snd_start(p) PROVE AcctInv'
  BY <1>13, <1>t DEF snd_start, AtTop, Goto, CallInv, Woken
<1>14. ASSUME NEW p \in Procs, pipelined_send(p) PROVE AcctInv'
  <2>1. pc[p] = "scan" /\ ~deleted /\ mem # "none" /\ hold[p] \in Msgs /\ UNCHANGED <<mem, deleted>>
    BY <1>14, <1>t DEF pipelined_send, LifeInv, CallInv
  <2>2. CASE UNCHANGED <<queue, acct>>
    BY <2>1, <2>2
  <2>3. CASE /\ q_messages' = Append(q_messages, hold[p])
             /\ q_cbytes' = q_cbytes + MSize[hold[p]] /\ q_qnum' = q_qnum + 1
             /\ msg_bytes' = msg_bytes + MSize[hold[p]] /\ msg_hdrs' = msg_hdrs + 1
    <3>1. SizeOf(q_messages') = SizeOf(q_messages) + MSize[hold[p]]
        BY <1>t, <2>1, <2>3, SizeAppend
    <3>2. Len(q_messages') = Len(q_messages) + 1
        BY <1>t, <2>1, <2>3
    <3> QED BY <2>1, <2>3, <3>1, <3>2
  <2> QED BY <1>14, <2>2, <2>3 DEF pipelined_send
<1>15. ASSUME NEW p \in Procs, wake_receiver(p) PROVE AcctInv'
  BY <1>15, <1>t DEF wake_receiver, Goto, Woken, CallInv
<1>16. ASSUME NEW p \in Procs, deliver(p) PROVE AcctInv'
  BY <1>16, <1>t DEF deliver, Goto, CallInv, Woken
<1>17. ASSUME NEW p \in Procs, snd_done(p) PROVE AcctInv'
  BY <1>17, <1>t DEF snd_done, UnlockReturn, LeaveRcu, Return, Goto, CallInv, Woken
<1>18. ASSUME NEW p \in Procs, msgrcv(p) PROVE AcctInv'
  BY <1>18, <1>t DEF msgrcv, Goto, CallInv, Woken
<1>19. ASSUME NEW p \in Procs, rcv_fail(p) PROVE AcctInv'
  BY <1>19, <1>t DEF rcv_fail, AtTop, UnlockReturn, LeaveRcu, Return, Goto, CallInv, Woken
<1>20. ASSUME NEW p \in Procs, rcv_dequeue(p) PROVE AcctInv'
  <2> DEFINE i == FindMsg(q_messages, req[p])
  <2>1. i \in DOMAIN q_messages /\ ~deleted /\ mem # "none" /\ UNCHANGED <<mem, deleted>> /\ Unlink(i)
    BY <1>20 DEF rcv_dequeue, AtTop, LifeInv
  <2> HIDE DEF i
  <2>2. SizeOf(q_messages') = SizeOf(q_messages) - MSize[q_messages[i]]
    BY <1>t, <2>1, SizeRemoveAt DEF Unlink
  <2>3. Len(q_messages') = Len(q_messages) - 1
    BY <1>t, <2>1, RemoveAtProps, SMTT(30) DEF Unlink
  <2> QED BY <2>1, <2>2, <2>3 DEF Unlink
<1>21. ASSUME NEW p \in Procs, rcv_sleep(p) PROVE AcctInv'
  BY <1>21, <1>t DEF rcv_sleep, AtTop, LeaveRcu, Goto, CallInv, Woken
<1>22. ASSUME NEW p \in Procs, rcv_wake(p) PROVE AcctInv'
  BY <1>22, <1>t DEF rcv_wake, Goto, CallInv, Woken
<1>23. ASSUME NEW p \in Procs, rcv_spin(p) PROVE AcctInv'
  BY <1>23, <1>t DEF rcv_spin, Accept, LeaveRcu, Return, Goto, CallInv, Woken
<1>24. ASSUME NEW p \in Procs, rcv_relock(p) PROVE AcctInv'
  BY <1>24, <1>t DEF rcv_relock, Accept, UnlockReturn, LeaveRcu, Return, Goto, CallInv, Woken
<1>25. ASSUME NEW p \in Procs, rcv_copy(p) PROVE AcctInv'
  BY <1>25, <1>t DEF rcv_copy, Return, Goto, CallInv, Woken
<1>26. ASSUME NEW p \in Procs, msgctl(p) PROVE AcctInv'
  BY <1>26, <1>t DEF msgctl, Goto, CallInv, Woken
<1>27. ASSUME NEW p \in Procs, ctl_fail(p) PROVE AcctInv'
  BY <1>27, <1>t DEF ctl_fail, UnlockReturn, LeaveRcu, Return, Goto, CallInv, Woken
<1>28. ASSUME NEW p \in Procs, ctl_start(p) PROVE AcctInv'
  BY <1>28, <1>t DEF ctl_start, Goto, CallInv, Woken
<1>29. ASSUME NEW p \in Procs, expunge_next(p) PROVE AcctInv'
  BY <1>29, <1>t DEF expunge_next, Goto, CallInv, Woken
<1>30. ASSUME NEW p \in Procs, expunge_set(p) PROVE AcctInv'
  BY <1>30, <1>t DEF expunge_set, Goto, CallInv, Woken
<1>31. ASSUME NEW p \in Procs, ctl_set_done(p) PROVE AcctInv'
  BY <1>31, <1>t DEF ctl_set_done, Woken, UnlockReturn, LeaveRcu, Return, Goto, CallInv
<1>32. ASSUME NEW p \in Procs, freeque_rmid(p) PROVE AcctInv'
  <2>1. ~deleted /\ mem # "none" /\ pc[p] = "walk"
    BY <1>32 DEF freeque_rmid, LifeInv
  <2>2. pc'[p] = "drain" /\ UNCHANGED <<mem, queue, acct>> /\ deleted'
    BY <1>32, <1>t DEF freeque_rmid, Goto
  <2> QED BY <2>1, <2>2
<1>33. ASSUME NEW p \in Procs, freeque_drain(p) PROVE AcctInv'
  <2>1. /\ pc[p] = "drain" /\ cmd[p] = "RMID" /\ rw_mutex = p /\ deleted /\ mem # "none"
        /\ \A q \in Procs : pc[q] = "drain" => q = p
    BY <1>33 DEF freeque_drain, CallInv, MutexInv, LifeInv
  <2>2. msg_bytes = q_cbytes /\ UNCHANGED <<mem, deleted, q_cbytes, q_qnum>>
    BY <1>33, <2>1 DEF freeque_drain
  <2>3. CASE q_messages # <<>>
    <3>1. Len(Tail(q_messages)) = Len(q_messages) - 1
        BY <1>t, <2>3
    <3>2. /\ q_messages' = Tail(q_messages) /\ msg_hdrs' = msg_hdrs - 1
          /\ UNCHANGED <<msg_bytes, pc>>
        BY <1>33, <2>3 DEF freeque_drain
    <3> QED BY <2>1, <2>2, <3>1, <3>2
  <2>4. CASE q_messages = <<>>
    <3>1. /\ msg_bytes' = msg_bytes - q_cbytes /\ UNCHANGED <<q_messages, msg_hdrs>>
          /\ pc' = [pc EXCEPT ![p] = "put"]
        BY <1>33, <2>4 DEF freeque_drain, Goto
    <3>2. \A q \in Procs : pc'[q] # "drain"
        BY <1>t, <2>1, <3>1
    <3>3. msg_bytes' = 0
        BY <1>t, <2>2, <3>1
    <3> QED BY <2>1, <2>2, <2>4, <3>1, <3>2, <3>3
  <2> QED BY <2>3, <2>4
<1>34. ASSUME NEW p \in Procs, freeque_putref(p) PROVE AcctInv'
  BY <1>34, <1>t DEF freeque_putref, PutStore, Return, Goto, CallInv, Woken
<1> QED BY <1>s, <1>1, <1>2, <1>3, <1>4, <1>5, <1>6, <1>7, <1>8, <1>9, <1>10, <1>11, <1>12, <1>13,
  <1>14, <1>15, <1>16, <1>17, <1>18, <1>19, <1>20, <1>21, <1>22, <1>23, <1>24, <1>25, <1>26, <1>27,
  <1>28, <1>29, <1>30, <1>31, <1>32, <1>33, <1>34 DEF Next, KernelStep, Procs

(* No message enters or leaves an r_msg.                                   *)
SameAnswers ==
    \A q \in Procs : (r_msg[q] \in Msgs \/ r_msg'[q] \in Msgs) => r_msg'[q] = r_msg[q]

(* The messages stay where they are...                                     *)
LEMMA PlaceQuiet ==
    ASSUME TypeOK, PlaceInv, SameAnswers, UNCHANGED <<hold, q_messages, alloc>>
    PROVE  PlaceInv'
<1>1. \A p \in Procs, m \in Msgs : r_msg'[p] = m <=> r_msg[p] = m
  BY DEF SameAnswers
<1>2. \A i \in DOMAIN q_messages : q_messages[i] \in Msgs
  BY DEF TypeOK, TypeQueue
<1> QED BY <1>1, <1>2 DEF PlaceInv

(* ... or the task frees the one in its hands.                             *)
LEMMA PlaceFree ==
    ASSUME TypeOK, PlaceInv, SameAnswers, NEW p \in Procs, UNCHANGED q_messages,
           hold' = [hold EXCEPT ![p] = NoMsg], alloc' = alloc \ {hold[p]}
    PROVE  PlaceInv'
<1>t. /\ hold \in [Procs -> Msgs \cup {NoMsg}] /\ NoMsg \notin Msgs /\ alloc \subseteq Msgs
      /\ \A i \in DOMAIN q_messages : q_messages[i] \in Msgs
  BY ConstantsAssumption DEF TypeOK, TypeTask, TypeQueue
<1>1. \A q \in Procs, m \in Msgs : r_msg'[q] = m <=> r_msg[q] = m
  BY DEF SameAnswers
<1>2. \A q \in Procs : hold'[q] = IF q = p THEN NoMsg ELSE hold[q]
  BY <1>t
<1>3. ASSUME NEW m \in Msgs
      PROVE  m \in alloc' <=> \/ \E q \in Procs : hold'[q] = m \/ r_msg'[q] = m
                              \/ \E i \in DOMAIN q_messages : q_messages[i] = m
  <2>1. CASE m = hold[p]
    BY <1>t, <1>1, <1>2, <2>1 DEF PlaceInv
  <2>2. CASE m # hold[p]
    BY <1>t, <1>1, <1>2, <2>2 DEF PlaceInv
  <2> QED BY <2>1, <2>2
<1>4. ASSUME NEW u \in Procs, NEW q \in Procs
      PROVE  /\ hold'[u] \in Msgs => hold'[u] # r_msg'[q] /\ (hold'[u] = hold'[q] => u = q)
             /\ (r_msg'[u] \in Msgs /\ r_msg'[u] = r_msg'[q]) => u = q
             /\ \A i \in DOMAIN q_messages : q_messages[i] # hold'[u] /\ q_messages[i] # r_msg'[u]
  <2>1. hold'[u] \in Msgs => hold'[u] # r_msg'[q] /\ (hold'[u] = hold'[q] => u = q)
    BY <1>t, <1>1, <1>2 DEF PlaceInv
  <2>2. (r_msg'[u] \in Msgs /\ r_msg'[u] = r_msg'[q]) => u = q
    BY <1>1 DEF PlaceInv
  <2>3. \A i \in DOMAIN q_messages : q_messages[i] # hold'[u] /\ q_messages[i] # r_msg'[u]
    BY <1>t, <1>1, <1>2 DEF PlaceInv
  <2> QED BY <2>1, <2>2, <2>3
<1> QED BY <1>3, <1>4 DEF PlaceInv

(* Every message keeps exactly one place.                                  *)
LEMMA PlaceStep ==
    ASSUME TypeOK, LockInv, CallInv, LifeInv, ReceiverInv, AcctInv, HoldInv, PlaceInv,
           MutexInv, [Next]_vars
    PROVE  PlaceInv'
<1> USE DEF perm, queue, acct, rcu, life, args, walk
<1>t. /\ pc \in [Procs -> Labels] /\ NoProc \notin Procs
      /\ cmd \in [Procs -> {"none", "SND", "RCV", "SET", "RMID"}]
      /\ hold \in [Procs -> Msgs \cup {NoMsg}] /\ r_msg \in [Procs -> Msgs \cup Codes]
      /\ msr \in [Procs -> Procs \cup {NoProc}] /\ tmp \in [Procs -> Nat]
      /\ q_receivers \in Seq(Procs) /\ q_messages \in Seq(Msgs) /\ alloc \subseteq Msgs
      /\ Msgs \cap Codes = {} /\ NoMsg \notin Msgs
  BY ConstantsAssumption DEF TypeOK, TypeTask, TypeQueue
<1>s. CASE UNCHANGED vars
  <2>1. SameAnswers /\ UNCHANGED <<hold, q_messages, alloc>>
    BY <1>s DEF vars, SameAnswers
  <2> QED BY <2>1, PlaceQuiet
<1>1. ASSUME NEW p \in Procs, newque(p) PROVE PlaceInv'
  <2>1. q_messages = <<>>
    BY <1>1 DEF newque, AcctInv
  <2>q. SameAnswers /\ UNCHANGED <<hold, q_messages, alloc>>
    BY <1>1, <2>1 DEF newque, SameAnswers
  <2> QED BY <2>q, PlaceQuiet
<1>2. ASSUME NEW p \in Procs, ipc_find(p) PROVE PlaceInv'
  <2>1. CASE mem # "none" /\ ~deleted
    <3>1. SameAnswers /\ UNCHANGED <<hold, q_messages, alloc>>
        BY <1>2, <2>1 DEF ipc_find, SameAnswers
    <3> QED BY <3>1, PlaceQuiet
  <2>2. CASE ~(mem # "none" /\ ~deleted)
    <3>1. /\ SameAnswers /\ UNCHANGED q_messages
          /\ hold' = [hold EXCEPT ![p] = NoMsg] /\ alloc' = alloc \ {hold[p]}
        BY <1>2, <2>2 DEF ipc_find, Return, SameAnswers
    <3> QED BY <3>1, PlaceFree
  <2> QED BY <2>1, <2>2
<1>3. ASSUME NEW p \in Procs, ipc_lock_deleted(p) PROVE PlaceInv'
  <2>q. /\ SameAnswers /\ UNCHANGED q_messages
        /\ hold' = [hold EXCEPT ![p] = NoMsg] /\ alloc' = alloc \ {hold[p]}
    BY <1>3, <1>t DEF ipc_lock_deleted, LeaveRcu, Return, Goto, SameAnswers, Codes
  <2> QED BY <2>q, PlaceFree
<1>4. ASSUME NEW p \in Procs, SyscallExit(p) PROVE PlaceInv'
  <2>q. SameAnswers /\ UNCHANGED <<hold, q_messages, alloc>>
    BY <1>4, <1>t DEF SyscallExit, Goto, SameAnswers, Codes
  <2> QED BY <2>q, PlaceQuiet
<1>5. ASSUME NEW p \in Procs, Signal(p) PROVE PlaceInv'
  <2>q. SameAnswers /\ UNCHANGED <<hold, q_messages, alloc>>
    BY <1>5, <1>t DEF Signal, SameAnswers, Codes
  <2> QED BY <2>q, PlaceQuiet
<1>6. CASE ipc_immediate_free
  <2>q. SameAnswers /\ UNCHANGED <<hold, q_messages, alloc>>
    BY <1>6, <1>t DEF ipc_immediate_free, SameAnswers, Codes
  <2> QED BY <2>q, PlaceQuiet
<1>7. ASSUME NEW p \in Procs, msgsnd(p) PROVE PlaceInv'
  <2>1. PICK m \in Msgs \ alloc : alloc' = alloc \cup {m} /\ hold' = [hold EXCEPT ![p] = m]
    BY <1>7 DEF msgsnd
  <2>2. hold[p] = NoMsg /\ UNCHANGED <<r_msg, q_messages>>
    BY <1>7 DEF msgsnd, HoldInv
  <2>3. \A q \in Procs : hold'[q] = IF q = p THEN m ELSE hold[q]
    BY <1>t, <2>1
  <2>4. /\ \A q \in Procs : hold[q] # m /\ r_msg[q] # m
        /\ \A i \in DOMAIN q_messages : q_messages[i] # m
    BY <2>1 DEF PlaceInv
  <2>5. ASSUME NEW x \in Msgs
        PROVE  x \in alloc' <=> \/ \E q \in Procs : hold'[q] = x \/ r_msg[q] = x
                                \/ \E i \in DOMAIN q_messages : q_messages[i] = x
    <3>1. CASE x = m
        BY <2>1, <2>3, <3>1
    <3>2. CASE x # m
      <4>1. \A q \in Procs : hold'[q] = x <=> hold[q] = x
        BY <1>t, <2>2, <2>3, <3>2
      <4> QED BY <2>1, <3>2, <4>1 DEF PlaceInv
    <3> QED BY <3>1, <3>2
  <2>6. ASSUME NEW u \in Procs, NEW q \in Procs, hold'[u] \in Msgs
        PROVE  hold'[u] # r_msg[q] /\ (hold'[u] = hold'[q] => u = q)
    BY <2>3, <2>4, <2>6 DEF PlaceInv
  <2>7. \A u \in Procs, i \in DOMAIN q_messages : q_messages[i] # hold'[u]
    BY <2>3, <2>4 DEF PlaceInv
  <2> QED BY <2>2, <2>5, <2>6, <2>7 DEF PlaceInv
<1>8. ASSUME NEW p \in Procs, snd_fail(p) PROVE PlaceInv'
  <2>q. /\ SameAnswers /\ UNCHANGED q_messages
        /\ hold' = [hold EXCEPT ![p] = NoMsg] /\ alloc' = alloc \ {hold[p]}
    BY <1>8, <1>t DEF snd_fail, AtTop, UnlockReturn, LeaveRcu, Return, Goto, SameAnswers, Codes
  <2> QED BY <2>q, PlaceFree
<1>9. ASSUME NEW p \in Procs, snd_sleep(p) PROVE PlaceInv'
  <2>q. SameAnswers /\ UNCHANGED <<hold, q_messages, alloc>>
    BY <1>9, <1>t DEF snd_sleep, AtTop, ipc_rcu_getref, LeaveRcu, Goto, SameAnswers, Codes
  <2> QED BY <2>q, PlaceQuiet
<1>10. ASSUME NEW p \in Procs, snd_relock(p) PROVE PlaceInv'
  <2>q. SameAnswers /\ UNCHANGED <<hold, q_messages, alloc>>
    BY <1>10, <1>t DEF snd_relock, Goto, SameAnswers, Codes
  <2> QED BY <2>q, PlaceQuiet
<1>11. ASSUME NEW p \in Procs, snd_putref(p) PROVE PlaceInv'
  <2>q. SameAnswers /\ UNCHANGED <<hold, q_messages, alloc>>
    BY <1>11, <1>t DEF snd_putref, PutStore, Goto, SameAnswers, Codes
  <2> QED BY <2>q, PlaceQuiet
<1>12. ASSUME NEW p \in Procs, snd_awake(p) PROVE PlaceInv'
  <2>1. CASE UNCHANGED <<alloc, hold>>
    <3>1. SameAnswers /\ UNCHANGED <<hold, q_messages, alloc>>
        BY <1>12, <2>1 DEF snd_awake, SameAnswers
    <3> QED BY <3>1, PlaceQuiet
  <2>2. CASE hold' = [hold EXCEPT ![p] = NoMsg] /\ alloc' = alloc \ {hold[p]}
    <3>1. SameAnswers /\ UNCHANGED q_messages
        BY <1>12 DEF snd_awake, SameAnswers
    <3> QED BY <2>2, <3>1, PlaceFree
  <2> QED BY <1>12, <2>1, <2>2 DEF snd_awake, UnlockReturn, Return
<1>13. ASSUME NEW p \in Procs, snd_start(p) PROVE PlaceInv'
  <2>q. SameAnswers /\ UNCHANGED <<hold, q_messages, alloc>>
    BY <1>13, <1>t DEF snd_start, AtTop, Goto, SameAnswers, Codes
  <2> QED BY <2>q, PlaceQuiet
<1>14. ASSUME NEW p \in Procs, pipelined_send(p) PROVE PlaceInv'
  <2>1. pc[p] = "scan" /\ cmd[p] = "SND" /\ hold[p] \in Msgs /\ ~deleted
    BY <1>14 DEF pipelined_send, CallInv, LifeInv
  <2> DEFINE i == NextReceiver(hold[p])
  <2>2. CASE i \in DOMAIN q_receivers
    <3>1. ~Expunged(i)
        BY <1>14, <2>1 DEF Expunged, LockInv, Locked
    <3>2. q_receivers[i] \in Procs /\ r_msg[q_receivers[i]] \notin Msgs
        BY <1>t, <2>1, <2>2, <3>1 DEF ReceiverInv, ListInv, Waiting, Codes
    <3>3. /\ r_msg' = [r_msg EXCEPT ![q_receivers[i]] = "NULL"]
          /\ UNCHANGED <<hold, q_messages, alloc>>
        BY <1>14, <2>2 DEF pipelined_send
    <3> HIDE DEF i
    <3>4. SameAnswers
        BY <1>t, <3>2, <3>3 DEF SameAnswers, Codes
    <3> QED BY <3>3, <3>4, PlaceQuiet
  <2>3. CASE i \notin DOMAIN q_receivers
    <3> DEFINE s == Append(q_messages, hold[p])
               n == Len(q_messages) + 1
    <3>1. /\ q_messages' = s /\ hold' = [hold EXCEPT ![p] = NoMsg] /\ UNCHANGED <<r_msg, alloc>>
        BY <1>14, <2>3 DEF pipelined_send
    <3>2. /\ DOMAIN s = DOMAIN q_messages \cup {n} /\ s[n] = hold[p]
          /\ \A j \in DOMAIN q_messages : s[j] = q_messages[j] /\ j # n
        BY <1>t, <2>1, AppendAt
    <3>3. \A q \in Procs : hold'[q] = IF q = p THEN NoMsg ELSE hold[q]
        BY <1>t, <3>1
    <3> HIDE DEF s, n, i
    <3>4. ASSUME NEW m \in Msgs
          PROVE  m \in alloc <=> \/ \E q \in Procs : hold'[q] = m \/ r_msg[q] = m
                                 \/ \E j \in DOMAIN s : s[j] = m
      <4>1. CASE m = hold[p]
        BY <3>2, <4>1 DEF PlaceInv
      <4>2. CASE m # hold[p]
        <5>1. /\ \A q \in Procs : hold'[q] = m <=> hold[q] = m
              /\ (\E j \in DOMAIN s : s[j] = m) <=> \E j \in DOMAIN q_messages : q_messages[j] = m
            BY <1>t, <3>2, <3>3, <4>2
        <5> QED BY <5>1 DEF PlaceInv
      <4> QED BY <4>1, <4>2
    <3>5. ASSUME NEW u \in Procs, NEW q \in Procs, hold'[u] \in Msgs
          PROVE  hold'[u] # r_msg[q] /\ (hold'[u] = hold'[q] => u = q)
      <4>1. u # p /\ hold'[u] = hold[u] /\ hold[u] \in Msgs
        BY <1>t, <3>3, <3>5
      <4>2. hold[u] # r_msg[q] /\ (hold[u] = hold[q] => u = q)
        BY <4>1 DEF PlaceInv
      <4>3. hold'[q] # hold[q] => hold'[q] \notin Msgs
        BY <1>t, <3>3
      <4> QED BY <4>1, <4>2, <4>3
    <3>6. ASSUME NEW u \in Procs, NEW j \in DOMAIN s
          PROVE  s[j] # hold'[u] /\ s[j] # r_msg[u]
        BY <1>t, <2>1, <3>2, <3>3 DEF PlaceInv
    <3>7. \A j, k \in DOMAIN s : s[j] = s[k] => j = k
        BY <3>2 DEF PlaceInv
    <3> QED BY <3>1, <3>4, <3>5, <3>6, <3>7 DEF PlaceInv
  <2> QED BY <2>2, <2>3
<1>15. ASSUME NEW p \in Procs, wake_receiver(p) PROVE PlaceInv'
  <2>q. SameAnswers /\ UNCHANGED <<hold, q_messages, alloc>>
    BY <1>15, <1>t DEF wake_receiver, Goto, Woken, SameAnswers, Codes
  <2> QED BY <2>q, PlaceQuiet
<1>16. ASSUME NEW p \in Procs, deliver(p) PROVE PlaceInv'
  <2> DEFINE w == msr[p]
  <2>1. w \in Procs /\ r_msg[w] = "NULL" /\ hold[p] \in Msgs /\ UNCHANGED <<q_messages, alloc>>
    BY <1>16 DEF deliver, ReceiverInv, WakerInv, CallInv
  <2> HIDE DEF w
  <2>2. CASE UNCHANGED hold /\ r_msg' = [r_msg EXCEPT ![w] = "E2BIG"]
    <3>1. SameAnswers
        BY <1>t, <2>1, <2>2 DEF SameAnswers, Codes
    <3> QED BY <2>1, <2>2, <3>1, PlaceQuiet
  <2>3. CASE r_msg' = [r_msg EXCEPT ![w] = hold[p]] /\ hold' = [hold EXCEPT ![p] = NoMsg]
    <3>1. \A q \in Procs : /\ hold'[q] = IF q = p THEN NoMsg ELSE hold[q]
                           /\ r_msg'[q] = IF q = w THEN hold[p] ELSE r_msg[q]
        BY <1>t, <2>3
    <3>2. r_msg[w] \notin Msgs
        BY <1>t, <2>1 DEF Codes
    <3>3. ASSUME NEW m \in Msgs
          PROVE  m \in alloc <=> \/ \E q \in Procs : hold'[q] = m \/ r_msg'[q] = m
                                 \/ \E j \in DOMAIN q_messages : q_messages[j] = m
      <4>1. CASE m = hold[p]
        BY <2>1, <3>1, <4>1 DEF PlaceInv
      <4>2. CASE m # hold[p]
        <5>1. \A q \in Procs : (hold'[q] = m <=> hold[q] = m) /\ (r_msg'[q] = m <=> r_msg[q] = m)
            BY <1>t, <2>1, <3>1, <3>2, <4>2
        <5> QED BY <5>1 DEF PlaceInv
      <4> QED BY <4>1, <4>2
    <3>4. ASSUME NEW u \in Procs, NEW q \in Procs, hold'[u] \in Msgs
          PROVE  hold'[u] # r_msg'[q] /\ (hold'[u] = hold'[q] => u = q)
      <4>1. u # p /\ hold'[u] = hold[u] /\ hold[u] \in Msgs
        BY <1>t, <3>1, <3>4
      <4>2. hold[u] # r_msg[q] /\ hold[u] # hold[p] /\ (hold[u] = hold[q] => u = q)
        BY <4>1 DEF PlaceInv
      <4>3. hold'[q] # hold[q] => hold'[q] \notin Msgs
        BY <1>t, <3>1
      <4>4. r_msg'[q] = hold[p] \/ r_msg'[q] = r_msg[q]
        BY <3>1
      <4> QED BY <4>1, <4>2, <4>3, <4>4
    <3>5. ASSUME NEW u \in Procs, NEW q \in Procs, r_msg'[u] \in Msgs, r_msg'[u] = r_msg'[q]
          PROVE  u = q
        BY <2>1, <3>1, <3>5 DEF PlaceInv
    <3>6. ASSUME NEW u \in Procs, NEW j \in DOMAIN q_messages
          PROVE  q_messages[j] # hold'[u] /\ q_messages[j] # r_msg'[u]
      <4>1. q_messages[j] \in Msgs
        BY <1>t
      <4> QED BY <1>t, <3>1, <4>1 DEF PlaceInv
    <3> QED BY <2>1, <3>3, <3>4, <3>5, <3>6 DEF PlaceInv
  <2> QED BY <1>16, <2>2, <2>3 DEF deliver, w
<1>17. ASSUME NEW p \in Procs, snd_done(p) PROVE PlaceInv'
  <2>q. /\ SameAnswers /\ UNCHANGED q_messages
        /\ hold' = [hold EXCEPT ![p] = NoMsg] /\ alloc' = alloc \ {hold[p]}
    BY <1>17, <1>t DEF snd_done, UnlockReturn, LeaveRcu, Return, Goto, SameAnswers, Codes
  <2> QED BY <2>q, PlaceFree
<1>18. ASSUME NEW p \in Procs, msgrcv(p) PROVE PlaceInv'
  <2>q. SameAnswers /\ UNCHANGED <<hold, q_messages, alloc>>
    BY <1>18, <1>t DEF msgrcv, Goto, SameAnswers, Codes
  <2> QED BY <2>q, PlaceQuiet
<1>19. ASSUME NEW p \in Procs, rcv_fail(p) PROVE PlaceInv'
  <2>q. /\ SameAnswers /\ UNCHANGED q_messages
        /\ hold' = [hold EXCEPT ![p] = NoMsg] /\ alloc' = alloc \ {hold[p]}
    BY <1>19, <1>t DEF rcv_fail, AtTop, UnlockReturn, LeaveRcu, Return, Goto, SameAnswers, Codes
  <2> QED BY <2>q, PlaceFree
<1>20. ASSUME NEW p \in Procs, rcv_dequeue(p) PROVE PlaceInv'
  <2> DEFINE i == FindMsg(q_messages, req[p])
             s == RemoveAt(q_messages, i)
             m == q_messages[i]
  <2>1. /\ i \in DOMAIN q_messages /\ q_messages' = s /\ UNCHANGED <<r_msg, alloc>>
        /\ hold' = [hold EXCEPT ![p] = m]
    BY <1>20 DEF rcv_dequeue, Unlink
  <2>2. hold[p] = NoMsg
    BY <1>20 DEF rcv_dequeue, AtTop, HoldInv
  <2>3. /\ \A k \in DOMAIN s : s[k] # m /\ \E j \in DOMAIN q_messages : s[k] = q_messages[j]
        /\ \A j \in DOMAIN q_messages : j # i => \E k \in DOMAIN s : s[k] = q_messages[j]
        /\ \A j, k \in DOMAIN s : s[j] = s[k] => j = k
    BY <1>t, <2>1, RemoveAtEntries DEF PlaceInv
  <2>4. m \in Msgs
    BY <1>t, <2>1
  <2>5. \A q \in Procs : hold'[q] = IF q = p THEN m ELSE hold[q]
    BY <1>t, <2>1
  <2>6. \A x : x # m => ((\E k \in DOMAIN s : s[k] = x) <=> \E j \in DOMAIN q_messages : q_messages[j] = x)
    BY <2>3
  <2>7. \A q \in Procs : hold[q] # m /\ r_msg[q] # m
    BY <2>1 DEF PlaceInv
  <2>8. m \in alloc
    BY <2>1, <2>4 DEF PlaceInv
  <2> HIDE DEF s, m, i
  <2>9. ASSUME NEW x \in Msgs
        PROVE  x \in alloc <=> \/ \E q \in Procs : hold'[q] = x \/ r_msg[q] = x
                               \/ \E k \in DOMAIN s : s[k] = x
    <3>1. CASE x = m
        BY <2>5, <2>8, <3>1
    <3>2. CASE x # m
      <4>1. \A q \in Procs : hold'[q] = x <=> hold[q] = x
        BY <1>t, <2>2, <2>5, <3>2
      <4> QED BY <2>6, <3>2, <4>1 DEF PlaceInv
    <3> QED BY <3>1, <3>2
  <2>10. ASSUME NEW u \in Procs, NEW q \in Procs, hold'[u] \in Msgs
         PROVE  hold'[u] # r_msg[q] /\ (hold'[u] = hold'[q] => u = q)
    BY <2>5, <2>7, <2>10 DEF PlaceInv
  <2>11. ASSUME NEW u \in Procs, NEW k \in DOMAIN s
         PROVE  s[k] # hold'[u] /\ s[k] # r_msg[u]
    BY <2>3, <2>5 DEF PlaceInv
  <2> QED BY <2>1, <2>3, <2>9, <2>10, <2>11 DEF PlaceInv
<1>21. ASSUME NEW p \in Procs, rcv_sleep(p) PROVE PlaceInv'
  <2>1. r_msg[p] \notin Msgs
    BY <1>21 DEF rcv_sleep, AtTop, HoldInv, HasFrame
  <2>q. SameAnswers /\ UNCHANGED <<hold, q_messages, alloc>>
    BY <1>21, <1>t, <2>1 DEF rcv_sleep, AtTop, LeaveRcu, Goto, SameAnswers, Codes
  <2> QED BY <2>q, PlaceQuiet
<1>22. ASSUME NEW p \in Procs, rcv_wake(p) PROVE PlaceInv'
  <2>q. SameAnswers /\ UNCHANGED <<hold, q_messages, alloc>>
    BY <1>22, <1>t DEF rcv_wake, Goto, SameAnswers, Codes
  <2> QED BY <2>q, PlaceQuiet
<1>23. ASSUME NEW p \in Procs, rcv_spin(p) PROVE PlaceInv'
  <2>1. CASE r_msg[p] # "EAGAIN"
    <3>1. CASE r_msg[p] \in Msgs
      <4>1. /\ hold' = [hold EXCEPT ![p] = r_msg[p]] /\ r_msg' = [r_msg EXCEPT ![p] = "EAGAIN"]
            /\ UNCHANGED <<q_messages, alloc>>
        BY <1>23, <2>1, <3>1 DEF rcv_spin, Accept
      <4>2. hold[p] = NoMsg
        BY <1>23 DEF rcv_spin, HoldInv, CallInv
      <4>3. \A q \in Procs : /\ hold'[q] = IF q = p THEN r_msg[p] ELSE hold[q]
                             /\ q # p => r_msg'[q] = r_msg[q]
        BY <1>t, <4>1
      <4>4. r_msg'[p] \notin Msgs
        BY <1>t, <4>1 DEF Codes
      <4>5. ASSUME NEW m \in Msgs
            PROVE  m \in alloc' <=> \/ \E q \in Procs : hold'[q] = m \/ r_msg'[q] = m
                                    \/ \E i \in DOMAIN q_messages : q_messages[i] = m
        <5>1. CASE m = r_msg[p]
            BY <4>1, <4>3, <5>1 DEF PlaceInv
        <5>2. CASE m # r_msg[p]
          <6>1. \A q \in Procs : (hold'[q] = m <=> hold[q] = m) /\ (r_msg'[q] = m <=> r_msg[q] = m)
            BY <1>t, <4>2, <4>3, <4>4, <5>2
          <6> QED BY <4>1, <6>1 DEF PlaceInv
        <5> QED BY <5>1, <5>2
      <4>6. ASSUME NEW u \in Procs, NEW q \in Procs, hold'[u] \in Msgs
            PROVE  hold'[u] # r_msg'[q] /\ (hold'[u] = hold'[q] => u = q)
        BY <1>t, <3>1, <4>2, <4>3, <4>4, <4>6 DEF PlaceInv
      <4>7. ASSUME NEW u \in Procs, NEW q \in Procs, r_msg'[u] \in Msgs, r_msg'[u] = r_msg'[q]
            PROVE  u = q
        BY <4>3, <4>4, <4>7 DEF PlaceInv
      <4>8. \A u \in Procs, i \in DOMAIN q_messages :
                q_messages[i] # hold'[u] /\ q_messages[i] # r_msg'[u]
        <5>1. \A i \in DOMAIN q_messages : q_messages[i] \in Msgs
            BY <1>t
        <5> QED BY <4>3, <4>4, <5>1 DEF PlaceInv
      <4> QED BY <4>1, <4>5, <4>6, <4>7, <4>8 DEF PlaceInv
    <3>2. CASE r_msg[p] \notin Msgs
      <4>1. /\ SameAnswers /\ UNCHANGED q_messages
            /\ hold' = [hold EXCEPT ![p] = NoMsg] /\ alloc' = alloc \ {hold[p]}
        BY <1>23, <1>t, <2>1, <3>2 DEF rcv_spin, Accept, Return, SameAnswers, Codes
      <4> QED BY <4>1, PlaceFree
    <3> QED BY <3>1, <3>2
  <2>2. CASE r_msg[p] = "EAGAIN"
    <3>1. SameAnswers /\ UNCHANGED <<hold, q_messages, alloc>>
        BY <1>23, <2>2 DEF rcv_spin, SameAnswers
    <3> QED BY <3>1, PlaceQuiet
  <2> QED BY <2>1, <2>2
<1>24. ASSUME NEW p \in Procs, rcv_relock(p) PROVE PlaceInv'
  <2>1. CASE r_msg[p] # "EAGAIN"
    <3>1. CASE r_msg[p] \in Msgs
      <4>1. /\ hold' = [hold EXCEPT ![p] = r_msg[p]] /\ r_msg' = [r_msg EXCEPT ![p] = "EAGAIN"]
            /\ UNCHANGED <<q_messages, alloc>>
        BY <1>24, <2>1, <3>1 DEF rcv_relock, Accept
      <4>2. hold[p] = NoMsg
        BY <1>24 DEF rcv_relock, HoldInv, CallInv
      <4>3. \A q \in Procs : /\ hold'[q] = IF q = p THEN r_msg[p] ELSE hold[q]
                             /\ q # p => r_msg'[q] = r_msg[q]
        BY <1>t, <4>1
      <4>4. r_msg'[p] \notin Msgs
        BY <1>t, <4>1 DEF Codes
      <4>5. ASSUME NEW m \in Msgs
            PROVE  m \in alloc' <=> \/ \E q \in Procs : hold'[q] = m \/ r_msg'[q] = m
                                    \/ \E i \in DOMAIN q_messages : q_messages[i] = m
        <5>1. CASE m = r_msg[p]
            BY <4>1, <4>3, <5>1 DEF PlaceInv
        <5>2. CASE m # r_msg[p]
          <6>1. \A q \in Procs : (hold'[q] = m <=> hold[q] = m) /\ (r_msg'[q] = m <=> r_msg[q] = m)
            BY <1>t, <4>2, <4>3, <4>4, <5>2
          <6> QED BY <4>1, <6>1 DEF PlaceInv
        <5> QED BY <5>1, <5>2
      <4>6. ASSUME NEW u \in Procs, NEW q \in Procs, hold'[u] \in Msgs
            PROVE  hold'[u] # r_msg'[q] /\ (hold'[u] = hold'[q] => u = q)
        BY <1>t, <3>1, <4>2, <4>3, <4>4, <4>6 DEF PlaceInv
      <4>7. ASSUME NEW u \in Procs, NEW q \in Procs, r_msg'[u] \in Msgs, r_msg'[u] = r_msg'[q]
            PROVE  u = q
        BY <4>3, <4>4, <4>7 DEF PlaceInv
      <4>8. \A u \in Procs, i \in DOMAIN q_messages :
                q_messages[i] # hold'[u] /\ q_messages[i] # r_msg'[u]
        <5>1. \A i \in DOMAIN q_messages : q_messages[i] \in Msgs
            BY <1>t
        <5> QED BY <4>3, <4>4, <5>1 DEF PlaceInv
      <4> QED BY <4>1, <4>5, <4>6, <4>7, <4>8 DEF PlaceInv
    <3>2. CASE r_msg[p] \notin Msgs
      <4>1. /\ SameAnswers /\ UNCHANGED q_messages
            /\ hold' = [hold EXCEPT ![p] = NoMsg] /\ alloc' = alloc \ {hold[p]}
        BY <1>24, <1>t, <2>1, <3>2 DEF rcv_relock, Accept, Return, SameAnswers, Codes
      <4> QED BY <4>1, PlaceFree
    <3> QED BY <3>1, <3>2
  <2>2. CASE r_msg[p] = "EAGAIN"
    <3>1. SameAnswers /\ UNCHANGED q_messages
        BY <1>24, <2>2 DEF rcv_relock, SameAnswers
    <3>2. CASE UNCHANGED <<alloc, hold>>
        BY <3>1, <3>2, PlaceQuiet
    <3>3. CASE hold' = [hold EXCEPT ![p] = NoMsg] /\ alloc' = alloc \ {hold[p]}
        BY <3>1, <3>3, PlaceFree
    <3> QED BY <1>24, <2>2, <3>2, <3>3 DEF rcv_relock, UnlockReturn, Return
  <2> QED BY <2>1, <2>2
<1>25. ASSUME NEW p \in Procs, rcv_copy(p) PROVE PlaceInv'
  <2>q. /\ SameAnswers /\ UNCHANGED q_messages
        /\ hold' = [hold EXCEPT ![p] = NoMsg] /\ alloc' = alloc \ {hold[p]}
    BY <1>25, <1>t DEF rcv_copy, Return, Goto, SameAnswers, Codes
  <2> QED BY <2>q, PlaceFree
<1>26. ASSUME NEW p \in Procs, msgctl(p) PROVE PlaceInv'
  <2>q. SameAnswers /\ UNCHANGED <<hold, q_messages, alloc>>
    BY <1>26, <1>t DEF msgctl, Goto, SameAnswers, Codes
  <2> QED BY <2>q, PlaceQuiet
<1>27. ASSUME NEW p \in Procs, ctl_fail(p) PROVE PlaceInv'
  <2>q. /\ SameAnswers /\ UNCHANGED q_messages
        /\ hold' = [hold EXCEPT ![p] = NoMsg] /\ alloc' = alloc \ {hold[p]}
    BY <1>27, <1>t DEF ctl_fail, UnlockReturn, LeaveRcu, Return, Goto, SameAnswers, Codes
  <2> QED BY <2>q, PlaceFree
<1>28. ASSUME NEW p \in Procs, ctl_start(p) PROVE PlaceInv'
  <2>q. SameAnswers /\ UNCHANGED <<hold, q_messages, alloc>>
    BY <1>28, <1>t DEF ctl_start, Goto, SameAnswers, Codes
  <2> QED BY <2>q, PlaceQuiet
<1>29. ASSUME NEW p \in Procs, expunge_next(p) PROVE PlaceInv'
  <2> DEFINE i == tmp[p]
             w == q_receivers[i]
  <2>1. /\ pc[p] = "walk" /\ i \in DOMAIN q_receivers /\ w \in Procs
        /\ cmd[p] \in {"SET", "RMID"} /\ ~deleted
    BY <1>29, <1>t DEF expunge_next, CallInv, LifeInv
  <2>2. ~Expunged(i)
    BY <1>29, <1>t, <2>1 DEF Expunged, LockInv, Locked
  <2>3. w \in Procs /\ r_msg[w] \notin Msgs
    BY <1>t, <2>1, <2>2 DEF ReceiverInv, ListInv, Waiting, Codes
  <2>q. SameAnswers /\ UNCHANGED <<hold, q_messages, alloc>>
    BY <1>29, <1>t, <2>2, <2>3 DEF expunge_next, Goto, SameAnswers, Codes
  <2> QED BY <2>q, PlaceQuiet
<1>30. ASSUME NEW p \in Procs, expunge_set(p) PROVE PlaceInv'
  <2>1. msr[p] \in Procs /\ r_msg[msr[p]] \notin Msgs
    BY <1>30, <1>t DEF expunge_set, ReceiverInv, WakerInv, Codes
  <2>q. SameAnswers /\ UNCHANGED <<hold, q_messages, alloc>>
    BY <1>30, <1>t, <2>1 DEF expunge_set, Goto, SameAnswers, Codes
  <2> QED BY <2>q, PlaceQuiet
<1>31. ASSUME NEW p \in Procs, ctl_set_done(p) PROVE PlaceInv'
  <2>q. /\ SameAnswers /\ UNCHANGED q_messages
        /\ hold' = [hold EXCEPT ![p] = NoMsg] /\ alloc' = alloc \ {hold[p]}
    BY <1>31, <1>t DEF ctl_set_done, Woken, UnlockReturn, LeaveRcu, Return, Goto, SameAnswers, Codes
  <2> QED BY <2>q, PlaceFree
<1>32. ASSUME NEW p \in Procs, freeque_rmid(p) PROVE PlaceInv'
  <2>q. SameAnswers /\ UNCHANGED <<hold, q_messages, alloc>>
    BY <1>32, <1>t DEF freeque_rmid, Woken, LeaveRcu, Goto, SameAnswers, Codes
  <2> QED BY <2>q, PlaceQuiet
<1>33. ASSUME NEW p \in Procs, freeque_drain(p) PROVE PlaceInv'
  <2>1. UNCHANGED <<hold, r_msg>>
    BY <1>33 DEF freeque_drain
  <2>2. CASE q_messages = <<>>
    <3>1. SameAnswers /\ UNCHANGED <<q_messages, alloc>>
        BY <1>33, <2>1, <2>2 DEF freeque_drain, SameAnswers
    <3> QED BY <2>1, <3>1, PlaceQuiet
  <2>3. CASE q_messages # <<>>
    <3> DEFINE m == q_messages[1]
               s == Tail(q_messages)
    <3>1. alloc' = alloc \ {m} /\ q_messages' = s
        BY <1>33, <1>t, <2>3 DEF freeque_drain
    <3>2. /\ DOMAIN s = 1 .. Len(q_messages) - 1 /\ DOMAIN q_messages = 1 .. Len(q_messages)
          /\ Len(q_messages) \in Nat /\ Len(q_messages) > 0
          /\ \A j \in DOMAIN s : s[j] = q_messages[j + 1]
        BY <1>t, <2>3
    <3>3. \A j \in DOMAIN s : j + 1 \in DOMAIN q_messages /\ j + 1 # 1 /\ s[j] = q_messages[j + 1]
        BY <3>2
    <3>4. \A j \in DOMAIN q_messages : j # 1 => j - 1 \in DOMAIN s /\ s[j - 1] = q_messages[j]
        BY <3>2
    <3>5. 1 \in DOMAIN q_messages
        BY <3>2
    <3>6. m \in Msgs /\ \A q \in Procs : hold[q] # m /\ r_msg[q] # m
        BY <1>t, <3>5 DEF PlaceInv
    <3>7. \A j \in DOMAIN s : s[j] # m
        BY <3>3, <3>5 DEF PlaceInv
    <3>8. \A x : x # m => ((\E j \in DOMAIN s : s[j] = x) <=> \E j \in DOMAIN q_messages : q_messages[j] = x)
      <4> SUFFICES ASSUME NEW x, x # m
                   PROVE  (\E j \in DOMAIN s : s[j] = x) <=> \E j \in DOMAIN q_messages : q_messages[j] = x
        OBVIOUS
      <4>1. ASSUME NEW j \in DOMAIN s, s[j] = x PROVE \E k \in DOMAIN q_messages : q_messages[k] = x
        BY <3>3, <4>1
      <4>2. ASSUME NEW j \in DOMAIN q_messages, q_messages[j] = x PROVE \E k \in DOMAIN s : s[k] = x
        <5>1. j # 1
            BY <4>2
        <5> QED BY <3>4, <4>2, <5>1
      <4> QED BY <4>1, <4>2
    <3>9. \A j, k \in DOMAIN s : s[j] = s[k] => j = k
        BY <3>2, <3>3 DEF PlaceInv
    <3>10. ASSUME NEW u \in Procs, NEW j \in DOMAIN s
           PROVE  s[j] # hold[u] /\ s[j] # r_msg[u]
        BY <3>3 DEF PlaceInv
    <3> HIDE DEF m, s
    <3>11. ASSUME NEW x \in Msgs
           PROVE  x \in alloc' <=> \/ \E q \in Procs : hold[q] = x \/ r_msg[q] = x
                                   \/ \E k \in DOMAIN s : s[k] = x
      <4>1. CASE x = m
        BY <3>1, <3>6, <3>7, <4>1
      <4>2. CASE x # m
        BY <3>1, <3>8, <4>2 DEF PlaceInv
      <4> QED BY <4>1, <4>2
    <3> QED BY <2>1, <3>1, <3>9, <3>10, <3>11 DEF PlaceInv
  <2> QED BY <2>2, <2>3
<1>34. ASSUME NEW p \in Procs, freeque_putref(p) PROVE PlaceInv'
  <2>q. /\ SameAnswers /\ UNCHANGED q_messages
        /\ hold' = [hold EXCEPT ![p] = NoMsg] /\ alloc' = alloc \ {hold[p]}
    BY <1>34, <1>t DEF freeque_putref, PutStore, Return, Goto, SameAnswers, Codes
  <2> QED BY <2>q, PlaceFree
<1> QED BY <1>s, <1>1, <1>2, <1>3, <1>4, <1>5, <1>6, <1>7, <1>8, <1>9, <1>10, <1>11, <1>12, <1>13,
  <1>14, <1>15, <1>16, <1>17, <1>18, <1>19, <1>20, <1>21, <1>22, <1>23, <1>24, <1>25, <1>26, <1>27,
  <1>28, <1>29, <1>30, <1>31, <1>32, <1>33, <1>34 DEF Next, KernelStep, Procs

(* pipelined_send() acts on what it has checked.                           *)
LEMMA OfferStep ==
    ASSUME TypeOK, LockInv, CallInv, LifeInv, ReceiverInv, HoldInv, OfferInv, [Next]_vars
    PROVE  OfferInv'
<1> USE DEF perm, queue, acct, rcu, life, args, walk
<1>t. /\ pc \in [Procs -> Labels] /\ NoProc \notin Procs
      /\ cmd \in [Procs -> {"none", "SND", "RCV", "SET", "RMID"}]
      /\ hold \in [Procs -> Msgs \cup {NoMsg}] /\ req \in [Procs -> Requests]
      /\ msr \in [Procs -> Procs \cup {NoProc}] /\ q_receivers \in Seq(Procs)
  BY ConstantsAssumption DEF TypeOK, TypeTask, TypeQueue
<1>s. CASE UNCHANGED vars
  BY <1>s DEF vars, OfferInv, Fits
<1>1. ASSUME NEW p \in Procs, newque(p) PROVE OfferInv'
  <2>1. pc' = pc /\ \A u \in Procs : pc[u] \in {"idle", "find", "ret"}
    BY <1>1 DEF newque, LifeInv
  <2> QED BY <2>1 DEF OfferInv
<1>2. ASSUME NEW p \in Procs, ipc_find(p) PROVE OfferInv'
  <2> SUFFICES ASSUME NEW u \in Procs, cmd'[u] = "SND", pc'[u] \in {"scan", "wake", "set"}
               PROVE  Fits(hold[u])' /\ (pc'[u] \in {"wake", "set"} => Wants(req[msr[u]], hold[u])')
    BY DEF OfferInv
  <2> QED BY <1>2, <1>t DEF ipc_find, Goto, Return, OfferInv, Fits, LockInv, Locked, CallInv,
    ReceiverInv, WakerInv, HasFrame
<1>3. ASSUME NEW p \in Procs, ipc_lock_deleted(p) PROVE OfferInv'
  <2> SUFFICES ASSUME NEW u \in Procs, cmd'[u] = "SND", pc'[u] \in {"scan", "wake", "set"}
               PROVE  Fits(hold[u])' /\ (pc'[u] \in {"wake", "set"} => Wants(req[msr[u]], hold[u])')
    BY DEF OfferInv
  <2> QED BY <1>3, <1>t DEF ipc_lock_deleted, LeaveRcu, Return, Goto, OfferInv, Fits, LockInv,
    Locked, CallInv, ReceiverInv, WakerInv, HasFrame
<1>4. ASSUME NEW p \in Procs, SyscallExit(p) PROVE OfferInv'
  <2> SUFFICES ASSUME NEW u \in Procs, cmd'[u] = "SND", pc'[u] \in {"scan", "wake", "set"}
               PROVE  Fits(hold[u])' /\ (pc'[u] \in {"wake", "set"} => Wants(req[msr[u]], hold[u])')
    BY DEF OfferInv
  <2> QED BY <1>4, <1>t DEF SyscallExit, Goto, OfferInv, Fits, LockInv, Locked, CallInv,
    ReceiverInv, WakerInv, HasFrame
<1>5. ASSUME NEW p \in Procs, Signal(p) PROVE OfferInv'
  <2> SUFFICES ASSUME NEW u \in Procs, cmd'[u] = "SND", pc'[u] \in {"scan", "wake", "set"}
               PROVE  Fits(hold[u])' /\ (pc'[u] \in {"wake", "set"} => Wants(req[msr[u]], hold[u])')
    BY DEF OfferInv
  <2> QED BY <1>5, <1>t DEF Signal, OfferInv, Fits, LockInv, Locked, CallInv, ReceiverInv,
    WakerInv, HasFrame
<1>6. CASE ipc_immediate_free
  <2> SUFFICES ASSUME NEW u \in Procs, cmd'[u] = "SND", pc'[u] \in {"scan", "wake", "set"}
               PROVE  Fits(hold[u])' /\ (pc'[u] \in {"wake", "set"} => Wants(req[msr[u]], hold[u])')
    BY DEF OfferInv
  <2> QED BY <1>6, <1>t DEF ipc_immediate_free, OfferInv, Fits, LockInv, Locked, CallInv,
    ReceiverInv, WakerInv, HasFrame
<1>7. ASSUME NEW p \in Procs, msgsnd(p) PROVE OfferInv'
  <2> SUFFICES ASSUME NEW u \in Procs, cmd'[u] = "SND", pc'[u] \in {"scan", "wake", "set"}
               PROVE  Fits(hold[u])' /\ (pc'[u] \in {"wake", "set"} => Wants(req[msr[u]], hold[u])')
    BY DEF OfferInv
  <2> QED BY <1>7, <1>t DEF msgsnd, Goto, OfferInv, Fits, LockInv, Locked, CallInv, ReceiverInv,
    WakerInv, HasFrame
<1>8. ASSUME NEW p \in Procs, snd_fail(p) PROVE OfferInv'
  <2> SUFFICES ASSUME NEW u \in Procs, cmd'[u] = "SND", pc'[u] \in {"scan", "wake", "set"}
               PROVE  Fits(hold[u])' /\ (pc'[u] \in {"wake", "set"} => Wants(req[msr[u]], hold[u])')
    BY DEF OfferInv
  <2> QED BY <1>8, <1>t DEF snd_fail, AtTop, UnlockReturn, LeaveRcu, Return, Goto, OfferInv, Fits,
    LockInv, Locked, CallInv, ReceiverInv, WakerInv, HasFrame
<1>9. ASSUME NEW p \in Procs, snd_sleep(p) PROVE OfferInv'
  <2> SUFFICES ASSUME NEW u \in Procs, cmd'[u] = "SND", pc'[u] \in {"scan", "wake", "set"}
               PROVE  Fits(hold[u])' /\ (pc'[u] \in {"wake", "set"} => Wants(req[msr[u]], hold[u])')
    BY DEF OfferInv
  <2> QED BY <1>9, <1>t DEF snd_sleep, AtTop, ipc_rcu_getref, LeaveRcu, Goto, OfferInv, Fits,
    LockInv, Locked, CallInv, ReceiverInv, WakerInv, HasFrame
<1>10. ASSUME NEW p \in Procs, snd_relock(p) PROVE OfferInv'
  <2> SUFFICES ASSUME NEW u \in Procs, cmd'[u] = "SND", pc'[u] \in {"scan", "wake", "set"}
               PROVE  Fits(hold[u])' /\ (pc'[u] \in {"wake", "set"} => Wants(req[msr[u]], hold[u])')
    BY DEF OfferInv
  <2> QED BY <1>10, <1>t DEF snd_relock, Goto, OfferInv, Fits, LockInv, Locked, CallInv,
    ReceiverInv, WakerInv, HasFrame
<1>11. ASSUME NEW p \in Procs, snd_putref(p) PROVE OfferInv'
  <2> SUFFICES ASSUME NEW u \in Procs, cmd'[u] = "SND", pc'[u] \in {"scan", "wake", "set"}
               PROVE  Fits(hold[u])' /\ (pc'[u] \in {"wake", "set"} => Wants(req[msr[u]], hold[u])')
    BY DEF OfferInv
  <2> QED BY <1>11, <1>t DEF snd_putref, PutStore, Goto, OfferInv, Fits, LockInv, Locked, CallInv,
    ReceiverInv, WakerInv, HasFrame
<1>12. ASSUME NEW p \in Procs, snd_awake(p) PROVE OfferInv'
  <2> SUFFICES ASSUME NEW u \in Procs, cmd'[u] = "SND", pc'[u] \in {"scan", "wake", "set"}
               PROVE  Fits(hold[u])' /\ (pc'[u] \in {"wake", "set"} => Wants(req[msr[u]], hold[u])')
    BY DEF OfferInv
  <2> QED BY <1>12, <1>t DEF snd_awake, UnlockReturn, LeaveRcu, Return, Goto, OfferInv, Fits,
    LockInv, Locked, CallInv, ReceiverInv, WakerInv, HasFrame
<1>13. ASSUME NEW p \in Procs, snd_start(p) PROVE OfferInv'
  <2> SUFFICES ASSUME NEW u \in Procs, cmd'[u] = "SND", pc'[u] \in {"scan", "wake", "set"}
               PROVE  Fits(hold[u])' /\ (pc'[u] \in {"wake", "set"} => Wants(req[msr[u]], hold[u])')
    BY DEF OfferInv
  <2> QED BY <1>13, <1>t DEF snd_start, AtTop, Goto, OfferInv, Fits, LockInv, Locked, CallInv,
    ReceiverInv, WakerInv, HasFrame
<1>14. ASSUME NEW p \in Procs, pipelined_send(p) PROVE OfferInv'
  <2> DEFINE i == NextReceiver(hold[p])
  <2>1. /\ pc[p] = "scan" /\ cmd[p] = "SND" /\ UNCHANGED <<req, cmd, q_qbytes>>
        /\ \A u \in Procs : pc[u] \in {"scan", "wake", "set"} => u = p
    BY <1>14 DEF pipelined_send, LockInv, Locked
  <2>2. CASE i \in DOMAIN q_receivers
    <3> DEFINE I == {j \in 1 .. Len(q_receivers) : Wants(req[q_receivers[j]], hold[p])}
    <3>1. i = IF I # {} THEN Min(I) ELSE 0
        BY DEF NextReceiver, SelectInSeq
    <3>2. I \subseteq Nat /\ 0 \notin DOMAIN q_receivers
        BY <1>t
    <3>3. i \in I
      <4> HIDE DEF I, i
      <4> QED BY <2>2, <3>1, <3>2, MinOfNats
    <3>4. Wants(req[q_receivers[i]], hold[p])
        BY <3>3
    <3>5. /\ msr' = [msr EXCEPT ![p] = q_receivers[i]] /\ pc' = [pc EXCEPT ![p] = "wake"]
          /\ UNCHANGED <<queue, hold>>
        BY <1>14, <2>2 DEF pipelined_send, Goto
    <3> HIDE DEF I, i
    <3>6. \A u \in Procs : pc'[u] \in {"scan", "wake", "set"} => u = p
        BY <1>t, <2>1, <3>5
    <3>7. Fits(hold[p])'
        BY <2>1, <3>5 DEF OfferInv, Fits
    <3>8. msr'[p] = q_receivers[i]
        BY <1>t, <3>5
    <3> QED BY <2>1, <3>4, <3>5, <3>6, <3>7, <3>8 DEF OfferInv
  <2>3. CASE i \notin DOMAIN q_receivers
    <3>1. pc' = [pc EXCEPT ![p] = "unlk"]
        BY <1>14, <2>3 DEF pipelined_send, Goto
    <3>2. \A u \in Procs : pc'[u] \notin {"scan", "wake", "set"}
        BY <1>t, <2>1, <3>1
    <3> QED BY <3>2 DEF OfferInv
  <2> QED BY <2>2, <2>3
<1>15. ASSUME NEW p \in Procs, wake_receiver(p) PROVE OfferInv'
  <2> SUFFICES ASSUME NEW u \in Procs, cmd'[u] = "SND", pc'[u] \in {"scan", "wake", "set"}
               PROVE  Fits(hold[u])' /\ (pc'[u] \in {"wake", "set"} => Wants(req[msr[u]], hold[u])')
    BY DEF OfferInv
  <2> QED BY <1>15, <1>t DEF wake_receiver, Goto, Woken, OfferInv, Fits, LockInv, Locked, CallInv,
    ReceiverInv, WakerInv, HasFrame
<1>16. ASSUME NEW p \in Procs, deliver(p) PROVE OfferInv'
  <2> SUFFICES ASSUME NEW u \in Procs, cmd'[u] = "SND", pc'[u] \in {"scan", "wake", "set"}
               PROVE  Fits(hold[u])' /\ (pc'[u] \in {"wake", "set"} => Wants(req[msr[u]], hold[u])')
    BY DEF OfferInv
  <2> QED BY <1>16, <1>t DEF deliver, Goto, OfferInv, Fits, LockInv, Locked, CallInv, ReceiverInv,
    WakerInv, HasFrame
<1>17. ASSUME NEW p \in Procs, snd_done(p) PROVE OfferInv'
  <2> SUFFICES ASSUME NEW u \in Procs, cmd'[u] = "SND", pc'[u] \in {"scan", "wake", "set"}
               PROVE  Fits(hold[u])' /\ (pc'[u] \in {"wake", "set"} => Wants(req[msr[u]], hold[u])')
    BY DEF OfferInv
  <2> QED BY <1>17, <1>t DEF snd_done, UnlockReturn, LeaveRcu, Return, Goto, OfferInv, Fits,
    LockInv, Locked, CallInv, ReceiverInv, WakerInv, HasFrame
<1>18. ASSUME NEW p \in Procs, msgrcv(p) PROVE OfferInv'
  <2> SUFFICES ASSUME NEW u \in Procs, cmd'[u] = "SND", pc'[u] \in {"scan", "wake", "set"}
               PROVE  Fits(hold[u])' /\ (pc'[u] \in {"wake", "set"} => Wants(req[msr[u]], hold[u])')
    BY DEF OfferInv
  <2> QED BY <1>18, <1>t DEF msgrcv, Goto, OfferInv, Fits, LockInv, Locked, CallInv, ReceiverInv,
    WakerInv, HasFrame
<1>19. ASSUME NEW p \in Procs, rcv_fail(p) PROVE OfferInv'
  <2> SUFFICES ASSUME NEW u \in Procs, cmd'[u] = "SND", pc'[u] \in {"scan", "wake", "set"}
               PROVE  Fits(hold[u])' /\ (pc'[u] \in {"wake", "set"} => Wants(req[msr[u]], hold[u])')
    BY DEF OfferInv
  <2> QED BY <1>19, <1>t DEF rcv_fail, AtTop, UnlockReturn, LeaveRcu, Return, Goto, OfferInv, Fits,
    LockInv, Locked, CallInv, ReceiverInv, WakerInv, HasFrame
<1>20. ASSUME NEW p \in Procs, rcv_dequeue(p) PROVE OfferInv'
  <2> SUFFICES ASSUME NEW u \in Procs, cmd'[u] = "SND", pc'[u] \in {"scan", "wake", "set"}
               PROVE  Fits(hold[u])' /\ (pc'[u] \in {"wake", "set"} => Wants(req[msr[u]], hold[u])')
    BY DEF OfferInv
  <2> QED BY <1>20, <1>t DEF rcv_dequeue, AtTop, Unlink, LeaveRcu, Goto, Woken, OfferInv, Fits,
    LockInv, Locked, CallInv, ReceiverInv, WakerInv, HasFrame
<1>21. ASSUME NEW p \in Procs, rcv_sleep(p) PROVE OfferInv'
  <2> SUFFICES ASSUME NEW u \in Procs, cmd'[u] = "SND", pc'[u] \in {"scan", "wake", "set"}
               PROVE  Fits(hold[u])' /\ (pc'[u] \in {"wake", "set"} => Wants(req[msr[u]], hold[u])')
    BY DEF OfferInv
  <2> QED BY <1>21, <1>t DEF rcv_sleep, AtTop, LeaveRcu, Goto, OfferInv, Fits, LockInv, Locked,
    CallInv, ReceiverInv, WakerInv, HasFrame
<1>22. ASSUME NEW p \in Procs, rcv_wake(p) PROVE OfferInv'
  <2> SUFFICES ASSUME NEW u \in Procs, cmd'[u] = "SND", pc'[u] \in {"scan", "wake", "set"}
               PROVE  Fits(hold[u])' /\ (pc'[u] \in {"wake", "set"} => Wants(req[msr[u]], hold[u])')
    BY DEF OfferInv
  <2> QED BY <1>22, <1>t DEF rcv_wake, Goto, OfferInv, Fits, LockInv, Locked, CallInv, ReceiverInv,
    WakerInv, HasFrame
<1>23. ASSUME NEW p \in Procs, rcv_spin(p) PROVE OfferInv'
  <2> SUFFICES ASSUME NEW u \in Procs, cmd'[u] = "SND", pc'[u] \in {"scan", "wake", "set"}
               PROVE  Fits(hold[u])' /\ (pc'[u] \in {"wake", "set"} => Wants(req[msr[u]], hold[u])')
    BY DEF OfferInv
  <2> QED BY <1>23, <1>t DEF rcv_spin, Accept, LeaveRcu, Return, Goto, OfferInv, Fits, LockInv,
    Locked, CallInv, ReceiverInv, WakerInv, HasFrame
<1>24. ASSUME NEW p \in Procs, rcv_relock(p) PROVE OfferInv'
  <2> SUFFICES ASSUME NEW u \in Procs, cmd'[u] = "SND", pc'[u] \in {"scan", "wake", "set"}
               PROVE  Fits(hold[u])' /\ (pc'[u] \in {"wake", "set"} => Wants(req[msr[u]], hold[u])')
    BY DEF OfferInv
  <2> QED BY <1>24, <1>t DEF rcv_relock, Accept, UnlockReturn, LeaveRcu, Return, Goto, OfferInv,
    Fits, LockInv, Locked, CallInv, ReceiverInv, WakerInv, HasFrame
<1>25. ASSUME NEW p \in Procs, rcv_copy(p) PROVE OfferInv'
  <2> SUFFICES ASSUME NEW u \in Procs, cmd'[u] = "SND", pc'[u] \in {"scan", "wake", "set"}
               PROVE  Fits(hold[u])' /\ (pc'[u] \in {"wake", "set"} => Wants(req[msr[u]], hold[u])')
    BY DEF OfferInv
  <2> QED BY <1>25, <1>t DEF rcv_copy, Return, Goto, OfferInv, Fits, LockInv, Locked, CallInv,
    ReceiverInv, WakerInv, HasFrame
<1>26. ASSUME NEW p \in Procs, msgctl(p) PROVE OfferInv'
  <2> SUFFICES ASSUME NEW u \in Procs, cmd'[u] = "SND", pc'[u] \in {"scan", "wake", "set"}
               PROVE  Fits(hold[u])' /\ (pc'[u] \in {"wake", "set"} => Wants(req[msr[u]], hold[u])')
    BY DEF OfferInv
  <2> QED BY <1>26, <1>t DEF msgctl, Goto, OfferInv, Fits, LockInv, Locked, CallInv, ReceiverInv,
    WakerInv, HasFrame
<1>27. ASSUME NEW p \in Procs, ctl_fail(p) PROVE OfferInv'
  <2> SUFFICES ASSUME NEW u \in Procs, cmd'[u] = "SND", pc'[u] \in {"scan", "wake", "set"}
               PROVE  Fits(hold[u])' /\ (pc'[u] \in {"wake", "set"} => Wants(req[msr[u]], hold[u])')
    BY DEF OfferInv
  <2> QED BY <1>27, <1>t DEF ctl_fail, UnlockReturn, LeaveRcu, Return, Goto, OfferInv, Fits,
    LockInv, Locked, CallInv, ReceiverInv, WakerInv, HasFrame
<1>28. ASSUME NEW p \in Procs, ctl_start(p) PROVE OfferInv'
  <2> SUFFICES ASSUME NEW u \in Procs, cmd'[u] = "SND", pc'[u] \in {"scan", "wake", "set"}
               PROVE  Fits(hold[u])' /\ (pc'[u] \in {"wake", "set"} => Wants(req[msr[u]], hold[u])')
    BY DEF OfferInv
  <2> QED BY <1>28, <1>t DEF ctl_start, Goto, OfferInv, Fits, LockInv, Locked, CallInv,
    ReceiverInv, WakerInv, HasFrame
<1>29. ASSUME NEW p \in Procs, expunge_next(p) PROVE OfferInv'
  <2> SUFFICES ASSUME NEW u \in Procs, cmd'[u] = "SND", pc'[u] \in {"scan", "wake", "set"}
               PROVE  Fits(hold[u])' /\ (pc'[u] \in {"wake", "set"} => Wants(req[msr[u]], hold[u])')
    BY DEF OfferInv
  <2> QED BY <1>29, <1>t DEF expunge_next, Goto, OfferInv, Fits, LockInv, Locked, CallInv,
    ReceiverInv, WakerInv, HasFrame
<1>30. ASSUME NEW p \in Procs, expunge_set(p) PROVE OfferInv'
  <2> SUFFICES ASSUME NEW u \in Procs, cmd'[u] = "SND", pc'[u] \in {"scan", "wake", "set"}
               PROVE  Fits(hold[u])' /\ (pc'[u] \in {"wake", "set"} => Wants(req[msr[u]], hold[u])')
    BY DEF OfferInv
  <2> QED BY <1>30, <1>t DEF expunge_set, Goto, OfferInv, Fits, LockInv, Locked, CallInv,
    ReceiverInv, WakerInv, HasFrame
<1>31. ASSUME NEW p \in Procs, ctl_set_done(p) PROVE OfferInv'
  <2> SUFFICES ASSUME NEW u \in Procs, cmd'[u] = "SND", pc'[u] \in {"scan", "wake", "set"}
               PROVE  Fits(hold[u])' /\ (pc'[u] \in {"wake", "set"} => Wants(req[msr[u]], hold[u])')
    BY DEF OfferInv
  <2> QED BY <1>31, <1>t DEF ctl_set_done, Woken, UnlockReturn, LeaveRcu, Return, Goto, OfferInv,
    Fits, LockInv, Locked, CallInv, ReceiverInv, WakerInv, HasFrame
<1>32. ASSUME NEW p \in Procs, freeque_rmid(p) PROVE OfferInv'
  <2> SUFFICES ASSUME NEW u \in Procs, cmd'[u] = "SND", pc'[u] \in {"scan", "wake", "set"}
               PROVE  Fits(hold[u])' /\ (pc'[u] \in {"wake", "set"} => Wants(req[msr[u]], hold[u])')
    BY DEF OfferInv
  <2> QED BY <1>32, <1>t DEF freeque_rmid, Woken, LeaveRcu, Goto, OfferInv, Fits, LockInv, Locked,
    CallInv, ReceiverInv, WakerInv, HasFrame
<1>33. ASSUME NEW p \in Procs, freeque_drain(p) PROVE OfferInv'
  <2> SUFFICES ASSUME NEW u \in Procs, cmd'[u] = "SND", pc'[u] \in {"scan", "wake", "set"}
               PROVE  Fits(hold[u])' /\ (pc'[u] \in {"wake", "set"} => Wants(req[msr[u]], hold[u])')
    BY DEF OfferInv
  <2> QED BY <1>33, <1>t DEF freeque_drain, Goto, OfferInv, Fits, LockInv, Locked, CallInv,
    ReceiverInv, WakerInv, HasFrame
<1>34. ASSUME NEW p \in Procs, freeque_putref(p) PROVE OfferInv'
  <2> SUFFICES ASSUME NEW u \in Procs, cmd'[u] = "SND", pc'[u] \in {"scan", "wake", "set"}
               PROVE  Fits(hold[u])' /\ (pc'[u] \in {"wake", "set"} => Wants(req[msr[u]], hold[u])')
    BY DEF OfferInv
  <2> QED BY <1>34, <1>t DEF freeque_putref, PutStore, Return, Goto, OfferInv, Fits, LockInv,
    Locked, CallInv, ReceiverInv, WakerInv, HasFrame
<1> QED BY <1>s, <1>1, <1>2, <1>3, <1>4, <1>5, <1>6, <1>7, <1>8, <1>9, <1>10, <1>11, <1>12, <1>13,
  <1>14, <1>15, <1>16, <1>17, <1>18, <1>19, <1>20, <1>21, <1>22, <1>23, <1>24, <1>25, <1>26, <1>27,
  <1>28, <1>29, <1>30, <1>31, <1>32, <1>33, <1>34 DEF Next, KernelStep, Procs

(* WantInv can only be disturbed by a receiver that begins to wait and by  *)
(* a message that is queued.                                               *)
LEMMA WantQuiet ==
    ASSUME TypeOK, WantInv, ~deleted' => ~deleted,
           \A r \in Procs : Waiting(r)' => Waiting(r) /\ req'[r] = req[r],
           \A i \in DOMAIN q_messages' : \E j \in DOMAIN q_messages : q_messages'[i] = q_messages[j]
    PROVE  WantInv'
    BY DEF WantInv

(* Nobody waits beside a message that testmsg() accepts for it.            *)
LEMMA WantStep ==
    ASSUME TypeOK, LockInv, CallInv, LifeInv, ReceiverInv, PlaceInv, WantInv, [Next]_vars
    PROVE  WantInv'
<1> USE DEF perm, queue, acct, rcu, life, args, walk
<1>t. /\ pc \in [Procs -> Labels] /\ NoProc \notin Procs
      /\ cmd \in [Procs -> {"none", "SND", "RCV", "SET", "RMID"}]
      /\ hold \in [Procs -> Msgs \cup {NoMsg}] /\ r_msg \in [Procs -> Msgs \cup Codes]
      /\ req \in [Procs -> Requests] /\ msr \in [Procs -> Procs \cup {NoProc}]
      /\ q_receivers \in Seq(Procs) /\ q_messages \in Seq(Msgs) /\ tmp \in [Procs -> Nat]
      /\ Msgs \cap Codes = {} /\ Requests \subseteq RequestSet
  BY ConstantsAssumption DEF TypeOK, TypeTask, TypeQueue
<1>s. CASE UNCHANGED vars
  BY <1>s DEF vars, WantInv, Waiting, HasFrame
<1>1. ASSUME NEW p \in Procs, newque(p) PROVE WantInv'
  <2>1. q_messages' = <<>> /\ DOMAIN q_messages' = {}
    BY <1>1 DEF newque
  <2> QED BY <2>1 DEF WantInv
<1>2. ASSUME NEW p \in Procs, ipc_find(p) PROVE WantInv'
  <2>q. /\ ~deleted' => ~deleted
        /\ \A r \in Procs : Waiting(r)' => Waiting(r) /\ req'[r] = req[r]
    BY <1>2, <1>t DEF ipc_find, Goto, Return, Waiting, HasFrame, Codes
  <2>m. UNCHANGED q_messages
    BY <1>2 DEF ipc_find, Goto, Return
  <2> QED BY <2>q, <2>m, WantQuiet
<1>3. ASSUME NEW p \in Procs, ipc_lock_deleted(p) PROVE WantInv'
  <2>q. /\ ~deleted' => ~deleted
        /\ \A r \in Procs : Waiting(r)' => Waiting(r) /\ req'[r] = req[r]
    BY <1>3, <1>t DEF ipc_lock_deleted, LeaveRcu, Return, Goto, Waiting, HasFrame, Codes
  <2>m. UNCHANGED q_messages
    BY <1>3 DEF ipc_lock_deleted, LeaveRcu, Return, Goto
  <2> QED BY <2>q, <2>m, WantQuiet
<1>4. ASSUME NEW p \in Procs, SyscallExit(p) PROVE WantInv'
  <2>q. /\ ~deleted' => ~deleted
        /\ \A r \in Procs : Waiting(r)' => Waiting(r) /\ req'[r] = req[r]
    BY <1>4, <1>t DEF SyscallExit, Goto, Waiting, HasFrame, Codes
  <2>m. UNCHANGED q_messages
    BY <1>4 DEF SyscallExit, Goto
  <2> QED BY <2>q, <2>m, WantQuiet
<1>5. ASSUME NEW p \in Procs, Signal(p) PROVE WantInv'
  <2>q. /\ ~deleted' => ~deleted
        /\ \A r \in Procs : Waiting(r)' => Waiting(r) /\ req'[r] = req[r]
    BY <1>5, <1>t DEF Signal, Waiting, HasFrame, Codes
  <2>m. UNCHANGED q_messages
    BY <1>5 DEF Signal
  <2> QED BY <2>q, <2>m, WantQuiet
<1>6. CASE ipc_immediate_free
  <2>q. /\ ~deleted' => ~deleted
        /\ \A r \in Procs : Waiting(r)' => Waiting(r) /\ req'[r] = req[r]
    BY <1>6, <1>t DEF ipc_immediate_free, Waiting, HasFrame, Codes
  <2>m. UNCHANGED q_messages
    BY <1>6 DEF ipc_immediate_free
  <2> QED BY <2>q, <2>m, WantQuiet
<1>7. ASSUME NEW p \in Procs, msgsnd(p) PROVE WantInv'
  <2>q. /\ ~deleted' => ~deleted
        /\ \A r \in Procs : Waiting(r)' => Waiting(r) /\ req'[r] = req[r]
    BY <1>7, <1>t DEF msgsnd, Goto, Waiting, HasFrame, Codes
  <2>m. UNCHANGED q_messages
    BY <1>7 DEF msgsnd, Goto
  <2> QED BY <2>q, <2>m, WantQuiet
<1>8. ASSUME NEW p \in Procs, snd_fail(p) PROVE WantInv'
  <2>q. /\ ~deleted' => ~deleted
        /\ \A r \in Procs : Waiting(r)' => Waiting(r) /\ req'[r] = req[r]
    BY <1>8, <1>t DEF snd_fail, AtTop, UnlockReturn, LeaveRcu, Return, Goto, Waiting, HasFrame, Codes
  <2>m. UNCHANGED q_messages
    BY <1>8 DEF snd_fail, AtTop, UnlockReturn, LeaveRcu, Return, Goto
  <2> QED BY <2>q, <2>m, WantQuiet
<1>9. ASSUME NEW p \in Procs, snd_sleep(p) PROVE WantInv'
  <2>q. /\ ~deleted' => ~deleted
        /\ \A r \in Procs : Waiting(r)' => Waiting(r) /\ req'[r] = req[r]
    BY <1>9, <1>t DEF snd_sleep, AtTop, ipc_rcu_getref, LeaveRcu, Goto, Waiting, HasFrame, Codes
  <2>m. UNCHANGED q_messages
    BY <1>9 DEF snd_sleep, AtTop, ipc_rcu_getref, LeaveRcu, Goto
  <2> QED BY <2>q, <2>m, WantQuiet
<1>10. ASSUME NEW p \in Procs, snd_relock(p) PROVE WantInv'
  <2>q. /\ ~deleted' => ~deleted
        /\ \A r \in Procs : Waiting(r)' => Waiting(r) /\ req'[r] = req[r]
    BY <1>10, <1>t DEF snd_relock, Goto, Waiting, HasFrame, Codes
  <2>m. UNCHANGED q_messages
    BY <1>10 DEF snd_relock, Goto
  <2> QED BY <2>q, <2>m, WantQuiet
<1>11. ASSUME NEW p \in Procs, snd_putref(p) PROVE WantInv'
  <2>q. /\ ~deleted' => ~deleted
        /\ \A r \in Procs : Waiting(r)' => Waiting(r) /\ req'[r] = req[r]
    BY <1>11, <1>t DEF snd_putref, PutStore, Goto, Waiting, HasFrame, Codes
  <2>m. UNCHANGED q_messages
    BY <1>11 DEF snd_putref, PutStore, Goto
  <2> QED BY <2>q, <2>m, WantQuiet
<1>12. ASSUME NEW p \in Procs, snd_awake(p) PROVE WantInv'
  <2>q. /\ ~deleted' => ~deleted
        /\ \A r \in Procs : Waiting(r)' => Waiting(r) /\ req'[r] = req[r]
    BY <1>12, <1>t DEF snd_awake, UnlockReturn, LeaveRcu, Return, Goto, Waiting, HasFrame, Codes
  <2>m. UNCHANGED q_messages
    BY <1>12 DEF snd_awake, UnlockReturn, LeaveRcu, Return, Goto
  <2> QED BY <2>q, <2>m, WantQuiet
<1>13. ASSUME NEW p \in Procs, snd_start(p) PROVE WantInv'
  <2>q. /\ ~deleted' => ~deleted
        /\ \A r \in Procs : Waiting(r)' => Waiting(r) /\ req'[r] = req[r]
    BY <1>13, <1>t DEF snd_start, AtTop, Goto, Waiting, HasFrame, Codes
  <2>m. UNCHANGED q_messages
    BY <1>13 DEF snd_start, AtTop, Goto
  <2> QED BY <2>q, <2>m, WantQuiet
<1>14. ASSUME NEW p \in Procs, pipelined_send(p) PROVE WantInv'
  <2>1. pc[p] = "scan" /\ cmd[p] = "SND" /\ hold[p] \in Msgs /\ ~deleted
    BY <1>14 DEF pipelined_send, CallInv, LifeInv
  <2> DEFINE i == NextReceiver(hold[p])
  <2>2. CASE i \in DOMAIN q_receivers
    <3> DEFINE w == q_receivers[i]
    <3>1. ~Expunged(i)
        BY <1>14, <2>1 DEF Expunged, LockInv, Locked
    <3>2. w \in Procs /\ Waiting(w)
        BY <1>t, <2>1, <2>2, <3>1 DEF ReceiverInv, ListInv
    <3>3. /\ r_msg' = [r_msg EXCEPT ![w] = "NULL"] /\ pc' = [pc EXCEPT ![p] = "wake"]
          /\ UNCHANGED <<q_messages, req, deleted>>
        BY <1>14, <2>2 DEF pipelined_send, Goto
    <3> HIDE DEF i, w
    <3>4. \A r \in Procs : Waiting(r)' => Waiting(r) /\ req'[r] = req[r]
        BY <1>t, <2>1, <3>2, <3>3 DEF Waiting, HasFrame
    <3> QED BY <3>3, <3>4, WantQuiet
  <2>3. CASE i \notin DOMAIN q_receivers
    <3> DEFINE s == Append(q_messages, hold[p])
               n == Len(q_messages) + 1
    <3>1. /\ q_messages' = s /\ UNCHANGED <<r_msg, req, deleted>> /\ pc' = [pc EXCEPT ![p] = "unlk"]
        BY <1>14, <2>3 DEF pipelined_send, Goto
    <3>2. /\ DOMAIN s = DOMAIN q_messages \cup {n} /\ s[n] = hold[p]
          /\ \A j \in DOMAIN q_messages : s[j] = q_messages[j]
        BY <1>t, <2>1, AppendAt
    <3>3. \A j \in DOMAIN q_receivers : ~Wants(req[q_receivers[j]], hold[p])
      <4> DEFINE I == {j \in 1 .. Len(q_receivers) : Wants(req[q_receivers[j]], hold[p])}
      <4>1. I # {} => Min(I) \in I
        <5>1. I \subseteq Nat
            OBVIOUS
        <5> HIDE DEF I
        <5> QED BY <5>1, MinOfNats
      <4>2. i = IF I # {} THEN Min(I) ELSE 0
        BY DEF NextReceiver, SelectInSeq
      <4> HIDE DEF i
      <4>3. I = {}
        <5>1. I \subseteq DOMAIN q_receivers
            BY <1>t
        <5> HIDE DEF I
        <5> QED BY <2>3, <4>1, <4>2, <5>1
      <4>4. DOMAIN q_receivers = 1 .. Len(q_receivers)
        BY <1>t
      <4> QED BY <4>3, <4>4
    <3>4. \A r \in Procs : Waiting(r)' = Waiting(r)
        BY <1>t, <2>1, <3>1 DEF Waiting, HasFrame
    <3>5. \A r \in Procs : r_msg[r] # "NULL"
        BY <2>1 DEF ReceiverInv, WakerInv, LockInv, Locked
    <3>6. \A r \in Procs : Waiting(r) => ~Wants(req[r], hold[p])
        BY <3>3, <3>5 DEF Waiting, ReceiverInv, ListInv
    <3> HIDE DEF s, n, i
    <3> QED BY <2>1, <3>1, <3>2, <3>4, <3>6 DEF WantInv
  <2> QED BY <2>2, <2>3
<1>15. ASSUME NEW p \in Procs, wake_receiver(p) PROVE WantInv'
  <2>q. /\ ~deleted' => ~deleted
        /\ \A r \in Procs : Waiting(r)' => Waiting(r) /\ req'[r] = req[r]
    BY <1>15, <1>t DEF wake_receiver, Goto, Woken, Waiting, HasFrame, Codes
  <2>m. UNCHANGED q_messages
    BY <1>15 DEF wake_receiver, Goto, Woken
  <2> QED BY <2>q, <2>m, WantQuiet
<1>16. ASSUME NEW p \in Procs, deliver(p) PROVE WantInv'
  <2>1. msr[p] \in Procs /\ HasFrame(msr[p]) /\ r_msg[msr[p]] = "NULL" /\ hold[p] \in Msgs
    BY <1>16 DEF deliver, ReceiverInv, WakerInv, CallInv
  <2>q. /\ ~deleted' => ~deleted
        /\ \A r \in Procs : Waiting(r)' => Waiting(r) /\ req'[r] = req[r]
    BY <1>16, <1>t, <2>1 DEF deliver, Goto, Waiting, HasFrame, Codes
  <2>m. UNCHANGED q_messages
    BY <1>16 DEF deliver, Goto
  <2> QED BY <2>q, <2>m, WantQuiet
<1>17. ASSUME NEW p \in Procs, snd_done(p) PROVE WantInv'
  <2>q. /\ ~deleted' => ~deleted
        /\ \A r \in Procs : Waiting(r)' => Waiting(r) /\ req'[r] = req[r]
    BY <1>17, <1>t DEF snd_done, UnlockReturn, LeaveRcu, Return, Goto, Waiting, HasFrame, Codes
  <2>m. UNCHANGED q_messages
    BY <1>17 DEF snd_done, UnlockReturn, LeaveRcu, Return, Goto
  <2> QED BY <2>q, <2>m, WantQuiet
<1>18. ASSUME NEW p \in Procs, msgrcv(p) PROVE WantInv'
  <2>q. /\ ~deleted' => ~deleted
        /\ \A r \in Procs : Waiting(r)' => Waiting(r) /\ req'[r] = req[r]
    BY <1>18, <1>t DEF msgrcv, Goto, Waiting, HasFrame, Codes
  <2>m. UNCHANGED q_messages
    BY <1>18 DEF msgrcv, Goto
  <2> QED BY <2>q, <2>m, WantQuiet
<1>19. ASSUME NEW p \in Procs, rcv_fail(p) PROVE WantInv'
  <2>q. /\ ~deleted' => ~deleted
        /\ \A r \in Procs : Waiting(r)' => Waiting(r) /\ req'[r] = req[r]
    BY <1>19, <1>t DEF rcv_fail, AtTop, UnlockReturn, LeaveRcu, Return, Goto, Waiting, HasFrame, Codes
  <2>m. UNCHANGED q_messages
    BY <1>19 DEF rcv_fail, AtTop, UnlockReturn, LeaveRcu, Return, Goto
  <2> QED BY <2>q, <2>m, WantQuiet
<1>20. ASSUME NEW p \in Procs, rcv_dequeue(p) PROVE WantInv'
  <2> DEFINE i == FindMsg(q_messages, req[p])
  <2>1. i \in DOMAIN q_messages /\ q_messages' = RemoveAt(q_messages, i)
    BY <1>20 DEF rcv_dequeue, Unlink
  <2>m. \A k \in DOMAIN q_messages' : \E j \in DOMAIN q_messages : q_messages'[k] = q_messages[j]
    BY <1>t, <2>1, RemoveAtEntries, SMTT(30) DEF PlaceInv
  <2>q. /\ ~deleted' => ~deleted
        /\ \A r \in Procs : Waiting(r)' => Waiting(r) /\ req'[r] = req[r]
    BY <1>20, <1>t DEF rcv_dequeue, AtTop, Unlink, LeaveRcu, Goto, Woken, Waiting, HasFrame, Codes
  <2> QED BY <2>q, <2>m, WantQuiet
<1>21. ASSUME NEW p \in Procs, rcv_sleep(p) PROVE WantInv'
  <2>1. FindMsg(q_messages, req[p]) \notin DOMAIN q_messages
    BY <1>21 DEF rcv_sleep
  <2>2. \A j \in DOMAIN q_messages : ~Wants(req[p], q_messages[j])
    <3>1. req[p] \in RequestSet /\ DOMAIN q_messages = 1 .. Len(q_messages)
        BY <1>t
    <3>2. ~BestOf(q_messages, req[p], Len(q_messages), FindMsg(q_messages, req[p]))
        BY <2>1, <3>1 DEF BestOf
    <3> QED BY <1>t, <3>1, <3>2, FindsWanted
  <2>3. \A r \in Procs : Waiting(r)' => r = p \/ Waiting(r)
    BY <1>21, <1>t DEF rcv_sleep, Goto, Waiting, HasFrame
  <2>4. UNCHANGED <<q_messages, req, deleted>>
    BY <1>21 DEF rcv_sleep
  <2> QED BY <2>2, <2>3, <2>4 DEF WantInv
<1>22. ASSUME NEW p \in Procs, rcv_wake(p) PROVE WantInv'
  <2>q. /\ ~deleted' => ~deleted
        /\ \A r \in Procs : Waiting(r)' => Waiting(r) /\ req'[r] = req[r]
    BY <1>22, <1>t DEF rcv_wake, Goto, Waiting, HasFrame, Codes
  <2>m. UNCHANGED q_messages
    BY <1>22 DEF rcv_wake, Goto
  <2> QED BY <2>q, <2>m, WantQuiet
<1>23. ASSUME NEW p \in Procs, rcv_spin(p) PROVE WantInv'
  <2>q. /\ ~deleted' => ~deleted
        /\ \A r \in Procs : Waiting(r)' => Waiting(r) /\ req'[r] = req[r]
    BY <1>23, <1>t DEF rcv_spin, Accept, LeaveRcu, Return, Goto, Waiting, HasFrame, Codes
  <2>m. UNCHANGED q_messages
    BY <1>23 DEF rcv_spin, Accept, LeaveRcu, Return, Goto
  <2> QED BY <2>q, <2>m, WantQuiet
<1>24. ASSUME NEW p \in Procs, rcv_relock(p) PROVE WantInv'
  <2>q. /\ ~deleted' => ~deleted
        /\ \A r \in Procs : Waiting(r)' => Waiting(r) /\ req'[r] = req[r]
    BY <1>24, <1>t DEF rcv_relock, Accept, UnlockReturn, LeaveRcu, Return, Goto, Waiting, HasFrame, Codes
  <2>m. UNCHANGED q_messages
    BY <1>24 DEF rcv_relock, Accept, UnlockReturn, LeaveRcu, Return, Goto
  <2> QED BY <2>q, <2>m, WantQuiet
<1>25. ASSUME NEW p \in Procs, rcv_copy(p) PROVE WantInv'
  <2>q. /\ ~deleted' => ~deleted
        /\ \A r \in Procs : Waiting(r)' => Waiting(r) /\ req'[r] = req[r]
    BY <1>25, <1>t DEF rcv_copy, Return, Goto, Waiting, HasFrame, Codes
  <2>m. UNCHANGED q_messages
    BY <1>25 DEF rcv_copy, Return, Goto
  <2> QED BY <2>q, <2>m, WantQuiet
<1>26. ASSUME NEW p \in Procs, msgctl(p) PROVE WantInv'
  <2>q. /\ ~deleted' => ~deleted
        /\ \A r \in Procs : Waiting(r)' => Waiting(r) /\ req'[r] = req[r]
    BY <1>26, <1>t DEF msgctl, Goto, Waiting, HasFrame, Codes
  <2>m. UNCHANGED q_messages
    BY <1>26 DEF msgctl, Goto
  <2> QED BY <2>q, <2>m, WantQuiet
<1>27. ASSUME NEW p \in Procs, ctl_fail(p) PROVE WantInv'
  <2>q. /\ ~deleted' => ~deleted
        /\ \A r \in Procs : Waiting(r)' => Waiting(r) /\ req'[r] = req[r]
    BY <1>27, <1>t DEF ctl_fail, UnlockReturn, LeaveRcu, Return, Goto, Waiting, HasFrame, Codes
  <2>m. UNCHANGED q_messages
    BY <1>27 DEF ctl_fail, UnlockReturn, LeaveRcu, Return, Goto
  <2> QED BY <2>q, <2>m, WantQuiet
<1>28. ASSUME NEW p \in Procs, ctl_start(p) PROVE WantInv'
  <2>q. /\ ~deleted' => ~deleted
        /\ \A r \in Procs : Waiting(r)' => Waiting(r) /\ req'[r] = req[r]
    BY <1>28, <1>t DEF ctl_start, Goto, Waiting, HasFrame, Codes
  <2>m. UNCHANGED q_messages
    BY <1>28 DEF ctl_start, Goto
  <2> QED BY <2>q, <2>m, WantQuiet
<1>29. ASSUME NEW p \in Procs, expunge_next(p) PROVE WantInv'
  <2> DEFINE i == tmp[p]
             w == q_receivers[i]
  <2>1. /\ pc[p] = "walk" /\ i \in DOMAIN q_receivers /\ w \in Procs
        /\ cmd[p] \in {"SET", "RMID"} /\ ~deleted
    BY <1>29, <1>t DEF expunge_next, CallInv, LifeInv
  <2>2. ~Expunged(i)
    BY <1>29, <1>t, <2>1 DEF Expunged, LockInv, Locked
  <2>3. Waiting(w)
    BY <1>t, <2>1, <2>2 DEF ReceiverInv, ListInv
  <2>4. /\ r_msg' = [r_msg EXCEPT ![w] = "NULL"] /\ UNCHANGED <<deleted, req, q_messages>>
        /\ pc' = [pc EXCEPT ![p] = "wake"]
    BY <1>29 DEF expunge_next, Goto
  <2> HIDE DEF w, i
  <2>5. \A r \in Procs : Waiting(r)' => Waiting(r) /\ req'[r] = req[r]
    BY <1>t, <2>1, <2>3, <2>4 DEF Waiting, HasFrame
  <2> QED BY <2>4, <2>5, WantQuiet
<1>30. ASSUME NEW p \in Procs, expunge_set(p) PROVE WantInv'
  <2>1. msr[p] \in Procs /\ HasFrame(msr[p]) /\ r_msg[msr[p]] = "NULL"
    BY <1>30 DEF expunge_set, ReceiverInv, WakerInv
  <2>q. /\ ~deleted' => ~deleted
        /\ \A r \in Procs : Waiting(r)' => Waiting(r) /\ req'[r] = req[r]
    BY <1>30, <1>t, <2>1 DEF expunge_set, Goto, Waiting, HasFrame, Codes
  <2>m. UNCHANGED q_messages
    BY <1>30 DEF expunge_set, Goto
  <2> QED BY <2>q, <2>m, WantQuiet
<1>31. ASSUME NEW p \in Procs, ctl_set_done(p) PROVE WantInv'
  <2>q. /\ ~deleted' => ~deleted
        /\ \A r \in Procs : Waiting(r)' => Waiting(r) /\ req'[r] = req[r]
    BY <1>31, <1>t DEF ctl_set_done, Woken, UnlockReturn, LeaveRcu, Return, Goto, Waiting, HasFrame, Codes
  <2>m. UNCHANGED q_messages
    BY <1>31 DEF ctl_set_done, Woken, UnlockReturn, LeaveRcu, Return, Goto
  <2> QED BY <2>q, <2>m, WantQuiet
<1>32. ASSUME NEW p \in Procs, freeque_rmid(p) PROVE WantInv'
  BY <1>32 DEF freeque_rmid, WantInv
<1>33. ASSUME NEW p \in Procs, freeque_drain(p) PROVE WantInv'
  BY <1>33 DEF freeque_drain, WantInv, LifeInv
<1>34. ASSUME NEW p \in Procs, freeque_putref(p) PROVE WantInv'
  <2>q. /\ ~deleted' => ~deleted
        /\ \A r \in Procs : Waiting(r)' => Waiting(r) /\ req'[r] = req[r]
    BY <1>34, <1>t DEF freeque_putref, PutStore, Return, Goto, Waiting, HasFrame, Codes
  <2>m. UNCHANGED q_messages
    BY <1>34 DEF freeque_putref, PutStore, Return, Goto
  <2> QED BY <2>q, <2>m, WantQuiet
<1> QED BY <1>s, <1>1, <1>2, <1>3, <1>4, <1>5, <1>6, <1>7, <1>8, <1>9, <1>10, <1>11, <1>12, <1>13,
  <1>14, <1>15, <1>16, <1>17, <1>18, <1>19, <1>20, <1>21, <1>22, <1>23, <1>24, <1>25, <1>26, <1>27,
  <1>28, <1>29, <1>30, <1>31, <1>32, <1>33, <1>34 DEF Next, KernelStep, Procs

-----------------------------------------------------------------------------

LEMMA InitData == Init => DataInv
<1> SUFFICES ASSUME Init PROVE DataInv
  OBVIOUS
<1> USE DEF Init
<1>t. /\ \A p \in Procs : /\ pc[p] = "idle" /\ hold[p] = NoMsg /\ r_msg[p] = "EAGAIN"
                          /\ cmd[p] = "none"
      /\ q_messages = <<>> /\ DOMAIN q_messages = {} /\ Len(q_messages) = 0
      /\ q_senders = <<>> /\ DOMAIN q_senders = {}
      /\ deleted = FALSE /\ alloc = {}
      /\ NoMsg \notin Msgs /\ "EAGAIN" \notin Msgs
  BY ConstantsAssumption DEF Codes
<1>1. SenderInv
  BY <1>t DEF SenderInv, HasSender
<1>2. MutexInv
  BY <1>t DEF MutexInv
<1>3. RoomInv
  BY <1>t DEF RoomInv
<1>4. AcctInv
  BY <1>t, SizeEmpty DEF AcctInv
<1>5. HoldInv
  BY <1>t DEF HoldInv
<1>6. PlaceInv
  BY <1>t DEF PlaceInv
<1>7. WantInv
  BY <1>t DEF WantInv
<1>8. OfferInv
  BY <1>t DEF OfferInv
<1> QED BY <1>1, <1>2, <1>3, <1>4, <1>5, <1>6, <1>7, <1>8 DEF DataInv

(* Lists, counters and messages keep their invariant in every instance of  *)
(* the queue, whatever the number of tasks, messages and requests.         *)
THEOREM DataInductive == Spec => []AllInv
<1>1. AllInv /\ [Next]_vars => DataInv'
  <2> SUFFICES ASSUME AllInv, [Next]_vars PROVE DataInv'
    OBVIOUS
  <2>1. /\ TypeOK /\ LockInv /\ CallInv /\ LifeInv /\ ReceiverInv
        /\ SenderInv /\ MutexInv /\ RoomInv /\ AcctInv /\ HoldInv /\ PlaceInv /\ WantInv
        /\ OfferInv
    BY DEF AllInv, IInv, DataInv
  <2>2. SenderInv'
    BY <2>1, SenderStep
  <2>3. MutexInv'
    BY <2>1, MutexStep
  <2>4. RoomInv'
    BY <2>1, RoomStep
  <2>5. AcctInv'
    BY <2>1, AcctStep
  <2>6. HoldInv'
    BY <2>1, HoldStep
  <2>7. PlaceInv'
    BY <2>1, PlaceStep
  <2>8. WantInv'
    BY <2>1, WantStep
  <2>9. OfferInv'
    BY <2>1, OfferStep
  <2> QED BY <2>2, <2>3, <2>4, <2>5, <2>6, <2>7, <2>8, <2>9 DEF DataInv
<1>2. IInv /\ DataInv <=> AllInv
  BY DEF AllInv
<1> QED BY <1>1, <1>2, InitData, Inductive, PTL DEF Spec

(* list_del() never meets an unlinked entry: a receiver that is about to   *)
(* leave q_receivers is on it, and a sender that is about to leave         *)
(* q_senders (ss_del) as well.                                             *)
THEOREM UnlinkedOnce == Spec => []ListDelOnce
<1>1. AllInv => ListDelOnce
  <2> SUFFICES ASSUME AllInv PROVE ListDelOnce
    OBVIOUS
  <2>1. \A p \in Procs : (HasFrame(p) /\ r_msg[p] = "EAGAIN") => p \in ToSet(q_receivers)
    BY DEF AllInv, IInv, ReceiverInv, ListInv, ToSet
  <2>2. \A p \in Procs : (pc[p] \in HasSender /\ ~deleted) => p \in ToSet(q_senders)
    BY DEF AllInv, DataInv, SenderInv, ToSet
  <2> QED BY <2>1, <2>2 DEF ListDelOnce, HasSender
<1> QED BY <1>1, DataInductive, PTL

(* With the lock free no sender sleeps beside room for its message:        *)
(* msgrcv() and IPC_SET have woken everybody by then.                      *)
THEOREM RoomIsSeen == Spec => []NoMissedRoom
<1>1. AllInv => NoMissedRoom
  <2> SUFFICES ASSUME AllInv, lock = NoProc, ~deleted,
                      NEW s \in ToSet(q_senders), state[s] = "INT"
               PROVE  ~Fits(hold[s])
    BY DEF NoMissedRoom
  <2>1. s \in Procs /\ \E i \in DOMAIN q_senders : q_senders[i] = s
    BY DEF ToSet, AllInv, IInv, TypeOK, TypeQueue
  <2>2. \A p \in Procs : pc[p] \notin Locked
    BY ConstantsAssumption DEF AllInv, IInv, LockInv
  <2>3. pc[s] = "ssleep"
    BY <2>1, <2>2 DEF AllInv, DataInv, SenderInv, HasSender, Locked
  <2> QED BY <2>1, <2>2, <2>3 DEF AllInv, DataInv, RoomInv, Locked
<1> QED BY <1>1, DataInductive, PTL

(* With the lock free the counters of the queue and of the namespace are   *)
(* those of the list, and IPC_RMID gives everything back.                  *)
THEOREM CountersAgree == Spec => []Accounting
<1>1. AllInv => Accounting
  <2> SUFFICES ASSUME AllInv, lock = NoProc
               PROVE  /\ msg_hdrs = Len(q_messages)
                      /\ ~deleted => /\ q_qnum = Len(q_messages)
                                     /\ q_cbytes = SizeOf(q_messages)
                                     /\ msg_bytes = q_cbytes
                      /\ (deleted /\ rw_mutex = NoProc) => msg_bytes = 0 /\ q_messages = <<>>
    BY DEF Accounting
  <2>1. AcctInv
    BY DEF AllInv, DataInv
  <2>2. ASSUME deleted, rw_mutex = NoProc PROVE msg_bytes = 0 /\ q_messages = <<>>
    <3>1. \A p \in Procs : pc[p] # "drain"
        BY <2>2, ConstantsAssumption DEF AllInv, IInv, CallInv, DataInv, MutexInv
    <3> QED BY <2>1, <2>2, <3>1 DEF AcctInv
  <2> QED BY <2>1, <2>2 DEF AcctInv
<1> QED BY <1>1, DataInductive, PTL

(* A message in allocated memory is in exactly one place, and freed memory *)
(* is in none: nothing is lost, received twice or leaked.                  *)
THEOREM NoMessageLost == Spec => []MessageConservation
<1>1. AllInv => MessageConservation
  <2> SUFFICES ASSUME AllInv, NEW m \in Msgs
               PROVE  Cardinality(Places(m)) = IF m \in alloc THEN 1 ELSE 0
    BY DEF MessageConservation
  <2>p. PlaceInv
    BY DEF AllInv, DataInv
  <2>1. \A x \in Places(m) :
            \/ \E p \in Procs : x = <<"hold", p>> /\ hold[p] = m
            \/ \E p \in Procs : x = <<"r_msg", p>> /\ r_msg[p] = m
            \/ \E i \in DOMAIN q_messages : x = <<"queue", i>> /\ q_messages[i] = m
    BY DEF Places
  <2>2. /\ \A p \in Procs : hold[p] = m => <<"hold", p>> \in Places(m)
        /\ \A p \in Procs : r_msg[p] = m => <<"r_msg", p>> \in Places(m)
        /\ \A i \in DOMAIN q_messages : q_messages[i] = m => <<"queue", i>> \in Places(m)
    BY DEF Places
  <2>3. CASE m \in alloc
    <3>1. PICK x \in Places(m) : TRUE
        BY <2>p, <2>2, <2>3 DEF PlaceInv
    <3>2. \A y \in Places(m) : y = x
        BY <2>p, <2>1, <3>1 DEF PlaceInv
    <3>3. Places(m) = {x}
        BY <3>1, <3>2
    <3> QED BY <2>3, <3>3, FS_Singleton
  <2>4. CASE m \notin alloc
    <3>1. Places(m) = {}
        BY <2>p, <2>1, <2>4 DEF PlaceInv
    <3> QED BY <2>4, <3>1, FS_EmptySet
  <2> QED BY <2>3, <2>4
<1> QED BY <1>1, DataInductive, PTL

(* With the lock free no receiver waits beside a message that it asked     *)
(* for.  The one request for which testmsg() is not what the comment above *)
(* convert_mode() promises is msgtyp = LONG_MIN, whose sign cannot be      *)
(* dropped.                                                                *)
THEOREM MessageIsSeen ==
    ASSUME \A r \in Requests : r.msgtyp # LONG_MIN
    PROVE  Spec => []NoMissedMessage
<1>1. AllInv => NoMissedMessage
  <2> SUFFICES ASSUME AllInv, lock = NoProc, ~deleted,
                      NEW r \in ToSet(q_receivers), r_msg[r] = "EAGAIN",
                      NEW m \in ToSet(q_messages)
               PROVE  ~Eligible(req[r], m)
    BY DEF NoMissedMessage
  <2>1. PICK i \in DOMAIN q_receivers : q_receivers[i] = r
    BY DEF ToSet
  <2>2. PICK j \in DOMAIN q_messages : q_messages[j] = m
    BY DEF ToSet
  <2>3. r \in Procs /\ m \in Msgs /\ req[r] \in Requests
    BY <2>1, <2>2 DEF AllInv, IInv, TypeOK, TypeQueue, TypeTask
  <2>4. ~Expunged(i)
    <3>1. \A p \in Procs : pc[p] \notin Locked
        BY ConstantsAssumption DEF AllInv, IInv, LockInv
    <3> QED BY <3>1 DEF Expunged, Locked
  <2>5. Waiting(r)
    BY <2>1, <2>4 DEF AllInv, IInv, ReceiverInv, ListInv
  <2>6. ~Wants(req[r], m)
    BY <2>2, <2>3, <2>5 DEF AllInv, DataInv, WantInv
  <2>7. req[r] \in RequestSet /\ req[r].msgtyp # LONG_MIN
    BY <2>3, ConstantsAssumption
  <2> QED BY <2>3, <2>6, <2>7, WantsEligible
<1> QED BY <1>1, DataInductive, PTL
-----------------------------------------------------------------------------
(* The refinement.                                                         *)

(* The operators of MsgSearch are the same in the abstract queue.          *)
LEMMA SameOps ==
    /\ \A r, m : Abs!Eligible(r, m) <=> Eligible(r, m)
    /\ \A r, m : Abs!TooBig(r, m) <=> TooBig(r, m)
    /\ \A s, i : Abs!RemoveAt(s, i) = RemoveAt(s, i)
    /\ \A s, r, i : Abs!IsBest(s, r, i) <=> IsBest(s, r, i)
    /\ \A s : Abs!SizeOf(s) = SizeOf(s)
<1>1. \A r, m : Abs!Eligible(r, m) <=> Eligible(r, m)
  BY DEF Abs!Eligible, Eligible
<1>2. \A r, m : Abs!TooBig(r, m) <=> TooBig(r, m)
  BY DEF Abs!TooBig, TooBig
<1>3. \A s, i : Abs!RemoveAt(s, i) = RemoveAt(s, i)
  BY DEF Abs!RemoveAt, RemoveAt
<1>4. \A s, r, i : Abs!IsBest(s, r, i) <=> IsBest(s, r, i)
  BY <1>1 DEF Abs!IsBest, IsBest, Abs!Better, Better
<1>5. \A s : Abs!SizeOf(s) = SizeOf(s)
  <2>1. \A f, D : Abs!SumFunctionOnSet(f, D) = SumFunctionOnSet(f, D)
    BY DEF Abs!SumFunctionOnSet, SumFunctionOnSet, Abs!FoldFunctionOnSet, FoldFunctionOnSet,
      Abs!MapThenFoldSet, MapThenFoldSet
  <2> QED BY <2>1 DEF Abs!SizeOf, SizeOf, Abs!SumFunction, SumFunction
<1> QED BY <1>1, <1>2, <1>3, <1>4, <1>5

(* A step that answers nobody leaves the abstract receivers as they are.   *)
LEMMA SameWaiting ==
    ASSUME \A r \in Procs : Waiting(r)' <=> Waiting(r),
           \A r \in Procs : Waiting(r) => req'[r] = req[r]
    PROVE  AbsWaiting' = AbsWaiting
<1>1. Unanswered' = Unanswered
  BY DEF Unanswered
<1>2. \A r \in Unanswered : req'[r] = req[r]
  BY DEF Unanswered
<1> QED BY <1>1, <1>2 DEF AbsWaiting

(* A step that answers w, or withdraws its request, is Without(w).         *)
LEMMA OneLess ==
    ASSUME NEW w \in Procs, Waiting(w),
           \A r \in Procs : Waiting(r)' <=> (Waiting(r) /\ r # w),
           \A r \in Procs : Waiting(r) => req'[r] = req[r]
    PROVE  /\ w \in DOMAIN AbsWaiting /\ AbsWaiting[w] = req[w]
           /\ AbsWaiting' = Abs!Without(w)
<1>1. Unanswered' = Unanswered \ {w} /\ w \in Unanswered
  BY DEF Unanswered
<1>2. \A r \in Unanswered : req'[r] = req[r]
  BY DEF Unanswered
<1> QED BY <1>1, <1>2 DEF AbsWaiting, Abs!Without

(* What no task receives stays with nobody.                                *)
LEMMA SameGot ==
    ASSUME \A r \in Procs : Received(r)' = Received(r)
    PROVE  AbsGot' = AbsGot
    BY DEF AbsGot

LEMMA OneGets ==
    ASSUME NEW w \in Procs, NEW m, Received(w)' = m,
           \A r \in Procs : r # w => Received(r)' = Received(r)
    PROVE  AbsGot' = [AbsGot EXCEPT ![w] = m]
    BY DEF AbsGot

(* Most steps are invisible.                                               *)
LEMMA Invisible ==
    ASSUME AbsPhase' = AbsPhase, AbsBox' = AbsBox, q_qbytes' = q_qbytes,
           \A r \in Procs : Waiting(r)' <=> Waiting(r),
           \A r \in Procs : Waiting(r) => req'[r] = req[r],
           \A r \in Procs : Received(r)' = Received(r)
    PROVE  [Abs!Next]_Abs!vars
    BY SameWaiting, SameGot DEF Abs!vars

(* An answered or withdrawn request is a Leave.                            *)
LEMMA Leaves ==
    ASSUME NEW w \in Procs, Waiting(w),
           AbsPhase' = AbsPhase, AbsBox' = AbsBox, q_qbytes' = q_qbytes,
           \A r \in Procs : Waiting(r)' <=> (Waiting(r) /\ r # w),
           \A r \in Procs : Waiting(r) => req'[r] = req[r],
           \A r \in Procs : Received(r)' = Received(r)
    PROVE  [Abs!Next]_Abs!vars
<1>1. Abs!Leave(w)
  BY OneLess, SameGot DEF Abs!Leave
<1> QED BY <1>1 DEF Abs!Next

(* Every step of the queue is one of the abstract queue, or invisible.     *)
LEMMA RefStep ==
    ASSUME AllInv, AllInv', [Next]_vars, \A r \in Requests : r.msgtyp # LONG_MIN
    PROVE  [Abs!Next]_Abs!vars
<1> USE DEF perm, queue, acct, rcu, life, args, walk
<1>i. /\ TypeOK /\ LockInv /\ CallInv /\ LifeInv /\ ReceiverInv
      /\ AcctInv /\ HoldInv /\ PlaceInv /\ WantInv /\ OfferInv
      /\ LifeInv' /\ ReceiverInv' /\ AcctInv' /\ WantInv'
  BY DEF AllInv, IInv, DataInv
<1>t. /\ pc \in [Procs -> Labels] /\ NoProc \notin Procs
      /\ cmd \in [Procs -> {"none", "SND", "RCV", "SET", "RMID"}]
      /\ hold \in [Procs -> Msgs \cup {NoMsg}] /\ r_msg \in [Procs -> Msgs \cup Codes]
      /\ req \in [Procs -> Requests] /\ msr \in [Procs -> Procs \cup {NoProc}]
      /\ q_receivers \in Seq(Procs) /\ q_messages \in Seq(Msgs) /\ tmp \in [Procs -> Nat]
      /\ mem \in {"none", "live", "rcu", "freed"} /\ deleted \in BOOLEAN
      /\ Msgs \cap Codes = {} /\ Requests \subseteq RequestSet /\ NoMsg \notin Msgs
      /\ \A r \in Procs : r_msg[r] \in Msgs => HasFrame(r) /\ cmd[r] = "RCV"
      /\ \A r \in Procs : (cmd[r] = "RCV" /\ pc[r] # "copy") => hold[r] = NoMsg
  BY <1>i, ConstantsAssumption DEF TypeOK, TypeTask, TypeQueue, HoldInv, CallInv, HasFrame
<1>s. CASE UNCHANGED vars
  BY <1>s DEF vars, Abs!vars, AbsPhase, AbsBox, AbsWaiting, AbsGot, Unanswered, Waiting, HasFrame,
    Received
<1>1. ASSUME NEW p \in Procs, newque(p) PROVE [Abs!Next]_Abs!vars
  <2>w. \A r \in Procs : (Waiting(r)' <=> Waiting(r)) /\ (Waiting(r) => req'[r] = req[r])
    BY <1>1, <1>t DEF newque, Waiting, HasFrame, Codes
  <2>g. \A r \in Procs : Received(r)' = Received(r)
    BY <1>1, <1>t DEF newque, Received, HasFrame, Codes
  <2>1. mem = "none" /\ ~deleted /\ q_messages = <<>>
    BY <1>1, <1>i DEF newque, LifeInv, AcctInv
  <2>2. /\ AbsPhase = "none" /\ AbsPhase' = "open" /\ AbsBox' = AbsBox /\ q_qbytes' = msg_ctlmnb
    BY <1>1, <2>1 DEF newque, AbsPhase, AbsBox
  <2>3. Abs!Create
    BY <2>2, <2>w, <2>g, SameWaiting, SameGot DEF Abs!Create
  <2> QED BY <2>3 DEF Abs!Next
<1>2. ASSUME NEW p \in Procs, ipc_find(p) PROVE [Abs!Next]_Abs!vars
  <2>p. AbsPhase' = AbsPhase /\ AbsBox' = AbsBox /\ q_qbytes' = q_qbytes
    BY <1>2 DEF ipc_find, Goto, Return, AbsPhase, AbsBox
  <2>w. \A r \in Procs : (Waiting(r)' <=> Waiting(r)) /\ (Waiting(r) => req'[r] = req[r])
    BY <1>2, <1>t DEF ipc_find, Goto, Return, Waiting, HasFrame, Codes
  <2>g. \A r \in Procs : Received(r)' = Received(r)
    BY <1>2, <1>t DEF ipc_find, Goto, Return, Received, HasFrame, Codes
  <2> QED BY <2>p, <2>w, <2>g, Invisible
<1>3. ASSUME NEW p \in Procs, ipc_lock_deleted(p) PROVE [Abs!Next]_Abs!vars
  <2>p. AbsPhase' = AbsPhase /\ AbsBox' = AbsBox /\ q_qbytes' = q_qbytes
    BY <1>3 DEF ipc_lock_deleted, LeaveRcu, Return, Goto, AbsPhase, AbsBox
  <2>w. \A r \in Procs : (Waiting(r)' <=> Waiting(r)) /\ (Waiting(r) => req'[r] = req[r])
    BY <1>3, <1>t DEF ipc_lock_deleted, LeaveRcu, Return, Goto, Waiting, HasFrame, Codes
  <2>g. \A r \in Procs : Received(r)' = Received(r)
    BY <1>3, <1>t DEF ipc_lock_deleted, LeaveRcu, Return, Goto, Received, HasFrame, Codes
  <2> QED BY <2>p, <2>w, <2>g, Invisible
<1>4. ASSUME NEW p \in Procs, SyscallExit(p) PROVE [Abs!Next]_Abs!vars
  <2>p. AbsPhase' = AbsPhase /\ AbsBox' = AbsBox /\ q_qbytes' = q_qbytes
    BY <1>4 DEF SyscallExit, Goto, AbsPhase, AbsBox
  <2>w. \A r \in Procs : (Waiting(r)' <=> Waiting(r)) /\ (Waiting(r) => req'[r] = req[r])
    BY <1>4, <1>t DEF SyscallExit, Goto, Waiting, HasFrame, Codes
  <2>g. \A r \in Procs : Received(r)' = Received(r)
    BY <1>4, <1>t DEF SyscallExit, Goto, Received, HasFrame, Codes
  <2> QED BY <2>p, <2>w, <2>g, Invisible
<1>5. ASSUME NEW p \in Procs, Signal(p) PROVE [Abs!Next]_Abs!vars
  <2>p. AbsPhase' = AbsPhase /\ AbsBox' = AbsBox /\ q_qbytes' = q_qbytes
    BY <1>5 DEF Signal, AbsPhase, AbsBox
  <2>w. \A r \in Procs : (Waiting(r)' <=> Waiting(r)) /\ (Waiting(r) => req'[r] = req[r])
    BY <1>5, <1>t DEF Signal, Waiting, HasFrame, Codes
  <2>g. \A r \in Procs : Received(r)' = Received(r)
    BY <1>5, <1>t DEF Signal, Received, HasFrame, Codes
  <2> QED BY <2>p, <2>w, <2>g, Invisible
<1>6. CASE ipc_immediate_free
  <2>p. AbsPhase' = AbsPhase /\ AbsBox' = AbsBox /\ q_qbytes' = q_qbytes
    BY <1>6 DEF ipc_immediate_free, AbsPhase, AbsBox
  <2>w. \A r \in Procs : (Waiting(r)' <=> Waiting(r)) /\ (Waiting(r) => req'[r] = req[r])
    BY <1>6, <1>t DEF ipc_immediate_free, Waiting, HasFrame, Codes
  <2>g. \A r \in Procs : Received(r)' = Received(r)
    BY <1>6, <1>t DEF ipc_immediate_free, Received, HasFrame, Codes
  <2> QED BY <2>p, <2>w, <2>g, Invisible
<1>7. ASSUME NEW p \in Procs, msgsnd(p) PROVE [Abs!Next]_Abs!vars
  <2>p. AbsPhase' = AbsPhase /\ AbsBox' = AbsBox /\ q_qbytes' = q_qbytes
    BY <1>7 DEF msgsnd, Goto, AbsPhase, AbsBox
  <2>w. \A r \in Procs : (Waiting(r)' <=> Waiting(r)) /\ (Waiting(r) => req'[r] = req[r])
    BY <1>7, <1>t DEF msgsnd, Goto, Waiting, HasFrame, Codes
  <2>g. \A r \in Procs : Received(r)' = Received(r)
    BY <1>7, <1>t DEF msgsnd, Goto, Received, HasFrame, Codes
  <2> QED BY <2>p, <2>w, <2>g, Invisible
<1>8. ASSUME NEW p \in Procs, snd_fail(p) PROVE [Abs!Next]_Abs!vars
  <2>p. AbsPhase' = AbsPhase /\ AbsBox' = AbsBox /\ q_qbytes' = q_qbytes
    BY <1>8 DEF snd_fail, AtTop, UnlockReturn, LeaveRcu, Return, Goto, AbsPhase, AbsBox
  <2>w. \A r \in Procs : (Waiting(r)' <=> Waiting(r)) /\ (Waiting(r) => req'[r] = req[r])
    BY <1>8, <1>t DEF snd_fail, AtTop, UnlockReturn, LeaveRcu, Return, Goto, Waiting, HasFrame, Codes
  <2>g. \A r \in Procs : Received(r)' = Received(r)
    BY <1>8, <1>t DEF snd_fail, AtTop, UnlockReturn, LeaveRcu, Return, Goto, Received, HasFrame, Codes
  <2> QED BY <2>p, <2>w, <2>g, Invisible
<1>9. ASSUME NEW p \in Procs, snd_sleep(p) PROVE [Abs!Next]_Abs!vars
  <2>p. AbsPhase' = AbsPhase /\ AbsBox' = AbsBox /\ q_qbytes' = q_qbytes
    BY <1>9 DEF snd_sleep, AtTop, ipc_rcu_getref, LeaveRcu, Goto, AbsPhase, AbsBox
  <2>w. \A r \in Procs : (Waiting(r)' <=> Waiting(r)) /\ (Waiting(r) => req'[r] = req[r])
    BY <1>9, <1>t DEF snd_sleep, AtTop, ipc_rcu_getref, LeaveRcu, Goto, Waiting, HasFrame, Codes
  <2>g. \A r \in Procs : Received(r)' = Received(r)
    BY <1>9, <1>t DEF snd_sleep, AtTop, ipc_rcu_getref, LeaveRcu, Goto, Received, HasFrame, Codes
  <2> QED BY <2>p, <2>w, <2>g, Invisible
<1>10. ASSUME NEW p \in Procs, snd_relock(p) PROVE [Abs!Next]_Abs!vars
  <2>p. AbsPhase' = AbsPhase /\ AbsBox' = AbsBox /\ q_qbytes' = q_qbytes
    BY <1>10 DEF snd_relock, Goto, AbsPhase, AbsBox
  <2>w. \A r \in Procs : (Waiting(r)' <=> Waiting(r)) /\ (Waiting(r) => req'[r] = req[r])
    BY <1>10, <1>t DEF snd_relock, Goto, Waiting, HasFrame, Codes
  <2>g. \A r \in Procs : Received(r)' = Received(r)
    BY <1>10, <1>t DEF snd_relock, Goto, Received, HasFrame, Codes
  <2> QED BY <2>p, <2>w, <2>g, Invisible
<1>11. ASSUME NEW p \in Procs, snd_putref(p) PROVE [Abs!Next]_Abs!vars
  <2>p. AbsPhase' = AbsPhase /\ AbsBox' = AbsBox /\ q_qbytes' = q_qbytes
    BY <1>11, <1>i, <1>t DEF snd_putref, PutStore, Goto, AbsPhase, AbsBox, LifeInv
  <2>w. \A r \in Procs : (Waiting(r)' <=> Waiting(r)) /\ (Waiting(r) => req'[r] = req[r])
    BY <1>11, <1>t DEF snd_putref, PutStore, Goto, Waiting, HasFrame, Codes
  <2>g. \A r \in Procs : Received(r)' = Received(r)
    BY <1>11, <1>t DEF snd_putref, PutStore, Goto, Received, HasFrame, Codes
  <2> QED BY <2>p, <2>w, <2>g, Invisible
<1>12. ASSUME NEW p \in Procs, snd_awake(p) PROVE [Abs!Next]_Abs!vars
  <2>p. AbsPhase' = AbsPhase /\ AbsBox' = AbsBox /\ q_qbytes' = q_qbytes
    BY <1>12 DEF snd_awake, UnlockReturn, LeaveRcu, Return, Goto, AbsPhase, AbsBox
  <2>w. \A r \in Procs : (Waiting(r)' <=> Waiting(r)) /\ (Waiting(r) => req'[r] = req[r])
    BY <1>12, <1>t DEF snd_awake, UnlockReturn, LeaveRcu, Return, Goto, Waiting, HasFrame, Codes
  <2>g. \A r \in Procs : Received(r)' = Received(r)
    BY <1>12, <1>t DEF snd_awake, UnlockReturn, LeaveRcu, Return, Goto, Received, HasFrame, Codes
  <2> QED BY <2>p, <2>w, <2>g, Invisible
<1>13. ASSUME NEW p \in Procs, snd_start(p) PROVE [Abs!Next]_Abs!vars
  <2>p. AbsPhase' = AbsPhase /\ AbsBox' = AbsBox /\ q_qbytes' = q_qbytes
    BY <1>13 DEF snd_start, AtTop, Goto, AbsPhase, AbsBox
  <2>w. \A r \in Procs : (Waiting(r)' <=> Waiting(r)) /\ (Waiting(r) => req'[r] = req[r])
    BY <1>13, <1>t DEF snd_start, AtTop, Goto, Waiting, HasFrame, Codes
  <2>g. \A r \in Procs : Received(r)' = Received(r)
    BY <1>13, <1>t DEF snd_start, AtTop, Goto, Received, HasFrame, Codes
  <2> QED BY <2>p, <2>w, <2>g, Invisible
<1>14. ASSUME NEW p \in Procs, pipelined_send(p) PROVE [Abs!Next]_Abs!vars
  <2> DEFINE i == NextReceiver(hold[p])
             m == hold[p]
  <2>1. /\ pc[p] = "scan" /\ cmd[p] = "SND" /\ m \in Msgs /\ ~deleted /\ mem # "none"
        /\ r_msg[p] \notin Msgs /\ UNCHANGED <<life, perm, req, cmd>>
    BY <1>14, <1>i, <1>t DEF pipelined_send, CallInv, LifeInv
  <2>2. CASE i \in DOMAIN q_receivers
    <3> DEFINE w == q_receivers[i]
    <3>1. ~Expunged(i)
        BY <1>14, <1>i, <2>1 DEF Expunged, LockInv, Locked
    <3>2. w \in Procs /\ Waiting(w)
        BY <1>i, <1>t, <2>1, <2>2, <3>1 DEF ReceiverInv, ListInv
    <3>3. /\ r_msg' = [r_msg EXCEPT ![w] = "NULL"] /\ pc' = [pc EXCEPT ![p] = "wake"]
          /\ UNCHANGED <<queue, hold>>
        BY <1>14, <2>2 DEF pipelined_send, Goto
    <3> HIDE DEF i, w
    <3>p. AbsPhase' = AbsPhase /\ AbsBox' = AbsBox /\ q_qbytes' = q_qbytes
        BY <2>1, <3>3 DEF AbsPhase, AbsBox
    <3>w. \A r \in Procs : (Waiting(r)' <=> Waiting(r)) /\ (Waiting(r) => req'[r] = req[r])
        BY <1>t, <2>1, <3>2, <3>3 DEF Waiting, HasFrame
    <3>g. \A r \in Procs : Received(r)' = Received(r)
        BY <1>t, <2>1, <3>2, <3>3 DEF Received, Waiting, Codes
    <3> QED BY <3>p, <3>w, <3>g, Invisible
  <2>3. CASE i \notin DOMAIN q_receivers
    <3> DEFINE s == Append(q_messages, m)
               n == Len(q_messages) + 1
    <3>1. /\ q_messages' = s /\ UNCHANGED r_msg /\ pc' = [pc EXCEPT ![p] = "unlk"]
          /\ hold' = [hold EXCEPT ![p] = NoMsg]
        BY <1>14, <2>3 DEF pipelined_send, Goto
    <3>2. n \in DOMAIN s /\ s[n] = m
        BY <1>t, <2>1, AppendAt
    <3> HIDE DEF i, n
    <3>w. \A r \in Procs : (Waiting(r)' <=> Waiting(r)) /\ (Waiting(r) => req'[r] = req[r])
        BY <1>t, <2>1, <3>1 DEF Waiting, HasFrame
    <3>g. \A r \in Procs : Received(r)' = Received(r)
        BY <1>t, <2>1, <3>1 DEF Received
    <3>3. AbsPhase = "open" /\ AbsPhase' = "open" /\ AbsBox = q_messages /\ AbsBox' = s
        BY <2>1, <3>1 DEF AbsPhase, AbsBox
    <3>4. ASSUME NEW r \in DOMAIN AbsWaiting PROVE ~Abs!Eligible(AbsWaiting[r], m)
      <4>1. r \in Procs /\ Waiting(r)' /\ AbsWaiting[r] = req[r] /\ req[r] \in Requests
        BY <1>t, <3>w, <3>4 DEF AbsWaiting, Unanswered
      <4>2. ~Wants(req[r], m)
        BY <1>i, <2>1, <3>1, <3>2, <4>1 DEF WantInv
      <4>3. ~Eligible(req[r], m)
        BY <1>t, <2>1, <4>1, <4>2, WantsEligible
      <4> QED BY <4>1, <4>3, SameOps
    <3>5. Abs!SizeOf(AbsBox) + MSize[m] <= q_qbytes /\ Len(AbsBox) < q_qbytes
      <4>1. Fits(m) /\ q_cbytes = SizeOf(q_messages) /\ q_qnum = Len(q_messages)
        BY <1>i, <2>1 DEF OfferInv, AcctInv
      <4>2. /\ SizeOf(q_messages) \in Int /\ MSize[m] \in Int /\ q_qbytes \in Int
            /\ Len(q_messages) \in Int
        BY <1>i, <1>t, <2>1, <4>1, MessageAssumption DEF TypeOK, TypeQueue
      <4>3. Abs!SizeOf(AbsBox) = SizeOf(q_messages)
        BY <3>3, SameOps
      <4> QED BY <3>3, <4>1, <4>2, <4>3 DEF Fits
    <3>6. AbsWaiting' = AbsWaiting /\ AbsGot' = AbsGot /\ q_qbytes' = q_qbytes
        BY <2>1, <3>w, <3>g, SameWaiting, SameGot
    <3>7. Abs!Post
        BY <2>1, <3>3, <3>4, <3>5, <3>6 DEF Abs!Post
    <3> QED BY <3>7 DEF Abs!Next
  <2> QED BY <2>2, <2>3
<1>15. ASSUME NEW p \in Procs, wake_receiver(p) PROVE [Abs!Next]_Abs!vars
  <2>p. AbsPhase' = AbsPhase /\ AbsBox' = AbsBox /\ q_qbytes' = q_qbytes
    BY <1>15 DEF wake_receiver, Goto, Woken, AbsPhase, AbsBox
  <2>w. \A r \in Procs : (Waiting(r)' <=> Waiting(r)) /\ (Waiting(r) => req'[r] = req[r])
    BY <1>15, <1>t DEF wake_receiver, Goto, Woken, Waiting, HasFrame, Codes
  <2>g. \A r \in Procs : Received(r)' = Received(r)
    BY <1>15, <1>t DEF wake_receiver, Goto, Woken, Received, HasFrame, Codes
  <2> QED BY <2>p, <2>w, <2>g, Invisible
<1>16. ASSUME NEW p \in Procs, deliver(p) PROVE [Abs!Next]_Abs!vars
  <2>a. pc[p] = "set" /\ cmd[p] = "SND"
    BY <1>16 DEF deliver
  <2>b. PICK w \in Procs : w = msr[p] /\ HasFrame(w) /\ r_msg[w] = "NULL"
    BY <1>i, <2>a DEF ReceiverInv, WakerInv
  <2>c. PICK m \in Msgs : m = hold[p]
    BY <1>i, <2>a DEF CallInv
  <2>1. /\ ~deleted /\ mem # "none" /\ Waiting(w) /\ w # p
        /\ r_msg[p] \notin Msgs /\ cmd[w] = "RCV" /\ req[w] \in Requests
    BY <1>i, <1>t, <2>a, <2>b DEF CallInv, LifeInv, HasFrame, Waiting
  <2>2. /\ UNCHANGED <<life, perm, queue, req, cmd>>
        /\ AbsPhase' = AbsPhase /\ AbsBox' = AbsBox /\ AbsPhase = "open" /\ AbsBox = q_messages
    BY <1>16, <2>1 DEF deliver, AbsPhase, AbsBox
  <2>3. CASE TooBig(req[w], m)
    <3>1. /\ r_msg' = [r_msg EXCEPT ![w] = "E2BIG"] /\ pc' = [pc EXCEPT ![p] = "scan"]
          /\ hold' = hold
        BY <1>16, <2>b, <2>c, <2>3 DEF deliver, Goto
    <3>w. \A r \in Procs : (Waiting(r)' <=> Waiting(r) /\ r # w) /\ (Waiting(r) => req'[r] = req[r])
        BY <1>t, <2>a, <2>b, <2>c, <2>1, <2>2, <3>1 DEF Waiting, HasFrame
    <3>g. \A r \in Procs : Received(r)' = Received(r)
        BY <1>t, <2>a, <2>b, <2>c, <2>1, <2>2, <3>1 DEF Received, Codes
    <3> QED BY <2>1, <2>2, <3>w, <3>g, Leaves
  <2>4. CASE ~TooBig(req[w], m)
    <3>1. /\ r_msg' = [r_msg EXCEPT ![w] = m] /\ pc' = [pc EXCEPT ![p] = "unlk"]
          /\ hold' = [hold EXCEPT ![p] = NoMsg]
        BY <1>16, <2>b, <2>c, <2>4 DEF deliver, Goto
    <3>2. Wants(req[w], m)
        BY <1>i, <2>a, <2>b, <2>c DEF OfferInv
    <3>3. \A i \in DOMAIN q_messages : q_messages[i] # m /\ ~Wants(req[w], q_messages[i])
        BY <1>i, <2>b, <2>c, <2>1 DEF PlaceInv, WantInv
    <3>w. \A r \in Procs : (Waiting(r)' <=> Waiting(r) /\ r # w) /\ (Waiting(r) => req'[r] = req[r])
        BY <1>t, <2>a, <2>b, <2>c, <2>1, <2>2, <3>1 DEF Waiting, HasFrame, Codes
    <3>g. Received(w)' = m /\ \A r \in Procs : r # w => Received(r)' = Received(r)
        BY <1>t, <2>a, <2>b, <2>c, <2>1, <2>2, <3>1 DEF Received, Codes
    <3>4. /\ w \in DOMAIN AbsWaiting /\ AbsWaiting[w] = req[w] /\ AbsWaiting' = Abs!Without(w)
        BY <2>1, <3>w, OneLess
    <3>5. AbsGot' = [AbsGot EXCEPT ![w] = m]
        BY <2>1, <3>g, OneGets
    <3>6. Abs!Eligible(AbsWaiting[w], m) /\ ~Abs!TooBig(AbsWaiting[w], m)
        BY <1>t, <2>1, <2>4, <3>2, <3>4, WantsEligible, SameOps
    <3>7. \A i \in DOMAIN AbsBox : AbsBox[i] # m /\ ~Abs!Eligible(AbsWaiting[w], AbsBox[i])
      <4>1. \A i \in DOMAIN q_messages : ~Eligible(req[w], q_messages[i])
        BY <1>t, <2>1, <3>3, WantsEligible
      <4> QED BY <2>2, <3>3, <3>4, <4>1, SameOps
    <3>8. Abs!Hand(w)
        BY <2>c, <2>2, <3>4, <3>5, <3>6, <3>7 DEF Abs!Hand
    <3> QED BY <2>1, <3>8 DEF Abs!Next
  <2> QED BY <2>3, <2>4
<1>17. ASSUME NEW p \in Procs, snd_done(p) PROVE [Abs!Next]_Abs!vars
  <2>p. AbsPhase' = AbsPhase /\ AbsBox' = AbsBox /\ q_qbytes' = q_qbytes
    BY <1>17 DEF snd_done, UnlockReturn, LeaveRcu, Return, Goto, AbsPhase, AbsBox
  <2>w. \A r \in Procs : (Waiting(r)' <=> Waiting(r)) /\ (Waiting(r) => req'[r] = req[r])
    BY <1>17, <1>t DEF snd_done, UnlockReturn, LeaveRcu, Return, Goto, Waiting, HasFrame, Codes
  <2>g. \A r \in Procs : Received(r)' = Received(r)
    BY <1>17, <1>t DEF snd_done, UnlockReturn, LeaveRcu, Return, Goto, Received, HasFrame, Codes
  <2> QED BY <2>p, <2>w, <2>g, Invisible
<1>18. ASSUME NEW p \in Procs, msgrcv(p) PROVE [Abs!Next]_Abs!vars
  <2>p. AbsPhase' = AbsPhase /\ AbsBox' = AbsBox /\ q_qbytes' = q_qbytes
    BY <1>18 DEF msgrcv, Goto, AbsPhase, AbsBox
  <2>w. \A r \in Procs : (Waiting(r)' <=> Waiting(r)) /\ (Waiting(r) => req'[r] = req[r])
    BY <1>18, <1>t DEF msgrcv, Goto, Waiting, HasFrame, Codes
  <2>g. \A r \in Procs : Received(r)' = Received(r)
    BY <1>18, <1>t, <1>i DEF msgrcv, Goto, Received, HasFrame, Codes, HoldInv
  <2> QED BY <2>p, <2>w, <2>g, Invisible
<1>19. ASSUME NEW p \in Procs, rcv_fail(p) PROVE [Abs!Next]_Abs!vars
  <2>p. AbsPhase' = AbsPhase /\ AbsBox' = AbsBox /\ q_qbytes' = q_qbytes
    BY <1>19 DEF rcv_fail, AtTop, UnlockReturn, LeaveRcu, Return, Goto, AbsPhase, AbsBox
  <2>w. \A r \in Procs : (Waiting(r)' <=> Waiting(r)) /\ (Waiting(r) => req'[r] = req[r])
    BY <1>19, <1>t DEF rcv_fail, AtTop, UnlockReturn, LeaveRcu, Return, Goto, Waiting, HasFrame, Codes
  <2>g. \A r \in Procs : Received(r)' = Received(r)
    BY <1>19, <1>t DEF rcv_fail, AtTop, UnlockReturn, LeaveRcu, Return, Goto, Received, HasFrame, Codes
  <2> QED BY <2>p, <2>w, <2>g, Invisible
<1>20. ASSUME NEW p \in Procs, rcv_dequeue(p) PROVE [Abs!Next]_Abs!vars
  <2> DEFINE i == FindMsg(q_messages, req[p])
             m == q_messages[i]
  <2>1. /\ pc[p] \in {"lock", "loop"} /\ cmd[p] = "RCV" /\ ~deleted /\ mem # "none"
        /\ i \in DOMAIN q_messages /\ ~TooBig(req[p], m) /\ req[p] \in Requests
        /\ r_msg[p] \notin Msgs /\ hold[p] = NoMsg
    BY <1>20, <1>i, <1>t DEF rcv_dequeue, AtTop, LifeInv, HasFrame
  <2>m. m \in Msgs
    BY <1>t, <2>1
  <2>2. /\ q_messages' = RemoveAt(q_messages, i) /\ hold' = [hold EXCEPT ![p] = m]
        /\ pc' = [pc EXCEPT ![p] = "copy"] /\ UNCHANGED <<life, perm, req, cmd, r_msg>>
    BY <1>20 DEF rcv_dequeue, Unlink, Goto
  <2>3. IsBest(q_messages, req[p], i)
    <3>1. FindsBest(q_messages, req[p])
        BY <1>t, <2>1, SearchCorrect
    <3>2. i # 0
        BY <1>t, <2>1
    <3> QED BY <3>1, <3>2 DEF FindsBest
  <2> HIDE DEF i, m
  <2>p. /\ AbsPhase = "open" /\ AbsPhase' = "open" /\ AbsBox = q_messages
        /\ AbsBox' = RemoveAt(q_messages, i) /\ q_qbytes' = q_qbytes
    BY <2>1, <2>2 DEF AbsPhase, AbsBox
  <2>w. \A r \in Procs : (Waiting(r)' <=> Waiting(r)) /\ (Waiting(r) => req'[r] = req[r])
    BY <1>t, <2>1, <2>2 DEF Waiting, HasFrame
  <2>g. Received(p)' = m /\ \A r \in Procs : r # p => Received(r)' = Received(r)
    BY <1>t, <2>1, <2>2, <2>m DEF Received
  <2>4. AbsGot[p] = NoMsg /\ p \notin DOMAIN AbsWaiting
    BY <1>t, <2>1 DEF AbsGot, Received, AbsWaiting, Unanswered, Waiting, HasFrame
  <2>5. AbsWaiting' = AbsWaiting /\ AbsGot' = [AbsGot EXCEPT ![p] = m]
    BY <2>w, <2>g, SameWaiting, OneGets
  <2>6. Abs!Take(p)
    <3>1. /\ Abs!IsBest(AbsBox, req[p], i) /\ ~Abs!TooBig(req[p], AbsBox[i]) /\ AbsBox[i] = m
          /\ AbsBox' = Abs!RemoveAt(AbsBox, i) /\ i \in DOMAIN AbsBox
        BY <2>1, <2>3, <2>p, SameOps DEF m
    <3> QED BY <2>1, <2>4, <2>5, <2>p, <3>1 DEF Abs!Take
  <2> QED BY <2>6 DEF Abs!Next
<1>21. ASSUME NEW p \in Procs, rcv_sleep(p) PROVE [Abs!Next]_Abs!vars
  <2>1. /\ pc[p] \in {"lock", "loop"} /\ cmd[p] = "RCV" /\ ~deleted /\ mem # "none"
        /\ req[p] \in Requests /\ r_msg[p] \notin Msgs /\ hold[p] = NoMsg
    BY <1>21, <1>i, <1>t DEF rcv_sleep, AtTop, LifeInv, HasFrame
  <2>2. /\ r_msg' = [r_msg EXCEPT ![p] = "EAGAIN"] /\ pc' = [pc EXCEPT ![p] = "rsleep"]
        /\ UNCHANGED <<life, perm, queue, req, cmd, hold>>
    BY <1>21 DEF rcv_sleep, Goto
  <2>3. \A j \in DOMAIN q_messages : ~Eligible(req[p], q_messages[j])
    <3>1. FindsBest(q_messages, req[p])
        BY <1>t, <2>1, SearchCorrect
    <3>2. FindMsg(q_messages, req[p]) \notin DOMAIN q_messages
        BY <1>21 DEF rcv_sleep
    <3> QED BY <3>1, <3>2 DEF FindsBest, IsBest
  <2>p. /\ AbsPhase = "open" /\ AbsPhase' = "open" /\ AbsBox = q_messages
        /\ AbsBox' = AbsBox /\ q_qbytes' = q_qbytes
    BY <2>1, <2>2 DEF AbsPhase, AbsBox
  <2>g. \A r \in Procs : Received(r)' = Received(r)
    BY <1>t, <2>1, <2>2 DEF Received, Codes
  <2>4. AbsGot[p] = NoMsg /\ p \notin Unanswered /\ Unanswered' = Unanswered \cup {p}
    BY <1>t, <2>1, <2>2 DEF AbsGot, Received, Unanswered, Waiting, HasFrame
  <2>5. AbsWaiting' = [q \in Unanswered \cup {p} |-> IF q = p THEN req[p] ELSE req[q]]
    BY <2>2, <2>4 DEF AbsWaiting
  <2>6. DOMAIN AbsWaiting = Unanswered /\ \A q \in Unanswered : AbsWaiting[q] = req[q]
    BY DEF AbsWaiting
  <2>7. AbsWaiting' = [q \in DOMAIN AbsWaiting \cup {p} |-> IF q = p THEN req[p] ELSE AbsWaiting[q]]
    BY <2>5, <2>6
  <2>8. \A j \in DOMAIN AbsBox : ~Abs!Eligible(req[p], AbsBox[j])
    BY <2>3, <2>p, SameOps
  <2>9. Abs!Wait(p)
    BY <2>1, <2>4, <2>6, <2>7, <2>8, <2>p, <2>g, SameGot DEF Abs!Wait
  <2> QED BY <2>9 DEF Abs!Next
<1>22. ASSUME NEW p \in Procs, rcv_wake(p) PROVE [Abs!Next]_Abs!vars
  <2>p. AbsPhase' = AbsPhase /\ AbsBox' = AbsBox /\ q_qbytes' = q_qbytes
    BY <1>22 DEF rcv_wake, Goto, AbsPhase, AbsBox
  <2>w. \A r \in Procs : (Waiting(r)' <=> Waiting(r)) /\ (Waiting(r) => req'[r] = req[r])
    BY <1>22, <1>t DEF rcv_wake, Goto, Waiting, HasFrame, Codes
  <2>g. \A r \in Procs : Received(r)' = Received(r)
    BY <1>22, <1>t DEF rcv_wake, Goto, Received, HasFrame, Codes
  <2> QED BY <2>p, <2>w, <2>g, Invisible
<1>23. ASSUME NEW p \in Procs, rcv_spin(p) PROVE [Abs!Next]_Abs!vars
  <2>p. AbsPhase' = AbsPhase /\ AbsBox' = AbsBox /\ q_qbytes' = q_qbytes
    BY <1>23 DEF rcv_spin, Accept, LeaveRcu, Return, Goto, AbsPhase, AbsBox
  <2>w. \A r \in Procs : (Waiting(r)' <=> Waiting(r)) /\ (Waiting(r) => req'[r] = req[r])
    BY <1>23, <1>t DEF rcv_spin, Accept, LeaveRcu, Return, Goto, Waiting, HasFrame, Codes
  <2>g. \A r \in Procs : Received(r)' = Received(r)
    BY <1>23, <1>t, <1>i DEF rcv_spin, Accept, LeaveRcu, Return, Goto, Received, HasFrame, Codes, CallInv
  <2> QED BY <2>p, <2>w, <2>g, Invisible
<1>24. ASSUME NEW p \in Procs, rcv_relock(p) PROVE [Abs!Next]_Abs!vars
  <2>p. AbsPhase' = AbsPhase /\ AbsBox' = AbsBox /\ q_qbytes' = q_qbytes
    BY <1>24 DEF rcv_relock, AbsPhase, AbsBox
  <2>1. pc[p] = "relock" /\ cmd[p] = "RCV" /\ UNCHANGED <<req, cmd>>
    BY <1>24, <1>i DEF rcv_relock, CallInv
  <2>2. CASE r_msg[p] = "EAGAIN"
    <3>1. /\ \E l \in {"ret", "loop"} : pc' = [pc EXCEPT ![p] = l]
          /\ r_msg' = r_msg /\ hold[p] = NoMsg /\ hold' = hold
        BY <1>24, <1>t, <2>1, <2>2 DEF rcv_relock, UnlockReturn, Return, Goto
    <3>w. \A r \in Procs : (Waiting(r)' <=> Waiting(r) /\ r # p) /\ (Waiting(r) => req'[r] = req[r])
        BY <1>t, <2>1, <3>1 DEF Waiting, HasFrame
    <3>g. \A r \in Procs : Received(r)' = Received(r)
        BY <2>1, <3>1 DEF Received
    <3>2. Waiting(p)
        BY <2>1, <2>2 DEF Waiting, HasFrame
    <3> QED BY <2>p, <3>w, <3>g, <3>2, Leaves
  <2>3. CASE r_msg[p] # "EAGAIN"
    <3>1. Accept(p)
        BY <1>24, <2>3 DEF rcv_relock
    <3>2. r_msg[p] # "NULL"
        BY <1>24, <1>i, <1>t, <2>1 DEF rcv_relock, ReceiverInv, WakerInv, LockInv, Locked
    <3>w. \A r \in Procs : (Waiting(r)' <=> Waiting(r)) /\ (Waiting(r) => req'[r] = req[r])
        BY <1>t, <2>1, <2>3, <3>1, <3>2 DEF Accept, Return, Goto, Waiting, HasFrame
    <3>g. \A r \in Procs : Received(r)' = Received(r)
        BY <1>t, <2>1, <2>3, <3>1 DEF Accept, Return, Goto, Received, Codes
    <3> QED BY <2>p, <3>w, <3>g, Invisible
  <2> QED BY <2>2, <2>3
<1>25. ASSUME NEW p \in Procs, rcv_copy(p) PROVE [Abs!Next]_Abs!vars
  <2>p. AbsPhase' = AbsPhase /\ AbsBox' = AbsBox /\ q_qbytes' = q_qbytes
    BY <1>25 DEF rcv_copy, AbsPhase, AbsBox
  <2>w. \A r \in Procs : (Waiting(r)' <=> Waiting(r)) /\ (Waiting(r) => req'[r] = req[r])
    BY <1>25, <1>t DEF rcv_copy, Return, Goto, Waiting, HasFrame
  <2>g. Received(p)' = NoMsg /\ \A r \in Procs : r # p => Received(r)' = Received(r)
    BY <1>25, <1>i, <1>t DEF rcv_copy, Return, Goto, Received, HasFrame, CallInv
  <2>1. CASE Received(p) = NoMsg
    <3>1. \A r \in Procs : Received(r)' = Received(r)
        BY <2>1, <2>g
    <3> QED BY <2>p, <2>w, <3>1, Invisible
  <2>2. CASE Received(p) # NoMsg
    <3>1. AbsGot[p] # NoMsg /\ AbsGot' = [AbsGot EXCEPT ![p] = NoMsg]
        BY <2>2, <2>g, OneGets DEF AbsGot
    <3>2. Abs!Home(p)
        BY <2>p, <2>w, <3>1, SameWaiting DEF Abs!Home
    <3> QED BY <3>2 DEF Abs!Next
  <2> QED BY <2>1, <2>2
<1>26. ASSUME NEW p \in Procs, msgctl(p) PROVE [Abs!Next]_Abs!vars
  <2>p. AbsPhase' = AbsPhase /\ AbsBox' = AbsBox /\ q_qbytes' = q_qbytes
    BY <1>26 DEF msgctl, Goto, AbsPhase, AbsBox
  <2>w. \A r \in Procs : (Waiting(r)' <=> Waiting(r)) /\ (Waiting(r) => req'[r] = req[r])
    BY <1>26, <1>t DEF msgctl, Goto, Waiting, HasFrame, Codes
  <2>g. \A r \in Procs : Received(r)' = Received(r)
    BY <1>26, <1>t DEF msgctl, Goto, Received, HasFrame, Codes
  <2> QED BY <2>p, <2>w, <2>g, Invisible
<1>27. ASSUME NEW p \in Procs, ctl_fail(p) PROVE [Abs!Next]_Abs!vars
  <2>p. AbsPhase' = AbsPhase /\ AbsBox' = AbsBox /\ q_qbytes' = q_qbytes
    BY <1>27 DEF ctl_fail, UnlockReturn, LeaveRcu, Return, Goto, AbsPhase, AbsBox
  <2>w. \A r \in Procs : (Waiting(r)' <=> Waiting(r)) /\ (Waiting(r) => req'[r] = req[r])
    BY <1>27, <1>t DEF ctl_fail, UnlockReturn, LeaveRcu, Return, Goto, Waiting, HasFrame, Codes
  <2>g. \A r \in Procs : Received(r)' = Received(r)
    BY <1>27, <1>t DEF ctl_fail, UnlockReturn, LeaveRcu, Return, Goto, Received, HasFrame, Codes
  <2> QED BY <2>p, <2>w, <2>g, Invisible
<1>28. ASSUME NEW p \in Procs, ctl_start(p) PROVE [Abs!Next]_Abs!vars
  <2>w. \A r \in Procs : (Waiting(r)' <=> Waiting(r)) /\ (Waiting(r) => req'[r] = req[r])
    BY <1>28, <1>t DEF ctl_start, Goto, Waiting, HasFrame, Codes
  <2>g. \A r \in Procs : Received(r)' = Received(r)
    BY <1>28, <1>t DEF ctl_start, Goto, Received, HasFrame, Codes
  <2>1. ~deleted /\ mem # "none" /\ cmd[p] \in {"SET", "RMID"}
    BY <1>28, <1>i, <1>t DEF ctl_start, LifeInv
  <2>2. AbsPhase = "open" /\ AbsPhase' = AbsPhase /\ AbsBox' = AbsBox
    BY <1>28, <2>1 DEF ctl_start, AbsPhase, AbsBox
  <2>3. CASE cmd[p] = "SET"
    <3>1. q_qbytes' \in QBytes
        BY <1>28, <2>3 DEF ctl_start
    <3>2. Abs!SetLimit
        BY <2>2, <2>w, <2>g, <3>1, SameWaiting, SameGot DEF Abs!SetLimit
    <3> QED BY <3>2 DEF Abs!Next
  <2>4. CASE cmd[p] = "RMID"
    <3>1. q_qbytes' = q_qbytes
        BY <1>28, <2>4 DEF ctl_start
    <3> QED BY <2>2, <2>w, <2>g, <3>1, Invisible
  <2> QED BY <2>1, <2>3, <2>4
<1>29. ASSUME NEW p \in Procs, expunge_next(p) PROVE [Abs!Next]_Abs!vars
  <2> DEFINE i == tmp[p]
             w == q_receivers[i]
  <2>1. /\ pc[p] = "walk" /\ i \in DOMAIN q_receivers /\ w \in Procs
        /\ cmd[p] \in {"SET", "RMID"} /\ ~deleted
    BY <1>29, <1>i, <1>t DEF expunge_next, CallInv, LifeInv
  <2>2. ~Expunged(i)
    BY <1>29, <1>i, <1>t, <2>1 DEF Expunged, LockInv, Locked
  <2>3. Waiting(w)
    BY <1>i, <1>t, <2>1, <2>2 DEF ReceiverInv, ListInv
  <2>4. /\ r_msg' = [r_msg EXCEPT ![w] = "NULL"] /\ UNCHANGED <<life, perm, queue, req, cmd, hold>>
        /\ pc' = [pc EXCEPT ![p] = "wake"]
    BY <1>29 DEF expunge_next, Goto
  <2> HIDE DEF w, i
  <2>p. AbsPhase' = AbsPhase /\ AbsBox' = AbsBox /\ q_qbytes' = q_qbytes
    BY <2>4 DEF AbsPhase, AbsBox
  <2>w. \A r \in Procs : (Waiting(r)' <=> Waiting(r)) /\ (Waiting(r) => req'[r] = req[r])
    BY <1>t, <2>1, <2>3, <2>4 DEF Waiting, HasFrame
  <2>g. \A r \in Procs : Received(r)' = Received(r)
    BY <1>t, <2>1, <2>3, <2>4 DEF Received, Waiting, Codes
  <2> QED BY <2>p, <2>w, <2>g, Invisible
<1>30. ASSUME NEW p \in Procs, expunge_set(p) PROVE [Abs!Next]_Abs!vars
  <2> DEFINE w == msr[p]
  <2>1. /\ pc[p] = "set" /\ cmd[p] \in {"SET", "RMID"}
        /\ w \in Procs /\ HasFrame(w) /\ r_msg[w] = "NULL" /\ Waiting(w) /\ w # p
    BY <1>30, <1>i, <1>t DEF expunge_set, ReceiverInv, WakerInv, HasFrame, Waiting
  <2>2. /\ UNCHANGED <<life, perm, queue, req, cmd, hold>> /\ pc' = [pc EXCEPT ![p] = "walk"]
        /\ r_msg' = [r_msg EXCEPT ![w] = IF cmd[p] = "SET" THEN "EAGAIN" ELSE "EIDRM"]
    BY <1>30 DEF expunge_set, Goto
  <2> HIDE DEF w
  <2>p. AbsPhase' = AbsPhase /\ AbsBox' = AbsBox /\ q_qbytes' = q_qbytes
    BY <2>2 DEF AbsPhase, AbsBox
  <2>g. \A r \in Procs : Received(r)' = Received(r)
    BY <1>t, <2>1, <2>2 DEF Received, Codes
  <2>3. CASE cmd[p] = "SET"
    <3>w. \A r \in Procs : (Waiting(r)' <=> Waiting(r)) /\ (Waiting(r) => req'[r] = req[r])
        BY <1>t, <2>1, <2>2, <2>3 DEF Waiting, HasFrame
    <3> QED BY <2>p, <2>g, <3>w, Invisible
  <2>4. CASE cmd[p] # "SET"
    <3>w. \A r \in Procs : (Waiting(r)' <=> Waiting(r) /\ r # w) /\ (Waiting(r) => req'[r] = req[r])
        BY <1>t, <2>1, <2>2, <2>4 DEF Waiting, HasFrame
    <3> QED BY <2>1, <2>p, <2>g, <3>w, Leaves
  <2> QED BY <2>3, <2>4
<1>31. ASSUME NEW p \in Procs, ctl_set_done(p) PROVE [Abs!Next]_Abs!vars
  <2>p. AbsPhase' = AbsPhase /\ AbsBox' = AbsBox /\ q_qbytes' = q_qbytes
    BY <1>31 DEF ctl_set_done, Woken, UnlockReturn, LeaveRcu, Return, Goto, AbsPhase, AbsBox
  <2>w. \A r \in Procs : (Waiting(r)' <=> Waiting(r)) /\ (Waiting(r) => req'[r] = req[r])
    BY <1>31, <1>t DEF ctl_set_done, Woken, UnlockReturn, LeaveRcu, Return, Goto, Waiting, HasFrame, Codes
  <2>g. \A r \in Procs : Received(r)' = Received(r)
    BY <1>31, <1>t DEF ctl_set_done, Woken, UnlockReturn, LeaveRcu, Return, Goto, Received, HasFrame, Codes
  <2> QED BY <2>p, <2>w, <2>g, Invisible
<1>32. ASSUME NEW p \in Procs, freeque_rmid(p) PROVE [Abs!Next]_Abs!vars
  <2>1. ~deleted /\ mem # "none" /\ deleted' = TRUE /\ mem' = mem
    BY <1>32, <1>i, <1>t DEF freeque_rmid, LifeInv
  <2>2. AbsPhase = "open" /\ AbsPhase' = "removed" /\ AbsBox' = <<>> /\ q_qbytes' = q_qbytes
    BY <1>32, <2>1 DEF freeque_rmid, AbsPhase, AbsBox
  <2>3. Unanswered' = {}
    BY <1>i, <2>1 DEF ReceiverInv, ListInv, Unanswered
  <2>4. AbsWaiting' = << >>
    BY <2>3 DEF AbsWaiting
  <2>g. \A r \in Procs : Received(r)' = Received(r)
    BY <1>32, <1>t DEF freeque_rmid, Woken, LeaveRcu, Goto, Received
  <2>5. Abs!Destroy
    BY <2>2, <2>4, <2>g, SameGot DEF Abs!Destroy
  <2> QED BY <2>5 DEF Abs!Next
<1>33. ASSUME NEW p \in Procs, freeque_drain(p) PROVE [Abs!Next]_Abs!vars
  <2>p. AbsPhase' = AbsPhase /\ AbsBox' = AbsBox /\ q_qbytes' = q_qbytes
    BY <1>33, <1>i, <1>t DEF freeque_drain, Goto, AbsPhase, AbsBox, LifeInv
  <2>w. \A r \in Procs : (Waiting(r)' <=> Waiting(r)) /\ (Waiting(r) => req'[r] = req[r])
    BY <1>33, <1>t DEF freeque_drain, Goto, Waiting, HasFrame, Codes
  <2>g. \A r \in Procs : Received(r)' = Received(r)
    BY <1>33, <1>t DEF freeque_drain, Goto, Received, HasFrame, Codes
  <2> QED BY <2>p, <2>w, <2>g, Invisible
<1>34. ASSUME NEW p \in Procs, freeque_putref(p) PROVE [Abs!Next]_Abs!vars
  <2>p. AbsPhase' = AbsPhase /\ AbsBox' = AbsBox /\ q_qbytes' = q_qbytes
    BY <1>34, <1>i, <1>t DEF freeque_putref, PutStore, Return, Goto, AbsPhase, AbsBox, LifeInv
  <2>w. \A r \in Procs : (Waiting(r)' <=> Waiting(r)) /\ (Waiting(r) => req'[r] = req[r])
    BY <1>34, <1>t DEF freeque_putref, PutStore, Return, Goto, Waiting, HasFrame, Codes
  <2>g. \A r \in Procs : Received(r)' = Received(r)
    BY <1>34, <1>t DEF freeque_putref, PutStore, Return, Goto, Received, HasFrame, Codes
  <2> QED BY <2>p, <2>w, <2>g, Invisible
<1> QED BY <1>s, <1>1, <1>2, <1>3, <1>4, <1>5, <1>6, <1>7, <1>8, <1>9, <1>10, <1>11, <1>12, <1>13,
  <1>14, <1>15, <1>16, <1>17, <1>18, <1>19, <1>20, <1>21, <1>22, <1>23, <1>24, <1>25, <1>26, <1>27,
  <1>28, <1>29, <1>30, <1>31, <1>32, <1>33, <1>34 DEF Next, KernelStep, Procs

(* The queue of ipc/msg.c implements the abstract queue, for any number of *)
(* tasks, messages and requests: its pipelined sends, lockless receives    *)
(* and three-step wakeups cannot be told from operations in one step.      *)
THEOREM QueueRefines ==
    ASSUME \A r \in Requests : r.msgtyp # LONG_MIN
    PROVE  Spec => AtomicQueue
<1>1. Init => Abs!Init
  <2> SUFFICES ASSUME Init PROVE Abs!Init
    OBVIOUS
  <2>1. Unanswered = {}
    BY DEF Init, Unanswered, Waiting, HasFrame
  <2>2. AbsWaiting = << >>
    BY <2>1 DEF AbsWaiting
  <2>3. AbsGot = [p \in Procs |-> NoMsg]
    BY ConstantsAssumption DEF Init, AbsGot, Received, Codes
  <2>4. AbsPhase = "none" /\ AbsBox = <<>> /\ q_qbytes = 0
    BY DEF Init, AbsPhase, AbsBox
  <2> QED BY <2>2, <2>3, <2>4 DEF Abs!Init
<1>2. AllInv /\ AllInv' /\ [Next]_vars => [Abs!Next]_Abs!vars
  BY RefStep
<1> QED BY <1>1, <1>2, DataInductive, PTL DEF Spec, AtomicQueue, Abs!Spec
=============================================================================
