------------------------------ MODULE MsgQueue ------------------------------
(***************************************************************************)
(* One System V message queue (ipc/msg.c) from msgget to the end of its    *)
(* memory: msgsnd and msgrcv with their sleeping senders and receivers,    *)
(* the lockless receive, IPC_SET, and IPC_RMID with the RCU-deferred free  *)
(* of ipc/util.c.                                                          *)
(*                                                                         *)
(* A critical section under q_perm.lock is one step, except where a task   *)
(* that does not hold the lock can look in: the three writes of a wakeup   *)
(* (r_msg = NULL; wake_up_process(); r_msg = result) and the unlocked tail *)
(* of freeque().  A reference count is a plain int, so "--refcount" is a   *)
(* load and a store.                                                       *)
(***************************************************************************)
EXTENDS MsgSearch, FiniteSets

CONSTANTS
    Senders,     \* tasks that call msgsnd
    Receivers,   \* tasks that call msgrcv
    Ctls,        \* tasks that call msgget and msgctl
    Signalled,   \* tasks a signal may hit
    Capable,     \* tasks with CAP_SYS_RESOURCE
    NoProc,      \* no task
    NoMsg,       \* no message
    Requests,    \* the argument tuples of msgrcv
    SndNoWait,   \* the IPC_NOWAIT flags msgsnd is called with
    Modes,       \* permission settings of the queue
    QBytes,      \* msg_qbytes arguments of IPC_SET
    msg_ctlmax,  \* ns->msg_ctlmax
    msg_ctlmnb   \* ns->msg_ctlmnb

Procs == Senders \cup Receivers \cup Ctls

(* What a msg_receiver's r_msg holds when it is not a message.             *)
Codes == {"NULL", "EAGAIN", "E2BIG", "EIDRM"}

ASSUME ConstantsAssumption ==
    /\ IsFiniteSet(Procs) /\ NoProc \notin Procs
    /\ NoMsg \notin Msgs
    /\ Msgs \cap Codes = {}
    /\ NoMsg \notin Codes
    /\ Requests \subseteq RequestSet /\ Requests # {}
    /\ SndNoWait \subseteq BOOLEAN
    /\ Modes \subseteq SUBSET {"r", "w"}
    /\ QBytes \subseteq Nat
    /\ msg_ctlmax \in Nat
    /\ msg_ctlmnb \in Nat

(* The value of an argument no call is using.                              *)
NoReq == CHOOSE r \in Requests : TRUE

VARIABLES
    \* struct msg_queue
    mem,          \* its memory: none, live, rcu (call_rcu pending), freed
    refcount,     \* ipc_rcu_hdr.refcount
    deleted,      \* q_perm.deleted; the id leaves the idr at the same time
    lock,         \* holder of q_perm.lock
    mode,         \* accesses q_perm grants to the tasks
    q_qbytes, q_cbytes, q_qnum,
    q_messages,   \* list of messages
    q_receivers,  \* list of tasks, one msg_receiver each
    q_senders,    \* list of tasks, one msg_sender each
    \* struct ipc_namespace
    msg_bytes, msg_hdrs,
    rw_mutex,     \* holder of msg_ids.rw_mutex as a writer
    \* RCU
    readers,      \* tasks inside a read-side critical section
    grace,        \* those the pending callback still waits for
    \* tasks
    alloc,        \* messages in allocated memory
    pc, cmd,      \* where each task is, in which call
    nowait, req,  \* arguments of the call
    hold,         \* local variable msg
    r_msg,        \* field of the msg_receiver on the task's stack
    state,        \* TASK_RUNNING or TASK_INTERRUPTIBLE
    sig,          \* tasks with signal_pending()
    tmp, msr,     \* cursors of a walk over q_receivers
    ref,          \* value loaded by a putref
    res           \* value the call returns

perm  == <<mode, q_qbytes>>
queue == <<q_cbytes, q_qnum, q_messages>>
acct  == <<msg_bytes, msg_hdrs>>
rcu   == <<readers, grace>>
life  == <<mem, refcount, deleted>>
args  == <<cmd, nowait, req>>
walk  == <<tmp, msr>>
vars  == <<life, lock, perm, queue, q_receivers, q_senders, acct, rw_mutex, rcu,
           alloc, pc, args, hold, r_msg, state, sig, walk, ref, res>>

-----------------------------------------------------------------------------
(* There is room for the message.                                          *)
Fits(m) == MSize[m] + q_cbytes <= q_qbytes /\ 1 + q_qnum <= q_qbytes

(* schedule() returns: woken, or a signal is pending.                      *)
Runnable(p) == state[p] = "RUN" \/ p \in sig

-----------------------------------------------------------------------------
(* Common steps.                                                           *)

Goto(p, l) == pc' = [pc EXCEPT ![p] = l]

LeaveRcu(p) == readers' = readers \ {p} /\ grace' = grace \ {p}

(* Mutant: the local message is not freed.                                 *)
ReturnLeaks(p, e) ==
    /\ Goto(p, "ret")
    /\ res' = [res EXCEPT ![p] = e]
    /\ alloc' = alloc
    /\ hold' = [hold EXCEPT ![p] = NoMsg]

(* Go to user mode with value e, having freed the local message.           *)
Return(p, e) ==
    /\ Goto(p, "ret")
    /\ res' = [res EXCEPT ![p] = e]
    /\ alloc' = alloc \ {hold[p]}
    /\ hold' = [hold EXCEPT ![p] = NoMsg]

(* ipc_unlock() and return.                                                *)
UnlockReturn(p, e) == lock' = NoProc /\ LeaveRcu(p) /\ Return(p, e)

(* Top of the for(;;) of do_msgsnd and do_msgrcv: reached by spin_lock()   *)
(* in ipc_lock(), or from the bottom of the loop with the lock held.       *)
AtTop(p, c) ==
    /\ cmd[p] = c
    /\ \/ pc[p] = "lock" /\ lock = NoProc
       \/ pc[p] = "loop" /\ lock = p

(* Mutant: one sender is woken, not all.                                   *)
WokenOne(tasks) ==
    [p \in Procs |-> IF tasks # {} /\ p = CHOOSE t \in tasks : TRUE THEN "RUN" ELSE state[p]]

(* Mutant: nobody is woken.                                                *)
WokenNone(tasks) == state

(* wake_up_process() on a set of tasks.                                    *)
Woken(tasks) == [p \in Procs |-> IF p \in tasks THEN "RUN" ELSE state[p]]

(* Mutant: kfree() at once, without the grace period.                      *)
PutNow(p) ==
    /\ refcount' = ref[p] - 1
    /\ mem' = IF ref[p] - 1 > 0 THEN mem ELSE "freed"
    /\ UNCHANGED grace

(* Mutant: the sleeping sender takes no reference.                         *)
NoGetref == refcount' = refcount

ipc_rcu_getref == refcount' = refcount + 1

(* The store of "--refcount": at 0 the free is left to RCU, which waits    *)
(* for the tasks that are readers now.                                     *)
PutStore(p) ==
    /\ refcount' = ref[p] - 1
    /\ mem' = IF ref[p] - 1 > 0 THEN mem ELSE "rcu"
    /\ grace' = IF ref[p] - 1 > 0 THEN grace ELSE readers

-----------------------------------------------------------------------------
Init ==
    /\ mem = "none" /\ refcount = 0 /\ deleted = FALSE
    /\ lock = NoProc /\ rw_mutex = NoProc
    /\ mode = {} /\ q_qbytes = 0
    /\ q_cbytes = 0 /\ q_qnum = 0 /\ q_messages = <<>>
    /\ q_receivers = <<>> /\ q_senders = <<>>
    /\ msg_bytes = 0 /\ msg_hdrs = 0
    /\ readers = {} /\ grace = {}
    /\ alloc = {}
    /\ pc = [p \in Procs |-> "idle"]
    /\ cmd = [p \in Procs |-> "none"]
    /\ nowait = [p \in Procs |-> FALSE]
    /\ req = [p \in Procs |-> NoReq]
    /\ hold = [p \in Procs |-> NoMsg]
    /\ r_msg = [p \in Procs |-> "EAGAIN"]
    /\ state = [p \in Procs |-> "RUN"]
    /\ sig = {}
    /\ tmp = [p \in Procs |-> 0]
    /\ msr = [p \in Procs |-> NoProc]
    /\ ref = [p \in Procs |-> 0]
    /\ res = [p \in Procs |-> "none"]

-----------------------------------------------------------------------------
(* Creation, lookup, return.                                               *)

(* msgget(): newque() under rw_mutex; the queue is locked from the moment  *)
(* ipc_addid() makes it visible until it is initialised.                   *)
newque(p) ==
    /\ pc[p] = "idle" /\ rw_mutex = NoProc /\ mem = "none"
    /\ mem' = "live" /\ refcount' = 1 /\ deleted' = FALSE
    /\ mode' \in Modes
    /\ q_qbytes' = msg_ctlmnb
    /\ q_cbytes' = 0 /\ q_qnum' = 0 /\ q_messages' = <<>>
    /\ q_receivers' = <<>> /\ q_senders' = <<>>
    /\ UNCHANGED <<lock, acct, rw_mutex, rcu, alloc, pc, args, hold, r_msg, state,
                   sig, walk, ref, res>>

(* ipc_lock(), lockless half: rcu_read_lock() and idr_find().              *)
ipc_find(p) ==
    /\ pc[p] = "find"
    /\ \/ /\ mem # "none" /\ ~deleted
          /\ readers' = readers \cup {p}
          /\ Goto(p, "lock")
          /\ UNCHANGED <<rw_mutex, alloc, hold, res>>
       \/ /\ mem = "none" \/ deleted
          /\ Return(p, "EINVAL")
          /\ rw_mutex' = IF rw_mutex = p THEN NoProc ELSE rw_mutex
          /\ UNCHANGED readers
    /\ UNCHANGED <<life, lock, perm, queue, q_receivers, q_senders, acct, grace,
                   args, r_msg, state, sig, walk, ref>>

(* ipc_lock(), second half: the lock has been taken on a removed queue.    *)
ipc_lock_deleted(p) ==
    /\ pc[p] = "lock" /\ lock = NoProc /\ deleted
    /\ LeaveRcu(p)
    /\ Return(p, "EINVAL")
    /\ rw_mutex' = IF rw_mutex = p THEN NoProc ELSE rw_mutex
    /\ UNCHANGED <<life, lock, perm, queue, q_receivers, q_senders, acct, args,
                   r_msg, state, sig, walk, ref>>

(* The call is over; a pending signal is handled on the way to user mode.  *)
SyscallExit(p) ==
    /\ pc[p] = "ret"
    /\ Goto(p, "idle")
    /\ cmd' = [cmd EXCEPT ![p] = "none"]
    /\ nowait' = [nowait EXCEPT ![p] = FALSE]
    /\ req' = [req EXCEPT ![p] = NoReq]
    /\ sig' = sig \ {p}
    /\ res' = [res EXCEPT ![p] = "none"]
    /\ UNCHANGED <<life, lock, perm, queue, q_receivers, q_senders, acct, rw_mutex,
                   rcu, alloc, hold, r_msg, state, walk, ref>>

Signal(p) ==
    /\ p \in Signalled /\ p \notin sig /\ pc[p] \notin {"idle", "ret"}
    /\ sig' = sig \cup {p}
    /\ UNCHANGED <<life, lock, perm, queue, q_receivers, q_senders, acct, rw_mutex,
                   rcu, alloc, pc, args, hold, r_msg, state, walk, ref, res>>

(* The callback of call_rcu(): the grace period is over.                   *)
ipc_immediate_free ==
    /\ mem = "rcu" /\ grace = {}
    /\ mem' = "freed"
    /\ UNCHANGED <<refcount, deleted, lock, perm, queue, q_receivers, q_senders,
                   acct, rw_mutex, rcu, alloc, pc, args, hold, r_msg, state, sig,
                   walk, ref, res>>

-----------------------------------------------------------------------------
(* do_msgsnd()                                                             *)

(* The checks on the arguments, and load_msg().                            *)
msgsnd(p) ==
    /\ pc[p] = "idle"
    /\ \E m \in Msgs \ alloc, w \in SndNoWait :
          /\ MSize[m] <= msg_ctlmax
          /\ alloc' = alloc \cup {m}
          /\ hold' = [hold EXCEPT ![p] = m]
          /\ nowait' = [nowait EXCEPT ![p] = w]
    /\ cmd' = [cmd EXCEPT ![p] = "SND"]
    /\ Goto(p, "find")
    /\ UNCHANGED <<life, lock, perm, queue, q_receivers, q_senders, acct, rw_mutex,
                   rcu, req, r_msg, state, sig, walk, ref, res>>

(* The message may not be sent: EACCES, or the queue is full and the       *)
(* caller does not wait.                                                   *)
snd_fail(p) ==
    /\ AtTop(p, "SND") /\ ~deleted
    /\ \/ "w" \notin mode /\ UnlockReturn(p, "EACCES")
       \/ "w" \in mode /\ ~Fits(hold[p]) /\ nowait[p] /\ UnlockReturn(p, "EAGAIN")
    /\ UNCHANGED <<life, perm, queue, q_receivers, q_senders, acct, rw_mutex, args,
                   r_msg, state, sig, walk, ref>>

(* Queue full: ss_add(), getref, unlock and schedule().                    *)
snd_sleep(p) ==
    /\ AtTop(p, "SND") /\ ~deleted
    /\ "w" \in mode /\ ~Fits(hold[p]) /\ ~nowait[p]
    /\ q_senders' = Append(q_senders, p)
    /\ state' = [state EXCEPT ![p] = "INT"]
    /\ ipc_rcu_getref
    /\ lock' = NoProc /\ LeaveRcu(p)
    /\ Goto(p, "ssleep")
    /\ UNCHANGED <<mem, deleted, perm, queue, q_receivers, acct, rw_mutex, alloc,
                   args, hold, r_msg, sig, walk, ref, res>>

(* schedule() has returned: ipc_lock_by_ptr(), and the load of putref.     *)
snd_relock(p) ==
    /\ pc[p] = "ssleep" /\ Runnable(p) /\ lock = NoProc
    /\ lock' = p /\ readers' = readers \cup {p}
    /\ state' = [state EXCEPT ![p] = "RUN"]
    /\ ref' = [ref EXCEPT ![p] = refcount]
    /\ Goto(p, "sput")
    /\ UNCHANGED <<life, perm, queue, q_receivers, q_senders, acct, rw_mutex, grace,
                   alloc, args, hold, r_msg, sig, walk, res>>

(* The store of putref.                                                    *)
snd_putref(p) ==
    /\ pc[p] = "sput"
    /\ PutStore(p)
    /\ ref' = [ref EXCEPT ![p] = 0]
    /\ Goto(p, "awake")
    /\ UNCHANGED <<deleted, lock, perm, queue, q_receivers, q_senders, acct,
                   rw_mutex, readers, alloc, args, hold, r_msg, state, sig, walk, res>>

(* Removed?  Else ss_del(); a signal?  Else back to the top of the loop.   *)
snd_awake(p) ==
    /\ pc[p] = "awake"
    /\ \/ /\ deleted
          /\ UnlockReturn(p, "EIDRM")
          /\ UNCHANGED q_senders
       \/ /\ ~deleted
          /\ \E i \in DOMAIN q_senders : q_senders[i] = p /\ q_senders' = RemoveAt(q_senders, i)
          /\ \/ p \in sig /\ UnlockReturn(p, "ERESTARTNOHAND")
             \/ p \notin sig /\ Goto(p, "loop") /\ UNCHANGED <<lock, rcu, alloc, hold, res>>
    /\ UNCHANGED <<life, perm, queue, q_receivers, acct, rw_mutex, args, r_msg,
                   state, sig, walk, ref>>

(* There is room: on to pipelined_send().                                  *)
snd_start(p) ==
    /\ AtTop(p, "SND") /\ ~deleted
    /\ "w" \in mode /\ Fits(hold[p])
    /\ lock' = p
    /\ Goto(p, "scan")
    /\ UNCHANGED <<life, perm, queue, q_receivers, q_senders, acct, rw_mutex, rcu,
                   alloc, args, hold, r_msg, state, sig, walk, ref, res>>

(* Mutant: only the first receiver of the list is looked at.               *)
HeadReceiver(m) == IF q_receivers # <<>> /\ Wants(req[Head(q_receivers)], m) THEN 1 ELSE 0

(* The first receiver the message suits; 0 when there is none.             *)
NextReceiver(m) == SelectInSeq(q_receivers, LAMBDA r : Wants(req[r], m))

(* pipelined_send() over q_receivers: the next receiver the message suits  *)
(* leaves the list and its r_msg becomes NULL; when there is none the      *)
(* message is queued.                                                      *)
pipelined_send(p) ==
    LET i == NextReceiver(hold[p]) IN
    /\ pc[p] = "scan" /\ cmd[p] = "SND"
    /\ \/ /\ i \in DOMAIN q_receivers
          /\ msr' = [msr EXCEPT ![p] = q_receivers[i]]
          /\ q_receivers' = RemoveAt(q_receivers, i)
          /\ r_msg' = [r_msg EXCEPT ![q_receivers[i]] = "NULL"]
          /\ Goto(p, "wake")
          /\ UNCHANGED <<queue, acct, hold>>
       \/ /\ i \notin DOMAIN q_receivers
          /\ q_messages' = Append(q_messages, hold[p])
          /\ q_cbytes' = q_cbytes + MSize[hold[p]]
          /\ q_qnum' = q_qnum + 1
          /\ msg_bytes' = msg_bytes + MSize[hold[p]]
          /\ msg_hdrs' = msg_hdrs + 1
          /\ hold' = [hold EXCEPT ![p] = NoMsg]
          /\ Goto(p, "unlk")
          /\ UNCHANGED <<q_receivers, r_msg, msr>>
    /\ UNCHANGED <<life, lock, perm, q_senders, rw_mutex, rcu, alloc, args, state,
                   sig, tmp, ref, res>>

(* wake_up_process(msr->r_tsk), in pipelined_send() and in expunge_all().  *)
wake_receiver(p) ==
    /\ pc[p] = "wake"
    /\ state' = Woken({msr[p]})
    /\ Goto(p, "set")
    /\ UNCHANGED <<life, lock, perm, queue, q_receivers, q_senders, acct, rw_mutex,
                   rcu, alloc, args, hold, r_msg, sig, walk, ref, res>>

(* The final store to r_msg in pipelined_send(): E2BIG and the walk goes   *)
(* on, or the message itself.                                              *)
deliver(p) ==
    /\ pc[p] = "set" /\ cmd[p] = "SND"
    /\ \/ /\ TooBig(req[msr[p]], hold[p])
          /\ r_msg' = [r_msg EXCEPT ![msr[p]] = "E2BIG"]
          /\ Goto(p, "scan")
          /\ UNCHANGED hold
       \/ /\ ~TooBig(req[msr[p]], hold[p])
          /\ r_msg' = [r_msg EXCEPT ![msr[p]] = hold[p]]
          /\ hold' = [hold EXCEPT ![p] = NoMsg]
          /\ Goto(p, "unlk")
    /\ msr' = [msr EXCEPT ![p] = NoProc]
    /\ UNCHANGED <<life, lock, perm, queue, q_receivers, q_senders, acct, rw_mutex,
                   rcu, alloc, args, state, sig, tmp, ref, res>>

snd_done(p) ==
    /\ pc[p] = "unlk"
    /\ UnlockReturn(p, "OK")
    /\ UNCHANGED <<life, perm, queue, q_receivers, q_senders, acct, rw_mutex, args,
                   r_msg, state, sig, walk, ref>>

-----------------------------------------------------------------------------
(* do_msgrcv()                                                             *)

msgrcv(p) ==
    /\ pc[p] = "idle"
    /\ \E r \in Requests :
          /\ req' = [req EXCEPT ![p] = r]
          /\ nowait' = [nowait EXCEPT ![p] = r.nowait]
    /\ cmd' = [cmd EXCEPT ![p] = "RCV"]
    /\ Goto(p, "find")
    /\ UNCHANGED <<life, lock, perm, queue, q_receivers, q_senders, acct, rw_mutex,
                   rcu, alloc, hold, r_msg, state, sig, walk, ref, res>>

(* No message for the caller: EACCES, E2BIG, or none there and no wait.    *)
rcv_fail(p) ==
    LET i == FindMsg(q_messages, req[p]) IN
    /\ AtTop(p, "RCV") /\ ~deleted
    /\ \/ /\ "r" \notin mode
          /\ UnlockReturn(p, "EACCES")
       \/ /\ "r" \in mode /\ i \in DOMAIN q_messages
          /\ TooBig(req[p], q_messages[i])
          /\ UnlockReturn(p, "E2BIG")
       \/ /\ "r" \in mode /\ i \notin DOMAIN q_messages /\ nowait[p]
          /\ UnlockReturn(p, "ENOMSG")
    /\ UNCHANGED <<life, perm, queue, q_receivers, q_senders, acct, rw_mutex, args,
                   r_msg, state, sig, walk, ref>>

(* Mutant: the namespace is not given its bytes back.                      *)
UnlinkKeepsBytes(i) ==
    /\ q_messages' = RemoveAt(q_messages, i)
    /\ q_qnum' = q_qnum - 1
    /\ q_cbytes' = q_cbytes - MSize[q_messages[i]]
    /\ msg_bytes' = msg_bytes
    /\ msg_hdrs' = msg_hdrs - 1

(* list_del() of a queued message, with the counters.                      *)
Unlink(i) ==
    /\ q_messages' = RemoveAt(q_messages, i)
    /\ q_qnum' = q_qnum - 1
    /\ q_cbytes' = q_cbytes - MSize[q_messages[i]]
    /\ msg_bytes' = msg_bytes - MSize[q_messages[i]]
    /\ msg_hdrs' = msg_hdrs - 1

(* A message found in the queue is unlinked and every sleeping sender is   *)
(* woken.                                                                  *)
rcv_dequeue(p) ==
    LET i == FindMsg(q_messages, req[p]) IN
    /\ AtTop(p, "RCV") /\ ~deleted
    /\ "r" \in mode /\ i \in DOMAIN q_messages
    /\ ~TooBig(req[p], q_messages[i])
    /\ Unlink(i)
    /\ state' = Woken(ToSet(q_senders))
    /\ hold' = [hold EXCEPT ![p] = q_messages[i]]
    /\ lock' = NoProc /\ LeaveRcu(p)
    /\ Goto(p, "copy")
    /\ UNCHANGED <<life, perm, q_receivers, q_senders, rw_mutex, alloc, args, r_msg,
                   sig, walk, ref, res>>

(* Join q_receivers with r_msg = -EAGAIN, unlock and schedule().           *)
rcv_sleep(p) ==
    /\ AtTop(p, "RCV") /\ ~deleted
    /\ "r" \in mode /\ FindMsg(q_messages, req[p]) \notin DOMAIN q_messages /\ ~nowait[p]
    /\ q_receivers' = Append(q_receivers, p)
    /\ r_msg' = [r_msg EXCEPT ![p] = "EAGAIN"]
    /\ state' = [state EXCEPT ![p] = "INT"]
    /\ lock' = NoProc /\ LeaveRcu(p)
    /\ Goto(p, "rsleep")
    /\ UNCHANGED <<life, perm, queue, q_senders, acct, rw_mutex, alloc, args, hold,
                   sig, walk, ref, res>>

(* Lockless receive, part 1: schedule() has returned; rcu_read_lock().     *)
rcv_wake(p) ==
    /\ pc[p] = "rsleep" /\ Runnable(p)
    /\ state' = [state EXCEPT ![p] = "RUN"]
    /\ readers' = readers \cup {p}
    /\ Goto(p, "spin")
    /\ UNCHANGED <<life, lock, perm, queue, q_receivers, q_senders, acct, rw_mutex,
                   grace, alloc, args, hold, r_msg, sig, walk, ref, res>>

(* Leave the loop with the value of r_msg; msr_d goes out of scope.        *)
Accept(p) ==
    /\ r_msg' = [r_msg EXCEPT ![p] = "EAGAIN"]
    /\ LeaveRcu(p)
    /\ \/ /\ r_msg[p] \in Msgs
          /\ hold' = [hold EXCEPT ![p] = r_msg[p]]
          /\ Goto(p, "copy")
          /\ UNCHANGED <<alloc, res>>
       \/ r_msg[p] \notin Msgs /\ Return(p, r_msg[p])

(* Mutant: r_msg is read once, NULL is taken for an answer.                *)
rcv_no_spin(p) ==
    /\ pc[p] = "spin"
    /\ \/ r_msg[p] # "EAGAIN" /\ Accept(p)
       \/ /\ r_msg[p] = "EAGAIN"
          /\ Goto(p, "relock")
          /\ UNCHANGED <<rcu, alloc, hold, r_msg, res>>
    /\ UNCHANGED <<life, lock, perm, queue, q_receivers, q_senders, acct, rw_mutex,
                   args, state, sig, walk, ref>>

(* Parts 2 and 3: read r_msg until it is not NULL.                         *)
rcv_spin(p) ==
    /\ pc[p] = "spin" /\ r_msg[p] # "NULL"
    /\ \/ r_msg[p] # "EAGAIN" /\ Accept(p)
       \/ /\ r_msg[p] = "EAGAIN"
          /\ Goto(p, "relock")
          /\ UNCHANGED <<rcu, alloc, hold, r_msg, res>>
    /\ UNCHANGED <<life, lock, perm, queue, q_receivers, q_senders, acct, rw_mutex,
                   args, state, sig, walk, ref>>

(* Part 4: r_msg again, under the lock.                                    *)
rcv_relock(p) ==
    /\ pc[p] = "relock" /\ lock = NoProc
    /\ \/ r_msg[p] # "EAGAIN" /\ Accept(p) /\ UNCHANGED <<lock, q_receivers>>
       \/ /\ r_msg[p] = "EAGAIN"
          /\ \E i \in DOMAIN q_receivers :
                q_receivers[i] = p /\ q_receivers' = RemoveAt(q_receivers, i)
          /\ \/ p \in sig /\ UnlockReturn(p, "ERESTARTNOHAND")
             \/ /\ p \notin sig
                /\ lock' = p
                /\ Goto(p, "loop")
                /\ UNCHANGED <<rcu, alloc, hold, res>>
          /\ UNCHANGED r_msg
    /\ UNCHANGED <<life, perm, queue, q_senders, acct, rw_mutex, args, state, sig,
                   walk, ref>>

(* store_msg() to user space, free_msg().                                  *)
rcv_copy(p) ==
    /\ pc[p] = "copy"
    /\ Return(p, "OK")
    /\ UNCHANGED <<life, lock, perm, queue, q_receivers, q_senders, acct, rw_mutex,
                   rcu, args, r_msg, state, sig, walk, ref>>

-----------------------------------------------------------------------------
(* msgctl_down()                                                           *)

(* IPC_SET and IPC_RMID: ipcctl_pre_down() takes rw_mutex.                 *)
msgctl(p) ==
    /\ pc[p] = "idle" /\ rw_mutex = NoProc
    /\ rw_mutex' = p
    /\ \E c \in {"SET", "RMID"} : cmd' = [cmd EXCEPT ![p] = c]
    /\ Goto(p, "find")
    /\ UNCHANGED <<life, lock, perm, queue, q_receivers, q_senders, acct, rcu,
                   alloc, nowait, req, hold, r_msg, state, sig, walk, ref, res>>

(* EPERM: not the owner, or too large a limit for the caller.              *)
ctl_fail(p) ==
    /\ pc[p] = "lock" /\ cmd[p] \in {"SET", "RMID"} /\ lock = NoProc /\ ~deleted
    /\ UnlockReturn(p, "EPERM")
    /\ rw_mutex' = NoProc
    /\ UNCHANGED <<life, perm, queue, q_receivers, q_senders, acct, args, r_msg,
                   state, sig, walk, ref>>

(* IPC_SET stores the new limit and permissions, IPC_RMID nothing; both    *)
(* enter expunge_all().                                                    *)
ctl_start(p) ==
    /\ pc[p] = "lock" /\ cmd[p] \in {"SET", "RMID"} /\ lock = NoProc /\ ~deleted
    /\ \/ /\ cmd[p] = "SET"
          /\ \E b \in QBytes : (b <= msg_ctlmnb \/ p \in Capable) /\ q_qbytes' = b
          /\ mode' \in Modes
       \/ cmd[p] = "RMID" /\ UNCHANGED perm
    /\ lock' = p
    /\ tmp' = [tmp EXCEPT ![p] = 1]
    /\ Goto(p, "walk")
    /\ UNCHANGED <<life, queue, q_receivers, q_senders, acct, rw_mutex, rcu, alloc,
                   args, hold, r_msg, state, sig, msr, ref, res>>

(* expunge_all(): the next receiver, which stays on the list.              *)
expunge_next(p) ==
    /\ pc[p] = "walk" /\ tmp[p] \in DOMAIN q_receivers
    /\ msr' = [msr EXCEPT ![p] = q_receivers[tmp[p]]]
    /\ tmp' = [tmp EXCEPT ![p] = tmp[p] + 1]
    /\ r_msg' = [r_msg EXCEPT ![q_receivers[tmp[p]]] = "NULL"]
    /\ Goto(p, "wake")
    /\ UNCHANGED <<life, lock, perm, queue, q_receivers, q_senders, acct, rw_mutex,
                   rcu, alloc, args, hold, state, sig, ref, res>>

(* Mutant: the store after the wakeup is missing.                          *)
expunge_forgets(p) ==
    /\ pc[p] = "set" /\ cmd[p] \in {"SET", "RMID"}
    /\ msr' = [msr EXCEPT ![p] = NoProc]
    /\ Goto(p, "walk")
    /\ UNCHANGED <<life, lock, perm, queue, q_receivers, q_senders, acct, rw_mutex,
                   rcu, alloc, args, hold, r_msg, state, sig, tmp, ref, res>>

(* expunge_all(): the final store to r_msg.                                *)
expunge_set(p) ==
    /\ pc[p] = "set" /\ cmd[p] \in {"SET", "RMID"}
    /\ r_msg' = [r_msg EXCEPT ![msr[p]] = IF cmd[p] = "SET" THEN "EAGAIN" ELSE "EIDRM"]
    /\ msr' = [msr EXCEPT ![p] = NoProc]
    /\ Goto(p, "walk")
    /\ UNCHANGED <<life, lock, perm, queue, q_receivers, q_senders, acct, rw_mutex,
                   rcu, alloc, args, hold, state, sig, tmp, ref, res>>

(* Mutant: ss_wakeup() is told to unlink the senders, as for IPC_RMID.     *)
ctl_set_kills(p) ==
    /\ pc[p] = "walk" /\ cmd[p] = "SET" /\ tmp[p] \notin DOMAIN q_receivers
    /\ state' = Woken(ToSet(q_senders))
    /\ q_senders' = <<>>
    /\ tmp' = [tmp EXCEPT ![p] = 0]
    /\ UnlockReturn(p, "OK")
    /\ rw_mutex' = NoProc
    /\ UNCHANGED <<life, perm, queue, q_receivers, acct, args, r_msg, sig, msr, ref>>

(* End of IPC_SET: ss_wakeup(q_senders, 0), unlock, up_write().            *)
ctl_set_done(p) ==
    /\ pc[p] = "walk" /\ cmd[p] = "SET" /\ tmp[p] \notin DOMAIN q_receivers
    /\ state' = Woken(ToSet(q_senders))
    /\ tmp' = [tmp EXCEPT ![p] = 0]
    /\ UnlockReturn(p, "OK")
    /\ rw_mutex' = NoProc
    /\ UNCHANGED <<life, perm, queue, q_receivers, q_senders, acct, args, r_msg, sig,
                   msr, ref>>

(* freeque(), after expunge_all(): ss_wakeup(q_senders, 1) unlinks the     *)
(* senders, ipc_rmid(), unlock.                                            *)
freeque_rmid(p) ==
    /\ pc[p] = "walk" /\ cmd[p] = "RMID" /\ tmp[p] \notin DOMAIN q_receivers
    /\ state' = Woken(ToSet(q_senders))
    /\ q_senders' = <<>>
    /\ deleted' = TRUE
    /\ tmp' = [tmp EXCEPT ![p] = 0]
    /\ lock' = NoProc /\ LeaveRcu(p)
    /\ Goto(p, "drain")
    /\ UNCHANGED <<mem, refcount, perm, queue, q_receivers, acct, rw_mutex, alloc,
                   args, hold, r_msg, sig, msr, ref, res>>

(* freeque(), unlocked: free the next message, or, past the last, give the *)
(* bytes back and load the reference count for putref.                     *)
freeque_drain(p) ==
    /\ pc[p] = "drain"
    /\ \/ /\ q_messages # <<>>
          /\ alloc' = alloc \ {Head(q_messages)}
          /\ q_messages' = Tail(q_messages)
          /\ msg_hdrs' = msg_hdrs - 1
          /\ UNCHANGED <<msg_bytes, ref, pc>>
       \/ /\ q_messages = <<>>
          /\ msg_bytes' = msg_bytes - q_cbytes
          /\ ref' = [ref EXCEPT ![p] = refcount]
          /\ Goto(p, "put")
          /\ UNCHANGED <<alloc, q_messages, msg_hdrs>>
    /\ UNCHANGED <<life, lock, perm, q_cbytes, q_qnum, q_receivers, q_senders,
                   rw_mutex, rcu, args, hold, r_msg, state, sig, walk, res>>

freeque_putref(p) ==
    /\ pc[p] = "put"
    /\ PutStore(p)
    /\ ref' = [ref EXCEPT ![p] = 0]
    /\ rw_mutex' = NoProc
    /\ Return(p, "OK")
    /\ UNCHANGED <<deleted, lock, perm, queue, q_receivers, q_senders, acct, readers,
                   args, r_msg, state, sig, walk>>

-----------------------------------------------------------------------------
(* A step of the kernel on behalf of a call in progress.                   *)
KernelStep(p) ==
    \/ ipc_find(p) \/ ipc_lock_deleted(p) \/ SyscallExit(p)
    \/ snd_fail(p) \/ snd_sleep(p) \/ snd_relock(p) \/ snd_putref(p) \/ snd_awake(p)
    \/ snd_start(p) \/ pipelined_send(p) \/ wake_receiver(p) \/ deliver(p) \/ snd_done(p)
    \/ rcv_fail(p) \/ rcv_dequeue(p) \/ rcv_sleep(p) \/ rcv_wake(p) \/ rcv_spin(p)
    \/ rcv_relock(p) \/ rcv_copy(p)
    \/ ctl_fail(p) \/ ctl_start(p) \/ expunge_next(p) \/ expunge_set(p)
    \/ ctl_set_done(p) \/ freeque_rmid(p) \/ freeque_drain(p) \/ freeque_putref(p)

Next ==
    \/ \E p \in Senders : msgsnd(p)
    \/ \E p \in Receivers : msgrcv(p)
    \/ \E p \in Ctls : newque(p) \/ msgctl(p)
    \/ \E p \in Procs : KernelStep(p) \/ Signal(p)
    \/ ipc_immediate_free

Spec == Init /\ [][Next]_vars

(* A task in the kernel keeps running; the ticket spinlock and the spinning *)
(* receiver serve everyone in turn, so a step that is enabled again and     *)
(* again (the lock becomes free again and again) is taken.                  *)
Fairness == \A p \in Procs : SF_vars(KernelStep(p))

FairSpec == Spec /\ Fairness

-----------------------------------------------------------------------------
(* Types.                                                                  *)

Labels == {"idle", "find", "lock", "loop", "ssleep", "sput", "awake", "scan", "wake",
           "set", "unlk", "rsleep", "spin", "relock", "copy", "walk", "drain", "put",
           "ret"}

Results == {"none", "OK", "EINVAL", "EACCES", "ENOMSG", "EPERM", "ERESTARTNOHAND",
            "EAGAIN", "E2BIG", "EIDRM"}

TypeQueue ==
    /\ mem \in {"none", "live", "rcu", "freed"}
    /\ refcount \in Int /\ deleted \in BOOLEAN
    /\ lock \in Procs \cup {NoProc} /\ rw_mutex \in Procs \cup {NoProc}
    /\ mode \subseteq {"r", "w"} /\ q_qbytes \in Nat
    /\ q_cbytes \in Int /\ q_qnum \in Int /\ q_messages \in Seq(Msgs)
    /\ q_receivers \in Seq(Procs) /\ q_senders \in Seq(Procs)
    /\ msg_bytes \in Int /\ msg_hdrs \in Int
    /\ readers \subseteq Procs /\ grace \subseteq Procs
    /\ alloc \subseteq Msgs

TypeTask ==
    /\ pc \in [Procs -> Labels]
    /\ cmd \in [Procs -> {"none", "SND", "RCV", "SET", "RMID"}]
    /\ nowait \in [Procs -> BOOLEAN] /\ req \in [Procs -> Requests]
    /\ hold \in [Procs -> Msgs \cup {NoMsg}]
    /\ r_msg \in [Procs -> Msgs \cup Codes]
    /\ state \in [Procs -> {"RUN", "INT"}] /\ sig \subseteq Procs
    /\ tmp \in [Procs -> Nat] /\ msr \in [Procs -> Procs \cup {NoProc}]
    /\ ref \in [Procs -> Int]
    /\ res \in [Procs -> Results]

(* Every variable keeps its C type, and what a call returns is an error    *)
(* code or success, never the NULL that r_msg passes through.              *)
TypeOK == TypeQueue /\ TypeTask

-----------------------------------------------------------------------------
(* Safety.                                                                 *)

(* The msg_receiver of a task exists while the task is between its         *)
(* list_add_tail and the end of the loop body.                             *)
HasFrame(p) == pc[p] \in {"rsleep", "spin", "relock"}

(* Labels whose next step reads or writes the msg_queue.                   *)
Dereferences(p) ==
    pc[p] \in {"lock", "loop", "ssleep", "sput", "awake", "scan", "wake", "set", "unlk",
               "relock", "walk", "drain", "put"}

(* No task touches the memory of the queue after RCU has given it back:    *)
(* not the lookup that spins on the lock while IPC_RMID runs, not the      *)
(* sender that slept through it on a counted reference, and not the        *)
(* receiver that has no reference and relies on r_msg ("if r_msg is        *)
(* -EAGAIN, then the queue not yet destroyed", do_msgrcv).                 *)
NoUseAfterFree == \A p \in Procs : Dereferences(p) => mem \in {"live", "rcu"}

(* wake_up_process() and the store to r_msg that follows it find the       *)
(* receiver still inside msgrcv: r_msg = NULL keeps it spinning until the  *)
(* waker is done, whatever signal or second wakeup hits it meanwhile.      *)
WakeupHitsLiveFrame ==
    \A p \in Procs : pc[p] \in {"wake", "set"} =>
        /\ HasFrame(msr[p])
        /\ r_msg[msr[p]] = "NULL"

(* A receiver is never left waiting beside a message it asked for: when    *)
(* the lock is free no receiver on the list, not yet notified, matches a   *)
(* queued message.                                                         *)
NoMissedMessage ==
    (lock = NoProc /\ ~deleted) =>
        \A r \in ToSet(q_receivers) : r_msg[r] = "EAGAIN" =>
            \A m \in ToSet(q_messages) : ~Eligible(req[r], m)

(* A sender is never left asleep beside room for its message: msgrcv and   *)
(* IPC_SET wake all of them.                                               *)
NoMissedRoom ==
    (lock = NoProc /\ ~deleted) =>
        \A s \in ToSet(q_senders) : state[s] = "INT" => ~Fits(hold[s])

(* Where a message is: with a task, on its way to a receiver, or queued.   *)
Places(m) ==
    {<<"hold", p>> : p \in {q \in Procs : hold[q] = m}}
        \cup {<<"r_msg", p>> : p \in {q \in Procs : r_msg[q] = m}}
        \cup {<<"queue", i>> : i \in {j \in DOMAIN q_messages : q_messages[j] = m}}

(* An allocated message is in exactly one place and a freed one in none:   *)
(* no message is lost, duplicated, received twice or leaked, across        *)
(* pipelined_send, signals and freeque.                                    *)
MessageConservation ==
    \A m \in Msgs : Cardinality(Places(m)) = IF m \in alloc THEN 1 ELSE 0

(* With the lock free, the counters of the queue and of the namespace are  *)
(* those of the messages queued; after IPC_RMID the namespace gets all of  *)
(* its share back.                                                         *)
Accounting ==
    lock = NoProc =>
        /\ msg_hdrs = Len(q_messages)
        /\ ~deleted => /\ q_qnum = Len(q_messages)
                       /\ q_cbytes = SizeOf(q_messages)
                       /\ msg_bytes = q_cbytes
        /\ (deleted /\ rw_mutex = NoProc) => msg_bytes = 0 /\ q_messages = <<>>

(* The references to the queue: one for each sleeping sender, and the      *)
(* first one, which belongs to the id (NoProc) and then to freeque().      *)
RefHolders ==
    {p \in Procs : pc[p] \in {"ssleep", "sput", "drain", "put"}}
        \cup (IF deleted THEN {} ELSE {NoProc})

(* Nothing frees the queue under a holder: the count is never below the    *)
(* number of references, though freeque() drops its own with a plain       *)
(* decrement outside the lock, against those of the senders it woke.       *)
ReferencesCovered ==
    mem # "none" => refcount >= Cardinality(RefHolders)

(* list_del() only ever unlinks what is linked: a receiver that is about   *)
(* to take itself off q_receivers is on it, and so is a sender on          *)
(* q_senders.                                                              *)
ListDelOnce ==
    \A p \in Procs :
        /\ (HasFrame(p) /\ r_msg[p] = "EAGAIN") => p \in ToSet(q_receivers)
        /\ (pc[p] \in {"ssleep", "sput", "awake"} /\ ~deleted) => p \in ToSet(q_senders)

-----------------------------------------------------------------------------
(* The inductive invariant.                                                *)

(* Labels at which the task holds q_perm.lock, at which it is inside an    *)
(* RCU read-side section, and at which its call has not given up its own   *)
(* message yet.                                                            *)
Locked == {"loop", "sput", "awake", "scan", "wake", "set", "unlk", "walk"}
Reading == Locked \cup {"lock", "spin", "relock"}

LockInv ==
    /\ \A p \in Procs : pc[p] \in Locked <=> lock = p
    /\ \A p \in Procs : pc[p] \in Reading <=> p \in readers

(* Which call is at which label, and what it then holds.                   *)
CallInv ==
    \A p \in Procs :
        /\ pc[p] \in {"ssleep", "sput", "awake", "scan", "unlk"} => cmd[p] = "SND"
        /\ pc[p] \in {"rsleep", "spin", "relock", "copy"} => cmd[p] = "RCV"
        /\ pc[p] = "walk" => cmd[p] \in {"SET", "RMID"}
        /\ pc[p] \in {"wake", "set"} => cmd[p] \in {"SND", "SET", "RMID"}
        /\ pc[p] \in {"loop"} => cmd[p] \in {"SND", "RCV"}
        /\ pc[p] \in {"drain", "put"} => cmd[p] = "RMID"
        /\ (cmd[p] = "SND" /\ pc[p] \notin {"unlk", "ret"}) => hold[p] \in Msgs
        /\ (cmd[p] = "SND" => pc[p] # "idle")

(* The life of the queue: a removed queue has no walker, no free runs      *)
(* before the last reference is gone, and the callback waits for every     *)
(* reader that may still hold the pointer.                                 *)
LifeInv ==
    /\ mem = "none" =>
          /\ ~deleted
          /\ \A p \in Procs : pc[p] \in {"idle", "find", "ret"}
    /\ mem \in {"rcu", "freed"} => deleted /\ RefHolders = {}
    /\ \A p \in Procs : pc[p] \in {"loop", "scan", "wake", "set", "unlk", "walk"} => ~deleted
    /\ \A p \in Procs : pc[p] \in {"drain", "put"} => deleted
    /\ \A p \in Procs : pc[p] \in {"lock", "awake", "relock"} =>
          /\ mem \in {"live", "rcu"}
          /\ mem = "rcu" => p \in grace

(* The count covers the holders, also in the copy a putref has loaded.     *)
RefInv ==
    /\ ReferencesCovered
    /\ \A p \in Procs : pc[p] \in {"sput", "put"} => ref[p] >= Cardinality(RefHolders)

(* Positions of q_receivers an IPC_RMID has already dealt with.            *)
Expunged(i) ==
    \E p \in Procs :
        /\ cmd[p] = "RMID"
        /\ \/ pc[p] = "walk" /\ i < tmp[p]
           \/ pc[p] \in {"wake", "set"} /\ i < tmp[p] - 1

Waiting(p) == HasFrame(p) /\ r_msg[p] \in {"EAGAIN", "NULL"}

(* r_msg is NULL exactly under the hands of a waker, and its task spins.   *)
WakerInv ==
    /\ \A p \in Procs : pc[p] \in {"wake", "set"} =>
          msr[p] \in Procs /\ HasFrame(msr[p]) /\ r_msg[msr[p]] = "NULL"
    /\ \A q \in Procs : r_msg[q] = "NULL" =>
          \E p \in Procs : pc[p] \in {"wake", "set"} /\ msr[p] = q

(* Until the queue is removed, q_receivers lists each waiting receiver     *)
(* once, except the one pipelined_send() has just unlinked; nobody waits   *)
(* on a removed queue.                                                     *)
ListInv ==
    /\ \A q \in Procs : (HasFrame(q) /\ r_msg[q] = "EAGAIN") =>
          \E i \in DOMAIN q_receivers : q_receivers[i] = q
    /\ \A i, j \in DOMAIN q_receivers : q_receivers[i] = q_receivers[j] => i = j
    /\ ~deleted =>
          \A i \in DOMAIN q_receivers : Waiting(q_receivers[i]) <=> ~Expunged(i)
    /\ deleted => \A q \in Procs : ~Waiting(q)

(* Where the cursor of a waker stands.                                     *)
CursorInv ==
    \A p \in Procs :
        /\ (pc[p] \in {"wake", "set"} /\ cmd[p] # "SND") =>
              /\ tmp[p] - 1 \in DOMAIN q_receivers
              /\ q_receivers[tmp[p] - 1] = msr[p]
        /\ (pc[p] \in {"wake", "set"} /\ cmd[p] = "SND") =>
              \A i \in DOMAIN q_receivers : q_receivers[i] # msr[p]
        /\ pc[p] = "walk" => tmp[p] >= 1

ReceiverInv == WakerInv /\ ListInv /\ CursorInv

IInv ==
    /\ TypeOK
    /\ LockInv
    /\ CallInv
    /\ LifeInv
    /\ RefInv
    /\ ReceiverInv

-----------------------------------------------------------------------------
(* The inductive invariant, part two: what the lists and counters hold.    *)

(* Labels between ss_add() and ss_del() of a sender.                       *)
HasSender == {"ssleep", "sput", "awake"}

(* Until the queue is removed, q_senders lists each sleeping sender once.  *)
SenderInv ==
    /\ \A i, j \in DOMAIN q_senders : q_senders[i] = q_senders[j] => i = j
    /\ (mem = "none" \/ deleted) => q_senders = <<>>
    /\ ~deleted => \A p \in Procs :
          pc[p] \in HasSender <=> \E i \in DOMAIN q_senders : q_senders[i] = p

(* msgctl_down() keeps rw_mutex from ipcctl_pre_down() to its end.         *)
MutexInv ==
    \A p \in Procs :
        /\ (cmd[p] \in {"SET", "RMID"} /\ pc[p] \notin {"idle", "ret"}) => rw_mutex = p
        /\ pc[p] = "idle" => cmd[p] = "none"

(* The senders asleep have no room, unless an IPC_SET that made some is    *)
(* still on its way to ss_wakeup().                                        *)
RoomInv ==
    ~deleted =>
        \/ \E p \in Procs : cmd[p] = "SET" /\ pc[p] \in {"walk", "wake", "set"}
        \/ \A s \in Procs : (pc[s] = "ssleep" /\ state[s] = "INT") => ~Fits(hold[s])

(* The counters; freeque() gives the bytes back after the last message.    *)
AcctInv ==
    /\ msg_hdrs = Len(q_messages)
    /\ mem = "none" => q_messages = <<>>
    /\ ~deleted => /\ q_qnum = Len(q_messages)
                   /\ q_cbytes = SizeOf(q_messages)
                   /\ msg_bytes = q_cbytes
    /\ deleted => \/ \E p \in Procs : pc[p] = "drain" /\ msg_bytes = q_cbytes
                  \/ /\ \A p \in Procs : pc[p] # "drain"
                     /\ msg_bytes = 0 /\ q_messages = <<>>

(* When a task has a message in its hands, or in its msg_receiver.         *)
HoldInv ==
    \A p \in Procs :
        /\ hold[p] # NoMsg => \/ pc[p] = "copy"
                              \/ cmd[p] = "SND" /\ pc[p] \notin {"idle", "unlk", "ret"}
        /\ r_msg[p] \in Msgs => HasFrame(p)

(* The places of the messages, one each.                                   *)
PlaceInv ==
    /\ \A m \in Msgs : m \in alloc <=> \/ \E p \in Procs : hold[p] = m \/ r_msg[p] = m
                                      \/ \E i \in DOMAIN q_messages : q_messages[i] = m
    /\ \A p, q \in Procs :
          /\ hold[p] \in Msgs => hold[p] # r_msg[q] /\ (hold[p] = hold[q] => p = q)
          /\ (r_msg[p] \in Msgs /\ r_msg[p] = r_msg[q]) => p = q
          /\ \A i \in DOMAIN q_messages : q_messages[i] # hold[p] /\ q_messages[i] # r_msg[p]
    /\ \A i, j \in DOMAIN q_messages : q_messages[i] = q_messages[j] => i = j

(* Nobody waits beside a message testmsg() accepts for it.                 *)
WantInv ==
    ~deleted => \A r \in Procs : Waiting(r) =>
                   \A i \in DOMAIN q_messages : ~Wants(req[r], q_messages[i])

(* What pipelined_send() has checked still holds when it acts on it.       *)
OfferInv ==
    \A p \in Procs : cmd[p] = "SND" =>
        /\ pc[p] \in {"scan", "wake", "set"} => Fits(hold[p])
        /\ pc[p] \in {"wake", "set"} => Wants(req[msr[p]], hold[p])

DataInv ==
    /\ SenderInv
    /\ MutexInv
    /\ RoomInv
    /\ AcctInv
    /\ HoldInv
    /\ PlaceInv
    /\ WantInv
    /\ OfferInv

AllInv == IInv /\ DataInv

-----------------------------------------------------------------------------
(* Liveness.                                                               *)

(* IPC_RMID lets every blocked call go.                                    *)
RmidReleasesAll ==
    \A p \in Procs : (deleted /\ pc[p] \in {"rsleep", "ssleep"}) ~> pc[p] = "idle"

(* A signal interrupts a blocked call.                                     *)
SignalReleases ==
    \A p \in Procs : (p \in sig /\ pc[p] \in {"rsleep", "ssleep"}) ~> pc[p] = "idle"

(* The busy-wait on r_msg ends.                                            *)
SpinEnds == \A p \in Procs : pc[p] = "spin" ~> pc[p] # "spin"

(* No task stays in the kernel where the code promises an end: IPC_RMID    *)
(* and signals end the sleep of msgsnd() and msgrcv(), whichever other     *)
(* wakeup they race with, and the waker ends the busy wait it has caused.  *)
WaitsEnd == RmidReleasesAll /\ SignalReleases /\ SpinEnds

=============================================================================
