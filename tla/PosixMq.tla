------------------------------ MODULE PosixMq ------------------------------
(***************************************************************************)
(* A POSIX message queue (ipc/mqueue.c): mq_timedsend() and                *)
(* mq_timedreceive() with their pipelined hand-over to sleeping tasks,     *)
(* mq_notify(), the O_NONBLOCK flag and close().                           *)
(*                                                                         *)
(* What runs under info->lock is one step, except the three stores of a    *)
(* wakeup (STATE_PENDING, the task's state, STATE_READY), which the woken  *)
(* task reads without the lock.                                            *)
(***************************************************************************)
EXTENDS Integers, Sequences, SequencesExt, FiniteSets

CONSTANTS
    Tasks,        \* threads
    Tgid,         \* the process of each thread
    Senders, Receivers, Notifiers,   \* who calls what
    Closers, Setters,
    Kinds,        \* the sigev_notify values used
    StaticPrio,   \* static_prio of each thread, small is urgent
    Msgs,
    MPrio,        \* m_type of each message
    mq_maxmsg,
    Signalled,    \* threads a signal may hit
    Timed,        \* threads that wait with a timeout
    Spurious,     \* threads whose sleep may end for no reason of the queue
    NoTask, NoMsg, NoPid

Pids == {Tgid[t] : t \in Tasks}

ASSUME MqConstants ==
    /\ Senders \cup Receivers \cup Notifiers \cup Closers \cup Setters
          \cup Signalled \cup Timed \cup Spurious \subseteq Tasks
    /\ NoTask \notin Tasks /\ NoMsg \notin Msgs /\ NoPid \notin Pids
    /\ Kinds \subseteq {"NULL", "NONE", "SIGNAL", "THREAD"}
    /\ StaticPrio \in [Tasks -> Int] /\ MPrio \in [Msgs -> Nat]
    /\ mq_maxmsg \in Nat \ {0}

VARIABLES
    \* struct mqueue_inode_info
    lock, messages,
    e_send, e_recv,     \* e_wait_q[SEND], e_wait_q[RECV]
    notify_owner, sigev_notify,
    notify_cookie,      \* none, armed (in nobody else's hands), sent
    \* struct file, one per process
    fd, nonblock,
    \* tasks
    pc, op,
    hold,               \* the message a call owns
    wstate,             \* ewp->state
    state, sig, timedout,
    woken,              \* whom a waker is waking up
    nc, kind,           \* mq_notify(): the cookie it owns, its argument
    res

inodev  == <<messages, e_send, e_recv>>
notifyv == <<notify_owner, sigev_notify, notify_cookie>>
filev   == <<fd, nonblock>>
sched   == <<state, sig, timedout>>
callv   == <<nc, kind>>
vars    == <<lock, inodev, notifyv, filev, pc, op, hold, wstate, sched, woken, callv, res>>

-----------------------------------------------------------------------------
Goto(t, l) == pc' = [pc EXCEPT ![t] = l]

(* The call ends with e, and whatever message it owns is freed.            *)
Return(t, e) ==
    /\ Goto(t, "ret")
    /\ res' = [res EXCEPT ![t] = e]
    /\ hold' = [hold EXCEPT ![t] = NoMsg]

(* Before the first waiter whose static_prio is not larger.                *)
wq_add(q, t) ==
    LET before == SelectInSeq(q, LAMBDA w : StaticPrio[w] <= StaticPrio[t])
    IN  IF before = 0 THEN Append(q, t) ELSE InsertAt(q, before, t)

(* Mutant: the last waiter is taken for the head of the list.              *)
wq_get_second_waiter(q) == IF Len(q) <= 1 THEN NoTask ELSE Last(q)

(* list.prev of the head.                                                  *)
wq_get_first_waiter(q) == IF q = <<>> THEN NoTask ELSE Last(q)

(* Mutant: behind the messages of the same priority.                       *)
msg_insert_front(list, m) ==
    LET k == SelectLastInSeq(list, LAMBDA x : MPrio[x] <= MPrio[m])
    IN  InsertAt(list, k + 1, m)

(* From the end past all messages of at least its priority.                *)
msg_insert(list, m) ==
    LET k == SelectLastInSeq(list, LAMBDA x : MPrio[x] < MPrio[m])
    IN  InsertAt(list, k + 1, m)

(* attr.mq_curmsgs against attr.mq_maxmsg.                                 *)
Full == Len(messages) = mq_maxmsg

(* schedule_hrtimeout_range_clock() returns.                               *)
Runnable(t) == state[t] = "RUN" \/ t \in sig

(* list_del() of a waiter, the message, STATE_PENDING.  The waker keeps    *)
(* the lock.                                                               *)
Prepare(t, w) ==
    /\ wstate' = [wstate EXCEPT ![w] = "PENDING"]
    /\ woken' = [woken EXCEPT ![t] = w]
    /\ lock' = t
    /\ Goto(t, "wake")
    /\ UNCHANGED res

-----------------------------------------------------------------------------
Init ==
    /\ lock = NoTask /\ messages = <<>> /\ e_send = <<>> /\ e_recv = <<>>
    /\ notify_owner = NoPid /\ sigev_notify = "NONE" /\ notify_cookie = "none"
    /\ fd = Pids /\ nonblock = {}
    /\ pc = [t \in Tasks |-> "idle"] /\ op = [t \in Tasks |-> "none"]
    /\ hold = [t \in Tasks |-> NoMsg] /\ wstate = [t \in Tasks |-> "NONE"]
    /\ state = [t \in Tasks |-> "RUN"] /\ sig = {} /\ timedout = {}
    /\ woken = [t \in Tasks |-> NoTask]
    /\ nc = {} /\ kind = [t \in Tasks |-> "NULL"]
    /\ res = [t \in Tasks |-> "none"]

(* Back to user mode: the frame of the call is gone.                       *)
syscall_exit(t) ==
    /\ pc[t] = "ret"
    /\ Goto(t, "idle")
    /\ op' = [op EXCEPT ![t] = "none"]
    /\ wstate' = [wstate EXCEPT ![t] = "NONE"]
    /\ sig' = sig \ {t} /\ timedout' = timedout \ {t}
    /\ kind' = [kind EXCEPT ![t] = "NULL"]
    /\ res' = [res EXCEPT ![t] = "none"]
    /\ UNCHANGED <<lock, inodev, notifyv, filev, hold, state, woken, nc>>

Signal(t) ==
    /\ t \in Signalled /\ t \notin sig /\ op[t] \in {"send", "recv"} /\ pc[t] # "ret"
    /\ sig' = sig \cup {t}
    /\ UNCHANGED <<lock, inodev, notifyv, filev, pc, op, hold, wstate, state, timedout,
                   woken, callv, res>>

-----------------------------------------------------------------------------
(* Sending.                                                                *)

(* mq_timedsend() up to the lock: fget(), load_msg().                      *)
mq_timedsend(t) ==
    /\ pc[t] = "idle" /\ Tgid[t] \in fd
    /\ \E m \in Msgs :
          /\ m \notin ToSet(messages) /\ \A u \in Tasks : hold[u] # m
          /\ hold' = [hold EXCEPT ![t] = m]
    /\ Goto(t, "slock")
    /\ op' = [op EXCEPT ![t] = "send"]
    /\ UNCHANGED <<lock, inodev, notifyv, filev, wstate, sched, woken, callv, res>>

(* The queue is full: EAGAIN, or wq_sleep().                               *)
send_full(t) ==
    /\ pc[t] = "slock" /\ lock = NoTask /\ Full
    /\ \/ /\ Tgid[t] \in nonblock
          /\ Return(t, "EAGAIN")
          /\ UNCHANGED <<e_send, state>>
       \/ /\ Tgid[t] \notin nonblock
          /\ e_send' = wq_add(e_send, t)
          /\ state' = [state EXCEPT ![t] = "INT"]
          /\ Goto(t, "sleep")
          /\ UNCHANGED <<hold, res>>
    /\ UNCHANGED <<lock, messages, e_recv, notifyv, filev, op, wstate, sig, timedout,
                   woken, callv>>

(* pipelined_send(): past the queue to the first waiting receiver.         *)
pipelined_send(t) ==
    LET r == wq_get_first_waiter(e_recv) IN
    /\ pc[t] = "slock" /\ lock = NoTask /\ ~Full /\ r # NoTask
    /\ hold' = [hold EXCEPT ![t] = NoMsg, ![r] = hold[t]]
    /\ e_recv' = RemoveFirst(e_recv, r)
    /\ Prepare(t, r)
    /\ UNCHANGED <<messages, e_send, notifyv, filev, op, sched, callv>>

(* Mutant: the cookie goes out and the owner stays.                        *)
do_notify_again(list) ==
    IF notify_owner # NoPid /\ Len(list) = 1
    THEN /\ notify_cookie' = IF sigev_notify = "THREAD" THEN "sent" ELSE notify_cookie
         /\ UNCHANGED <<notify_owner, sig>>
    ELSE UNCHANGED <<notify_owner, notify_cookie, sig>>

(* __do_notify(): the queue was empty.  A signal goes to some thread of    *)
(* the owner, a cookie to its socket; the owner is forgotten.              *)
do_notify(list) ==
    IF notify_owner # NoPid /\ Len(list) = 1
    THEN /\ notify_owner' = NoPid
         /\ notify_cookie' = IF sigev_notify = "THREAD" THEN "sent" ELSE notify_cookie
         /\ IF sigev_notify = "SIGNAL"
            THEN \E u \in {v \in Tasks : Tgid[v] = notify_owner} :
                    sig' = IF op[u] \in {"send", "recv"} THEN sig \cup {u} ELSE sig
            ELSE UNCHANGED sig
    ELSE UNCHANGED <<notify_owner, notify_cookie, sig>>

(* Room, and nobody waits for a message.                                   *)
send_insert(t) ==
    /\ pc[t] = "slock" /\ lock = NoTask /\ ~Full
    /\ wq_get_first_waiter(e_recv) = NoTask
    /\ messages' = msg_insert(messages, hold[t])
    /\ do_notify(messages')
    /\ Return(t, "ok")
    /\ UNCHANGED <<lock, e_send, e_recv, sigev_notify, filev, op, wstate, state, timedout,
                   woken, callv>>

-----------------------------------------------------------------------------
(* Receiving.                                                              *)

mq_timedreceive(t) ==
    /\ pc[t] = "idle" /\ Tgid[t] \in fd
    /\ Goto(t, "rlock")
    /\ op' = [op EXCEPT ![t] = "recv"]
    /\ UNCHANGED <<lock, inodev, notifyv, filev, hold, wstate, sched, woken, callv, res>>

(* The queue is empty: EAGAIN, or wq_sleep().                              *)
recv_empty(t) ==
    /\ pc[t] = "rlock" /\ lock = NoTask /\ messages = <<>>
    /\ \/ /\ Tgid[t] \in nonblock
          /\ Return(t, "EAGAIN")
          /\ UNCHANGED <<e_recv, state>>
       \/ /\ Tgid[t] \notin nonblock
          /\ e_recv' = wq_add(e_recv, t)
          /\ state' = [state EXCEPT ![t] = "INT"]
          /\ Goto(t, "sleep")
          /\ UNCHANGED <<hold, res>>
    /\ UNCHANGED <<lock, messages, e_send, notifyv, filev, op, wstate, sig, timedout,
                   woken, callv>>

(* msg_get(), and nobody waits for room.                                   *)
recv_get(t) ==
    /\ pc[t] = "rlock" /\ lock = NoTask /\ messages # <<>>
    /\ wq_get_first_waiter(e_send) = NoTask
    /\ messages' = Front(messages)
    /\ hold' = [hold EXCEPT ![t] = Last(messages)]
    /\ Goto(t, "copy")
    /\ UNCHANGED <<lock, e_send, e_recv, notifyv, filev, op, wstate, sched, woken, callv,
                   res>>

(* msg_get() and pipelined_receive(): the message of the first waiting     *)
(* sender fills the place.                                                 *)
pipelined_receive(t) ==
    LET s == wq_get_first_waiter(e_send) IN
    /\ pc[t] = "rlock" /\ lock = NoTask /\ messages # <<>> /\ s # NoTask
    /\ messages' = msg_insert(Front(messages), hold[s])
    /\ hold' = [hold EXCEPT ![t] = Last(messages), ![s] = NoMsg]
    /\ e_send' = RemoveFirst(e_send, s)
    /\ Prepare(t, s)
    /\ UNCHANGED <<e_recv, notifyv, filev, op, sched, callv>>

(* store_msg() and free_msg(), after the lock is gone; a message that      *)
(* cannot be stored is lost.                                               *)
recv_copy(t) ==
    /\ pc[t] = "copy"
    /\ \E e \in {"ok", "EFAULT"} : Return(t, e)
    /\ UNCHANGED <<lock, inodev, notifyv, filev, op, wstate, sched, woken, callv>>

-----------------------------------------------------------------------------
(* Both: the wakeup and the sleep.                                         *)

wake_up_process(t) ==
    /\ pc[t] = "wake"
    /\ state' = [state EXCEPT ![woken[t]] = "RUN"]
    /\ Goto(t, "ready")
    /\ UNCHANGED <<lock, inodev, notifyv, filev, op, hold, wstate, sig, timedout, woken,
                   callv, res>>

(* STATE_READY, unlock; a receiver goes on to copy its message.            *)
set_ready(t) ==
    /\ pc[t] = "ready"
    /\ wstate' = [wstate EXCEPT ![woken[t]] = "READY"]
    /\ woken' = [woken EXCEPT ![t] = NoTask]
    /\ lock' = NoTask
    /\ IF op[t] = "recv" THEN Goto(t, "copy") /\ UNCHANGED <<hold, res>>
       ELSE Return(t, "ok")
    /\ UNCHANGED <<inodev, notifyv, filev, op, sched, callv>>

(* The sleep ends: a wakeup, a signal, or the timer.                       *)
wq_wake(t) ==
    /\ pc[t] = "sleep"
    /\ \/ (Runnable(t) \/ t \in Spurious) /\ UNCHANGED timedout
       \/ t \in Timed /\ timedout' = timedout \cup {t}
    /\ state' = [state EXCEPT ![t] = "RUN"]
    /\ Goto(t, "spin")
    /\ UNCHANGED <<lock, inodev, notifyv, filev, op, hold, wstate, sig, woken, callv, res>>

(* wq_sleep() returns 0: the sender is done, the receiver has its message. *)
Served(t) ==
    IF op[t] = "recv" THEN Goto(t, "copy") /\ UNCHANGED <<hold, res>>
    ELSE Return(t, "ok")

(* Mutant: STATE_PENDING is taken for STATE_READY.                         *)
wq_spin_any(t) ==
    /\ pc[t] = "spin"
    /\ IF wstate[t] # "NONE" THEN Served(t)
       ELSE Goto(t, "relock") /\ UNCHANGED <<hold, res>>
    /\ UNCHANGED <<lock, inodev, notifyv, filev, op, wstate, sched, woken, callv>>

(* The busy wait for the end of STATE_PENDING, without the lock.           *)
wq_spin(t) ==
    /\ pc[t] = "spin" /\ wstate[t] # "PENDING"
    /\ IF wstate[t] = "READY" THEN Served(t)
       ELSE Goto(t, "relock") /\ UNCHANGED <<hold, res>>
    /\ UNCHANGED <<lock, inodev, notifyv, filev, op, wstate, sched, woken, callv>>

(* Mutant: list_del() is skipped after a signal or a timeout.              *)
wq_relock_stays(t) ==
    /\ pc[t] = "relock" /\ lock = NoTask
    /\ \/ /\ wstate[t] = "READY"
          /\ Served(t)
          /\ UNCHANGED <<e_send, e_recv, state>>
       \/ /\ wstate[t] # "READY" /\ t \in sig \cup timedout
          /\ UNCHANGED <<e_send, e_recv>>
          /\ Return(t, IF t \in sig THEN "ERESTARTSYS" ELSE "ETIMEDOUT")
          /\ UNCHANGED state
       \/ /\ wstate[t] # "READY" /\ t \notin sig \cup timedout
          /\ state' = [state EXCEPT ![t] = "INT"]
          /\ Goto(t, "sleep")
          /\ UNCHANGED <<e_send, e_recv, hold, res>>
    /\ UNCHANGED <<lock, messages, notifyv, filev, op, wstate, sig, timedout, woken, callv>>

(* With the lock: served meanwhile, a signal, the timeout, or sleep again. *)
wq_relock(t) ==
    /\ pc[t] = "relock" /\ lock = NoTask
    /\ \/ /\ wstate[t] = "READY"
          /\ Served(t)
          /\ UNCHANGED <<e_send, e_recv, state>>
       \/ /\ wstate[t] # "READY" /\ t \in sig \cup timedout
          /\ e_send' = RemoveFirst(e_send, t) /\ e_recv' = RemoveFirst(e_recv, t)
          /\ Return(t, IF t \in sig THEN "ERESTARTSYS" ELSE "ETIMEDOUT")
          /\ UNCHANGED state
       \/ /\ wstate[t] # "READY" /\ t \notin sig \cup timedout
          /\ state' = [state EXCEPT ![t] = "INT"]
          /\ Goto(t, "sleep")
          /\ UNCHANGED <<e_send, e_recv, hold, res>>
    /\ UNCHANGED <<lock, messages, notifyv, filev, op, wstate, sig, timedout, woken, callv>>

-----------------------------------------------------------------------------
(* Notification, close() and O_NONBLOCK.                                   *)

(* mq_notify() up to the look at mqdes; SIGEV_THREAD first makes a cookie. *)
mq_notify(t) ==
    /\ pc[t] = "idle"
    /\ \E k \in Kinds :
          /\ kind' = [kind EXCEPT ![t] = k]
          /\ nc' = IF k = "THREAD" THEN nc \cup {t} ELSE nc
          /\ Goto(t, IF k = "THREAD" THEN "nattach" ELSE "nget")
    /\ op' = [op EXCEPT ![t] = "notify"]
    /\ UNCHANGED <<lock, inodev, notifyv, filev, hold, wstate, sched, woken, res>>

(* The loop at retry: the socket is looked up and the cookie attached, or  *)
(* there is no socket (EBADF), or a signal ends the wait for its memory;   *)
(* either frees the cookie.  A return of 1 leads back here and changes     *)
(* nothing: the socket's references and memory are net/netlink's state.    *)
netlink_attachskb(t) ==
    /\ pc[t] = "nattach"
    /\ \/ Goto(t, "nget") /\ UNCHANGED <<nc, hold, res>>
       \/ /\ \E e \in {"EBADF", "ERESTARTSYS"} : Return(t, e)
          /\ nc' = nc \ {t}
    /\ UNCHANGED <<lock, inodev, notifyv, filev, op, wstate, sched, woken, kind>>

(* fget(mqdes): without a file, "out" detaches the cookie.                 *)
notify_fget(t) ==
    /\ pc[t] = "nget"
    /\ IF Tgid[t] \in fd
       THEN Goto(t, "nlock") /\ UNCHANGED <<nc, hold, res>>
       ELSE Return(t, "EBADF") /\ nc' = nc \ {t}
    /\ UNCHANGED <<lock, inodev, notifyv, filev, op, wstate, sched, woken, kind>>

(* NOTIFY_REMOVED to the owner's socket; the owner is forgotten.           *)
remove_notification ==
    /\ notify_cookie' = IF notify_owner # NoPid /\ sigev_notify = "THREAD" THEN "sent"
                        ELSE notify_cookie
    /\ notify_owner' = NoPid

(* Registration, which takes the cookie over, unless somebody is already   *)
(* registered: EBUSY, and the cookie is detached.                          *)
notify_register(t) ==
    /\ pc[t] = "nlock" /\ lock = NoTask /\ kind[t] # "NULL"
    /\ \/ /\ notify_owner # NoPid
          /\ Return(t, "EBUSY")
          /\ UNCHANGED notifyv
       \/ /\ notify_owner = NoPid
          /\ notify_owner' = Tgid[t]
          /\ sigev_notify' = kind[t]
          /\ notify_cookie' = IF kind[t] = "THREAD" THEN "armed" ELSE notify_cookie
          /\ Return(t, "ok")
    /\ nc' = nc \ {t}
    /\ UNCHANGED <<lock, inodev, filev, op, wstate, sched, woken, kind>>

(* The owner gives its registration up; anybody else is ignored.           *)
notify_remove(t) ==
    /\ pc[t] = "nlock" /\ lock = NoTask /\ kind[t] = "NULL"
    /\ IF notify_owner = Tgid[t] THEN remove_notification
       ELSE UNCHANGED <<notify_owner, notify_cookie>>
    /\ Return(t, "ok")
    /\ UNCHANGED <<lock, inodev, sigev_notify, filev, op, wstate, sched, woken, callv>>

(* close(): the descriptor is gone at once.                                *)
close(t) ==
    /\ pc[t] = "idle" /\ Tgid[t] \in fd
    /\ fd' = fd \ {Tgid[t]}
    /\ op' = [op EXCEPT ![t] = "close"]
    /\ Goto(t, "flush")
    /\ UNCHANGED <<lock, inodev, notifyv, nonblock, hold, wstate, sched, woken, callv, res>>

(* mqueue_flush_file()                                                     *)
mqueue_flush_file(t) ==
    /\ pc[t] = "flush" /\ lock = NoTask
    /\ IF notify_owner = Tgid[t] THEN remove_notification
       ELSE UNCHANGED <<notify_owner, notify_cookie>>
    /\ Return(t, "ok")
    /\ UNCHANGED <<lock, inodev, sigev_notify, filev, op, wstate, sched, woken, callv>>

(* mq_getsetattr() sets or clears O_NONBLOCK.                              *)
mq_getsetattr(t) ==
    /\ pc[t] = "idle" /\ Tgid[t] \in fd /\ lock = NoTask
    /\ nonblock' \in {nonblock \cup {Tgid[t]}, nonblock \ {Tgid[t]}}
    /\ UNCHANGED <<lock, inodev, notifyv, fd, pc, op, hold, wstate, sched, woken, callv,
                   res>>

-----------------------------------------------------------------------------
Step(t) ==
    \/ syscall_exit(t)
    \/ send_full(t) \/ pipelined_send(t) \/ send_insert(t)
    \/ recv_empty(t) \/ recv_get(t) \/ pipelined_receive(t) \/ recv_copy(t)
    \/ wake_up_process(t) \/ set_ready(t)
    \/ wq_wake(t) \/ wq_spin(t) \/ wq_relock(t)
    \/ netlink_attachskb(t) \/ notify_fget(t) \/ notify_register(t) \/ notify_remove(t)
    \/ mqueue_flush_file(t)

Next ==
    \/ \E t \in Tasks : Step(t) \/ Signal(t)
    \/ \E t \in Senders : mq_timedsend(t)
    \/ \E t \in Receivers : mq_timedreceive(t)
    \/ \E t \in Notifiers : mq_notify(t)
    \/ \E t \in Closers : close(t)
    \/ \E t \in Setters : mq_getsetattr(t)

Spec == Init /\ [][Next]_vars

-----------------------------------------------------------------------------
Labels == {"idle", "ret", "slock", "rlock", "copy", "wake", "ready", "sleep", "spin",
           "relock", "nattach", "nget", "nlock", "flush"}
Results == {"none", "ok", "EAGAIN", "ERESTARTSYS", "ETIMEDOUT", "EBUSY", "EBADF",
            "EFAULT"}
WaitPcs == {"sleep", "spin", "relock"}

(* Types; the array of messages is never overrun.                          *)
TypeOK ==
    /\ lock \in Tasks \cup {NoTask}
    /\ messages \in Seq(Msgs) /\ Len(messages) <= mq_maxmsg
    /\ e_send \in Seq(Tasks) /\ e_recv \in Seq(Tasks)
    /\ notify_owner \in Pids \cup {NoPid}
    /\ sigev_notify \in {"NONE", "SIGNAL", "THREAD"}
    /\ notify_cookie \in {"none", "armed", "sent"}
    /\ fd \subseteq Pids /\ nonblock \subseteq Pids
    /\ pc \in [Tasks -> Labels] /\ op \in [Tasks -> {"none", "send", "recv", "notify", "close"}]
    /\ hold \in [Tasks -> Msgs \cup {NoMsg}]
    /\ wstate \in [Tasks -> {"NONE", "PENDING", "READY"}]
    /\ state \in [Tasks -> {"RUN", "INT"}] /\ sig \subseteq Tasks /\ timedout \subseteq Timed
    /\ woken \in [Tasks -> Tasks \cup {NoTask}]
    /\ nc \subseteq Notifiers /\ kind \in [Tasks -> {"NULL"} \cup Kinds]
    /\ res \in [Tasks -> Results]

(* The stores of pipelined_send() and pipelined_receive() to the           *)
(* ext_wait_queue of another task hit a frame that is still in wq_sleep(). *)
WakeupHitsLiveWaiter ==
    \A t \in Tasks : pc[t] \in {"wake", "ready"} =>
        pc[woken[t]] \in WaitPcs /\ wstate[woken[t]] = "PENDING"

(* A task is on a wait list exactly while nobody has served it, so that    *)
(* list_del() after a signal or a timeout, done on the strength of         *)
(* ewp->state alone, never unlinks a task twice; and types hold, so that   *)
(* the queue never exceeds mq_maxmsg.                                      *)
WaitersAgree ==
    /\ TypeOK
    /\ IsInjective(e_send) /\ IsInjective(e_recv)
    /\ \A t \in Tasks :
          /\ t \in ToSet(e_send) <=> op[t] = "send" /\ pc[t] \in WaitPcs /\ wstate[t] = "NONE"
          /\ t \in ToSet(e_recv) <=> op[t] = "recv" /\ pc[t] \in WaitPcs /\ wstate[t] = "NONE"

(* Nobody waits for room beside a free place or for a message beside one.  *)
NobodyWaitsInVain ==
    /\ e_send # <<>> => Full
    /\ e_recv # <<>> => messages = <<>>

(* The cookie of a SIGEV_THREAD registration is sent exactly once, as      *)
(* NOTIFY_WOKENUP or as NOTIFY_REMOVED: it is unsent exactly as long as    *)
(* the registration lasts, whatever other registrations come and go, and   *)
(* no mq_notify() that has ended keeps a cookie.                           *)
CookieSentOnce ==
    /\ notify_cookie = "armed" <=> notify_owner # NoPid /\ sigev_notify = "THREAD"
    /\ \A t \in nc : pc[t] \in {"nattach", "nget", "nlock"} /\ kind[t] = "THREAD"

-----------------------------------------------------------------------------
(* The inductive invariant of the proofs.                                  *)

(* Whoever is in the middle of a wakeup has the lock, and nobody else.     *)
LockInv == \A t \in Tasks : lock = t <=> pc[t] \in {"wake", "ready"}

(* Every label belongs to its call; a call has its message until it is     *)
(* queued or handed over, and from the moment it is received.              *)
CallInv ==
    \A t \in Tasks :
        /\ pc[t] = "idle" => op[t] = "none"
        /\ pc[t] = "slock" => op[t] = "send" /\ hold[t] \in Msgs
        /\ pc[t] = "rlock" => op[t] = "recv"
        /\ pc[t] \in {"idle", "ret", "rlock"} => hold[t] = NoMsg
        /\ pc[t] = "copy" => op[t] = "recv" /\ hold[t] \in Msgs
        /\ pc[t] \in WaitPcs \cup {"wake", "ready"} => op[t] \in {"send", "recv"}
        /\ pc[t] \in {"wake", "ready"} /\ op[t] = "recv" => hold[t] \in Msgs
        /\ pc[t] \in WaitPcs => (hold[t] \in Msgs <=> (op[t] = "send" <=> wstate[t] = "NONE"))
        /\ pc[t] \in {"nattach", "nget", "nlock"} => op[t] = "notify"
        /\ pc[t] = "flush" => op[t] = "close"

(* ewp->state is READY until the call returns, PENDING exactly while one   *)
(* waker is at work on a task that is still in wq_sleep(), else NONE.      *)
WakeInv ==
    /\ \A t \in Tasks :
         /\ pc[t] \notin WaitPcs \cup {"copy", "ret"} => wstate[t] = "NONE"
         /\ wstate[t] = "PENDING" => lock # NoTask /\ woken[lock] = t
         /\ pc[t] \in {"wake", "ready"} => woken[t] \in Tasks
    /\ WakeupHitsLiveWaiter

(* The array of messages ends with those of the highest priority, a wait   *)
(* list with the most urgent tasks (msg_insert, wq_add).                   *)
OrderInv ==
    /\ \A i, j \in DOMAIN messages : i < j => MPrio[messages[i]] <= MPrio[messages[j]]
    /\ \A i, j \in DOMAIN e_send : i < j => StaticPrio[e_send[i]] >= StaticPrio[e_send[j]]
    /\ \A i, j \in DOMAIN e_recv : i < j => StaticPrio[e_recv[i]] >= StaticPrio[e_recv[j]]

IInv ==
    /\ WaitersAgree
    /\ LockInv
    /\ CallInv
    /\ WakeInv
    /\ NobodyWaitsInVain
    /\ CookieSentOnce
    /\ OrderInv
=============================================================================
