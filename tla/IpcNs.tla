------------------------------- MODULE IpcNs -------------------------------
(***************************************************************************)
(* The life of IPC namespaces (ipc/namespace.c): how they are created,     *)
(* counted and torn down, while the file system of the POSIX queues        *)
(* (ipc/mqueue.c) takes references to them from outside, and while the     *)
(* notifier chain (ipc/ipcns_notifier.c) walks them to recompute msgmni.   *)
(*                                                                         *)
(* A task's kernel code is a stack of frames, each with its label and its  *)
(* arguments; a step replaces the top frame.  What runs under mq_lock, or  *)
(* under the chain's rwsem as a writer, is one step.  A frame "mntput" is  *)
(* also the reference to the mount that it will drop.                      *)
(***************************************************************************)
EXTENDS Integers, Sequences, FiniteSets, FiniteSetsExt, SequencesExt

CONSTANTS
    Tasks,
    kworker,      \* the thread of the work queue, none of Tasks
    UserOf,       \* current_user()
    Nss,          \* ipc_namespace structs, numbered
    Sbs,          \* super_block structs, numbered
    Queues,       \* queue inodes, numbered
    mq_queues_max,
    MSGQUEUE,     \* RLIMIT_MSGQUEUE, in queues
    MaxMem,       \* bound: changes of the amount of memory
    Scenarios,    \* bound: who makes which call, has CAP_SYS_RESOURCE, starts where
    NoNs, NoSb, NoQueue, NoUser

Threads == Tasks \cup {kworker}
Users == {UserOf[t] : t \in Tasks}
init_ipc_ns == 0
ByHand == <<0, 0>>
Calls == {"unshare", "exit", "mq", "mount", "sysctl", "hotplug"}

(* A frame: its label, what it is about (a namespace, a super block or a   *)
(* queue), a namespace it holds, a computed msgmni and nb->next.           *)
MkFrame(label, x, n, mni, nb) == [at |-> label, of |-> x, ns |-> n, mni |-> mni, next |-> nb]
Frame(label, x) == MkFrame(label, x, NoNs, ByHand, NoNs)

(* A queue inode: its super block, who pays for it, whether it has a name  *)
(* and who has it open.                                                    *)
QueueRecord == [sb : Sbs, user : Users \cup {NoUser}, link : BOOLEAN, fds : SUBSET Tasks]

ASSUME NsConstants ==
    /\ Nss \subseteq Nat /\ init_ipc_ns \in Nss /\ Sbs \subseteq Nat /\ Nss \subseteq Sbs
    /\ Queues \subseteq Nat /\ {mq_queues_max, MSGQUEUE, MaxMem} \subseteq Nat
    /\ IsFiniteSet(Tasks) /\ IsFiniteSet(Nss) /\ IsFiniteSet(Queues)
    /\ kworker \notin Tasks /\ NoNs \notin Nss /\ NoSb \notin Sbs \cup Nss \cup {NoNs}
    /\ NoUser \notin Users
    /\ NoQueue \notin QueueRecord
    /\ \A s \in Scenarios : /\ \A call \in Calls : s[call] \subseteq Tasks
                            /\ s.capable \subseteq Tasks
                            /\ s.nsproxy \in [Tasks -> Nss]

VARIABLES
    alive, count,       \* allocated namespaces, ns->count
    nsproxy,            \* the namespace of each task
    nr_ipc_ns, mem,     \* what msgmni depends on: namespaces, amount of memory
    msg_ctlmni,         \* the values it was computed from, or ByHand
    auto_msgmni,
    chain, loose,       \* ipcns_chain, and what was cut off from it
    work,               \* ipc_memory_wq is pending
    mq_mnt,             \* the super block of the namespace's queues
    s_fs_info,          \* its way back; NoSb: not allocated
    usermnt,            \* super blocks mounted by users
    inode,              \* the queues
    mq_queues_count, mq_bytes,
    stack,
    raced,              \* history: msgmni fell to a race or a short write
    may                 \* the scenario, fixed at the start

nsv    == <<alive, count, nsproxy>>
mniv   == <<nr_ipc_ns, mem, msg_ctlmni, auto_msgmni, chain, loose, work, raced>>
sbv    == <<mq_mnt, s_fs_info, usermnt>>
queuev == <<inode, mq_queues_count, mq_bytes>>
vars   == <<nsv, mniv, sbv, queuev, stack, may>>

-----------------------------------------------------------------------------
Idle(t) == stack[t] = <<>>
At(t, label) == stack[t] # <<>> /\ Head(stack[t]).at = label
Arg(t) == Head(stack[t]).of

(* The top frame of t is replaced by frames.                               *)
Run(t, frames) == stack' = [stack EXCEPT ![t] = frames \o Tail(@)]

(* t enters the kernel.                                                    *)
Enter(t, frames) == stack' = [stack EXCEPT ![t] = frames]

Frames(t) == {stack[t][i] : i \in DOMAIN stack[t]}

(* Frames of a set in a stack, and in all stacks.                          *)
Times(stk, S) == Cardinality({i \in DOMAIN stk : stk[i] \in S})
Total(S) == SumFunction([t \in Threads |-> Times(stack[t], S)])

(* The first free of some numbered structs.                                *)
First(x, S) == x \in S /\ \A y \in S : x <= y

(* References to the mounts of super block s.                              *)
MntRefs(s) ==
    Cardinality({n \in Nss : mq_mnt[n] = s}) + Cardinality({s} \cap usermnt)
      + SumFunction([q \in Queues |-> IF inode[q] # NoQueue /\ inode[q].sb = s
                                      THEN Cardinality(inode[q].fds) ELSE 0])
      + Total({Frame("mntput", s)})

(* Walkers hold the rwsem of the chain as readers, one that has died of an *)
(* oops for ever.                                                          *)
NoReaders == \A t \in Threads : ~At(t, "walk") /\ ~At(t, "store") /\ ~At(t, "oops")

-----------------------------------------------------------------------------
(* msgmni and the notifier chain.                                          *)

(* nb->next; a walker that has come to what was cut off goes on there.     *)
NextNb(n) ==
    IF n \in ToSet(chain)
    THEN {IF i = Len(chain) THEN NoNs ELSE chain[i + 1] : i \in {j \in DOMAIN chain : chain[j] = n}}
    ELSE loose \cup {NoNs}

(* msgmni is computed, the namespace is not on the chain yet: a change of  *)
(* nr_ipc_ns or of the memory passes it by.                                *)
PassedBy == {n \in Nss : \E t \in Threads : 
               /\ Frame("register", n) \in Frames(t)
               /\ Frames(t) \cap {Frame("nr_inc", n), Frame("msg_init_ns", n), Frame("compute", n)} = {}}

(* Somebody has computed a msgmni for n and not stored it yet.             *)
Storing(n) == \E t \in Threads : (At(t, "store") \/ At(t, "set")) /\ Arg(t) = n

(* The notifier block of n is cleared and has no notifier_call yet.        *)
NullCall(n) == \E t \in Threads : At(t, "nb_call") /\ Arg(t) = n

(* blocking_notifier_call_chain(): the head is read under the rwsem.       *)
ipcns_notify(t) ==
    /\ At(t, "notify")
    /\ Run(t, IF chain = <<>> THEN <<>> ELSE <<Frame("walk", Head(chain))>>)
    /\ UNCHANGED <<nsv, mniv, sbv, queuev>>

(* ipcns_callback(): next_nb is read first; recompute_msgmni() reads ...   *)
callback_read(t) ==
    LET n == Arg(t)
    IN  /\ At(t, "walk") /\ ~NullCall(n)
        /\ \E nb \in NextNb(n) : Run(t, <<MkFrame("store", n, NoNs, <<nr_ipc_ns, mem>>, nb)>>)
        /\ raced' = IF Storing(n) THEN raced \cup {n} ELSE raced
        /\ UNCHANGED <<nsv, nr_ipc_ns, mem, msg_ctlmni, auto_msgmni, chain, loose, work, sbv, queuev>>

(* A notifier_call that is NULL is called all the same; the thread is gone *)
(* (what do_exit() still does of it is left out), its rwsem stays taken.   *)
callback_oops(t) ==
    /\ At(t, "walk") /\ NullCall(Arg(t))
    /\ Run(t, <<Frame("oops", Arg(t))>>)
    /\ UNCHANGED <<nsv, mniv, sbv, queuev>>

(* ... and stores.                                                         *)
callback_store(t) ==
    LET f == Head(stack[t])
    IN  /\ At(t, "store")
        /\ msg_ctlmni' = [msg_ctlmni EXCEPT ![f.of] = f.mni]
        /\ Run(t, IF f.next = NoNs THEN <<>> ELSE <<Frame("walk", f.next)>>)
        /\ UNCHANGED <<nsv, nr_ipc_ns, mem, auto_msgmni, chain, loose, work, raced, sbv, queuev>>

(* cond_register_ipcns_notifier() clears the notifier block first, without *)
(* the rwsem: if it is on the chain, what follows it is cut off, and ...   *)
clear_nb(t) ==
    /\ At(t, "clear")
    /\ \/ /\ Arg(t) \notin ToSet(chain)
          /\ UNCHANGED <<chain, loose, raced>>
       \/ \E i \in DOMAIN chain :
             LET off == {chain[j] : j \in (i + 1) .. Len(chain)}
             IN  /\ chain[i] = Arg(t)
                 /\ chain' = SubSeq(chain, 1, i)
                 /\ loose' = loose \cup off
                 /\ raced' = raced \cup off
    /\ Run(t, <<Frame("nb_call", Arg(t))>>)
    /\ UNCHANGED <<nsv, nr_ipc_ns, mem, msg_ctlmni, auto_msgmni, work, sbv, queuev>>

(* ... only then is notifier_call stored again.                            *)
set_notifier_call(t) ==
    /\ At(t, "nb_call")
    /\ Run(t, <<>>)
    /\ UNCHANGED <<nsv, mniv, sbv, queuev>>

(* register_ipcns_notifier() and cond_register_ipcns_notifier(): at the    *)
(* end, for all have the same priority; the flag is set without the rwsem. *)
register_ipcns_notifier(t) ==
    LET n == Arg(t)
    IN  /\ At(t, "register")
        /\ NoReaders
        /\ chain' = IF n \in ToSet(chain) THEN chain ELSE Append(chain, n)
        /\ loose' = loose \ {n}
        /\ Run(t, <<Frame("flag_on", n)>>)
        /\ UNCHANGED <<nsv, nr_ipc_ns, mem, msg_ctlmni, auto_msgmni, work, raced, sbv, queuev>>

unregister_ipcns_notifier(t) ==
    LET n == Arg(t)
    IN  /\ At(t, "unregister")
        /\ NoReaders
        /\ chain' = RemoveFirst(chain, n)
        /\ loose' = loose \ {n}
        /\ Run(t, <<Frame("flag_off", n)>>)
        /\ UNCHANGED <<nsv, nr_ipc_ns, mem, msg_ctlmni, auto_msgmni, work, raced, sbv, queuev>>

(* ns->auto_msgmni = 1, ns->auto_msgmni = 0.                               *)
set_auto_msgmni(t) ==
    /\ \/ At(t, "flag_on")  /\ auto_msgmni' = auto_msgmni \cup {Arg(t)}
       \/ At(t, "flag_off") /\ auto_msgmni' = auto_msgmni \ {Arg(t)}
    /\ Run(t, <<>>)
    /\ UNCHANGED <<nsv, nr_ipc_ns, mem, msg_ctlmni, chain, loose, work, raced, sbv, queuev>>

(* MEM_ONLINE or MEM_OFFLINE: ipc_memory_callback() queues the work.       *)
hotplug(t) ==
    /\ t \in may.hotplug /\ Idle(t)
    /\ mem < MaxMem
    /\ mem' = mem + 1
    /\ work' = TRUE
    /\ raced' = raced \cup PassedBy
    /\ UNCHANGED <<nsv, nr_ipc_ns, msg_ctlmni, auto_msgmni, chain, loose, sbv, queuev, stack>>

ipc_memory_notifier ==
    /\ Idle(kworker) /\ work
    /\ work' = FALSE
    /\ Enter(kworker, <<Frame("notify", NoNs)>>)
    /\ UNCHANGED <<nsv, nr_ipc_ns, mem, msg_ctlmni, auto_msgmni, chain, loose, raced, sbv, queuev>>

(* sysctl: a msgmni written by hand ends the automatic adjustment, unless  *)
(* the write is short (lenp_bef # *lenp: something follows the number).    *)
sysctl_msgmni(t) ==
    LET n == nsproxy[t]
    IN  /\ t \in may.sysctl /\ Idle(t) /\ n # NoNs
        /\ msg_ctlmni' = [msg_ctlmni EXCEPT ![n] = ByHand]
        /\ \/ /\ raced' = raced \cup ({n} \cap PassedBy)
              /\ Enter(t, <<Frame("unregister", n)>>)
           \/ raced' = raced \cup {n} /\ UNCHANGED stack
        /\ UNCHANGED <<nsv, nr_ipc_ns, mem, auto_msgmni, chain, loose, work, sbv, queuev>>

(* sysctl: proc_ipcauto_dointvec_minmax() reads oldval, ...                *)
sysctl_auto_msgmni(t) ==
    LET n == nsproxy[t]
    IN  /\ t \in may.sysctl /\ Idle(t) /\ n # NoNs
        /\ Enter(t, <<Frame(IF n \in auto_msgmni THEN "dointvec_1" ELSE "dointvec_0", n)>>)
        /\ UNCHANGED <<nsv, mniv, sbv, queuev>>

(* ... stores what is written, and goes on if the write is not short ...   *)
proc_dointvec_minmax(t) ==
    LET n == Arg(t)
    IN  /\ At(t, "dointvec_0") \/ At(t, "dointvec_1")
        /\ auto_msgmni' \in {auto_msgmni \cup {n}, auto_msgmni \ {n}}
        /\ \/ Run(t, <<Frame(IF At(t, "dointvec_1") THEN "newval_1" ELSE "newval_0", n)>>)
           \/ Run(t, <<>>)
        /\ UNCHANGED <<nsv, nr_ipc_ns, mem, msg_ctlmni, chain, loose, work, raced, sbv, queuev>>

(* ... reads newval, and ipc_auto_callback() if it is not oldval.          *)
ipc_auto_callback(t) ==
    LET n == Arg(t)
    IN  /\ \/ /\ At(t, "newval_1") /\ n \notin auto_msgmni
              /\ Run(t, <<Frame("unregister", n)>>)
           \/ /\ At(t, "newval_0") /\ n \in auto_msgmni
              /\ Run(t, <<Frame("compute", n), Frame("clear", n), Frame("register", n)>>)
           \/ /\ (At(t, "newval_1") /\ n \in auto_msgmni) \/ (At(t, "newval_0") /\ n \notin auto_msgmni)
              /\ Run(t, <<>>)
        /\ UNCHANGED <<nsv, mniv, sbv, queuev>>

(* recompute_msgmni() of the caller's own namespace.                       *)
compute(t) ==
    LET n == Arg(t)
    IN  /\ At(t, "compute")
        /\ Run(t, <<MkFrame("set", n, NoNs, <<nr_ipc_ns, mem>>, NoNs)>>)
        /\ raced' = IF Storing(n) THEN raced \cup {n} ELSE raced
        /\ UNCHANGED <<nsv, nr_ipc_ns, mem, msg_ctlmni, auto_msgmni, chain, loose, work, sbv, queuev>>

compute_set(t) ==
    LET f == Head(stack[t])
    IN  /\ At(t, "set")
        /\ msg_ctlmni' = [msg_ctlmni EXCEPT ![f.of] = f.mni]
        /\ Run(t, <<>>)
        /\ UNCHANGED <<nsv, nr_ipc_ns, mem, auto_msgmni, chain, loose, work, raced, sbv, queuev>>

-----------------------------------------------------------------------------
(* Creating a namespace: create_ipc_ns() for unshare(CLONE_NEWIPC).        *)

(* The struct and, by mq_init_ns(), its mount of the queues.               *)
create_ipc_ns(t) ==
    /\ t \in may.unshare /\ Idle(t) /\ nsproxy[t] # NoNs
    /\ \E n \in Nss, s \in Sbs :
         /\ First(n, Nss \ alive) /\ First(s, {x \in Sbs : s_fs_info[x] = NoSb})
         /\ alive' = alive \cup {n}
         /\ count' = [count EXCEPT ![n] = 1]
         /\ mq_queues_count' = [mq_queues_count EXCEPT ![n] = 0]
         /\ mq_mnt' = [mq_mnt EXCEPT ![n] = s]
         /\ s_fs_info' = [s_fs_info EXCEPT ![s] = n]
         /\ Enter(t, <<Frame("nr_inc", n), Frame("msg_init_ns", n), Frame("notify", NoNs),
                       Frame("register", n), Frame("switch", n)>>)
    /\ UNCHANGED <<nsproxy, mniv, usermnt, inode, mq_bytes>>

nr_inc(t) ==
    /\ At(t, "nr_inc")
    /\ nr_ipc_ns' = nr_ipc_ns + 1
    /\ raced' = raced \cup PassedBy
    /\ Run(t, <<>>)
    /\ UNCHANGED <<nsv, mem, msg_ctlmni, auto_msgmni, chain, loose, work, sbv, queuev>>

msg_init_ns(t) ==
    /\ At(t, "msg_init_ns")
    /\ msg_ctlmni' = [msg_ctlmni EXCEPT ![Arg(t)] = <<nr_ipc_ns, mem>>]
    /\ Run(t, <<>>)
    /\ UNCHANGED <<nsv, nr_ipc_ns, mem, auto_msgmni, chain, loose, work, raced, sbv, queuev>>

(* switch_task_namespaces().                                               *)
switch(t) ==
    /\ At(t, "switch")
    /\ nsproxy' = [nsproxy EXCEPT ![t] = Arg(t)]
    /\ Run(t, <<Frame("put", nsproxy[t])>>)
    /\ UNCHANGED <<alive, count, mniv, sbv, queuev>>

(* exit_task_namespaces(), after the files are closed.                     *)
exit(t) ==
    /\ t \in may.exit /\ Idle(t) /\ nsproxy[t] # NoNs
    /\ \A q \in Queues : inode[q] # NoQueue => t \notin inode[q].fds
    /\ nsproxy' = [nsproxy EXCEPT ![t] = NoNs]
    /\ Enter(t, <<Frame("put", nsproxy[t])>>)
    /\ UNCHANGED <<alive, count, mniv, sbv, queuev>>

-----------------------------------------------------------------------------
(* Tearing it down.                                                        *)

(* Mutant: the unregistration comes with the rest of the cleaning up.      *)
free_ipc_ns_late(n) == <<Frame("kfree", n), Frame("unregister", n), Frame("nr_dec", NoNs), Frame("notify", NoNs)>>

(* Mutant: the others are notified before nr_ipc_ns is lowered.            *)
free_ipc_ns_early(n) == <<Frame("unregister", n), Frame("kfree", n), Frame("notify", NoNs), Frame("nr_dec", NoNs)>>

(* free_ipc_ns().                                                          *)
free_ipc_ns(n) == <<Frame("unregister", n), Frame("kfree", n), Frame("nr_dec", NoNs), Frame("notify", NoNs)>>

(* Mutant: the super block keeps pointing to the namespace.                *)
mq_clear_sbinfo_not(n) == s_fs_info' = s_fs_info

mq_clear_sbinfo(n) == s_fs_info' = [s_fs_info EXCEPT ![mq_mnt[n]] = NoNs]

(* put_ipc_ns(): the last reference goes, and the way back from the super  *)
(* block with it, under mq_lock.                                           *)
put_ipc_ns(t) ==
    LET n == Arg(t)
    IN  /\ At(t, "put")
        /\ count' = [count EXCEPT ![n] = @ - 1]
        /\ IF count[n] = 1
           THEN mq_clear_sbinfo(n) /\ Run(t, <<Frame("mq_put_mnt", n)>> \o free_ipc_ns(n))
           ELSE UNCHANGED s_fs_info /\ Run(t, <<>>)
        /\ UNCHANGED <<alive, nsproxy, mniv, mq_mnt, usermnt, queuev>>

mq_put_mnt(t) ==
    LET n == Arg(t)
    IN  /\ At(t, "mq_put_mnt")
        /\ mq_mnt' = [mq_mnt EXCEPT ![n] = NoSb]
        /\ Run(t, <<Frame("mntput", mq_mnt[n])>>)
        /\ UNCHANGED <<nsv, mniv, s_fs_info, usermnt, queuev>>

(* sem_exit_ns(), msg_exit_ns(), shm_exit_ns() and kfree().                *)
kfree_ns(t) ==
    LET n == Arg(t)
    IN  /\ At(t, "kfree")
        /\ alive' = alive \ {n}
        /\ msg_ctlmni' = [msg_ctlmni EXCEPT ![n] = ByHand]
        /\ raced' = raced \ {n}
        /\ mq_queues_count' = [mq_queues_count EXCEPT ![n] = 0]
        /\ Run(t, <<>>)
        /\ UNCHANGED <<count, nsproxy, nr_ipc_ns, mem, auto_msgmni, chain, loose, work, sbv, inode,
                       mq_bytes>>

nr_dec(t) ==
    /\ At(t, "nr_dec")
    /\ nr_ipc_ns' = nr_ipc_ns - 1
    /\ raced' = raced \cup PassedBy
    /\ Run(t, <<>>)
    /\ UNCHANGED <<nsv, mem, msg_ctlmni, auto_msgmni, chain, loose, work, sbv, queuev>>

(* The last mount of a super block takes it down.                          *)
mntput(t) ==
    LET s == Arg(t)
    IN  /\ At(t, "mntput")
        /\ Run(t, IF MntRefs(s) = 1 THEN <<Frame("kill", s)>> ELSE <<>>)
        /\ UNCHANGED <<nsv, mniv, sbv, queuev>>

(* kill_litter_super(): every queue that still has a name is deleted.      *)
kill_litter_super(t) ==
    LET s == Arg(t)
        left == {q \in Queues : inode[q] # NoQueue /\ inode[q].sb = s}
    IN  /\ At(t, "kill")
        /\ IF left = {}
           THEN s_fs_info' = [s_fs_info EXCEPT ![s] = NoSb] /\ Run(t, <<>>)
           ELSE /\ UNCHANGED s_fs_info
                /\ \E q \in left : First(q, left) /\ Run(t, <<Frame("delete", q), Frame("kill", s)>>)
        /\ UNCHANGED <<nsv, mniv, mq_mnt, usermnt, queuev>>

-----------------------------------------------------------------------------
(* The file system of the POSIX queues.                                    *)

(* t can name the files of super block s.                                  *)
Reaches(t, s) ==
    /\ t \in may.mq /\ Idle(t)
    /\ s \in usermnt \/ (nsproxy[t] # NoNs /\ mq_mnt[nsproxy[t]] = s)

(* get_ns_from_inode(): under mq_lock a reference to the namespace, if     *)
(* there is one.                                                           *)
get_ns_from_inode(s) ==
    count' = IF s_fs_info[s] = NoNs THEN count ELSE [count EXCEPT ![s_fs_info[s]] = @ + 1]

(* The limit stops who has no CAP_SYS_RESOURCE.                            *)
AtLimit(t, n) == mq_queues_count[n] >= mq_queues_max /\ t \notin may.capable

(* First half of mqueue_create(): EACCES changes nothing, ENOSPC drops the *)
(* reference again.                                                        *)
mqueue_create(t, s) ==
    LET n == s_fs_info[s]
    IN  /\ Reaches(t, s) /\ n # NoNs
        /\ get_ns_from_inode(s)
        /\ mq_queues_count' = IF AtLimit(t, n) THEN mq_queues_count
                              ELSE [mq_queues_count EXCEPT ![n] = @ + 1]
        /\ Enter(t, IF AtLimit(t, n) THEN <<Frame("put", n), Frame("mntput", s)>>
                    ELSE <<MkFrame("inode", s, n, ByHand, NoNs), Frame("mntput", s)>>)
        /\ UNCHANGED <<alive, nsproxy, mniv, sbv, inode, mq_bytes>>

FreeQueues == {q \in Queues : inode[q] = NoQueue}
NewQueue(s, u) == [sb |-> s, user |-> u, link |-> FALSE, fds |-> {}]

(* mqueue_get_inode() succeeds: the user pays for the queue.               *)
mqueue_get_inode(t) ==
    LET f == Head(stack[t])
        u == UserOf[t]
    IN  /\ At(t, "inode")
        /\ mq_bytes[u] < MSGQUEUE
        /\ mq_bytes' = [mq_bytes EXCEPT ![u] = @ + 1]
        /\ \E q \in Queues :
             /\ First(q, FreeQueues)
             /\ inode' = [inode EXCEPT ![q] = NewQueue(f.of, u)]
             /\ Run(t, <<Frame("put", f.ns), Frame("instantiate", q)>>)
        /\ UNCHANGED <<nsv, mniv, sbv, mq_queues_count>>

(* What mqueue_create() does about it.                                     *)
create_failed(n) == <<Frame("uncount", n), Frame("put", n)>>

(* It fails after new_inode(), for lack of memory or beyond RLIMIT_MSGQUEUE: *)
(* iput() deletes an inode without a user.                                 *)
mqueue_get_inode_fails(t) ==
    LET f == Head(stack[t])
    IN  /\ At(t, "inode")
        /\ \E q \in Queues :
             /\ First(q, FreeQueues)
             /\ inode' = [inode EXCEPT ![q] = NewQueue(f.of, NoUser)]
             /\ Run(t, <<Frame("delete", q)>> \o create_failed(f.ns))
        /\ UNCHANGED <<nsv, mniv, sbv, mq_queues_count, mq_bytes>>

(* new_inode() itself fails.                                               *)
new_inode_fails(t) ==
    /\ At(t, "inode")
    /\ Run(t, create_failed(Head(stack[t]).ns))
    /\ UNCHANGED <<nsv, mniv, sbv, queuev>>

uncount(t) ==
    /\ At(t, "uncount")
    /\ mq_queues_count' = [mq_queues_count EXCEPT ![Arg(t)] = @ - 1]
    /\ Run(t, <<>>)
    /\ UNCHANGED <<nsv, mniv, sbv, inode, mq_bytes>>

(* d_instantiate(), and do_create() opens the file, or fails to.           *)
instantiate(t) ==
    /\ At(t, "instantiate")
    /\ \E fds \in {{}, {t}} :
         inode' = [inode EXCEPT ![Arg(t)].link = TRUE, ![Arg(t)].fds = fds]
    /\ Run(t, <<>>)
    /\ UNCHANGED <<nsv, mniv, sbv, mq_queues_count, mq_bytes>>

(* mqueue_delete_inode().                                                  *)
mqueue_delete_inode(t) ==
    LET s == inode[Arg(t)].sb
    IN  /\ At(t, "delete")
        /\ get_ns_from_inode(s)
        /\ Run(t, <<MkFrame("release", Arg(t), s_fs_info[s], ByHand, NoNs)>>)
        /\ UNCHANGED <<alive, nsproxy, mniv, sbv, queuev>>

(* Mutant: the user is paid back only while the namespace is there.        *)
refund_with_ns(u, n) == IF u = NoUser \/ n = NoNs THEN mq_bytes
                        ELSE [mq_bytes EXCEPT ![u] = @ - 1]

refund(u, n) == IF u = NoUser THEN mq_bytes ELSE [mq_bytes EXCEPT ![u] = @ - 1]

release_inode(t) ==
    LET f == Head(stack[t])
        u == inode[f.of].user
        n == f.ns
    IN  /\ At(t, "release")
        /\ mq_bytes' = refund(u, n)
        /\ mq_queues_count' = IF u = NoUser \/ n = NoNs THEN mq_queues_count
                              ELSE [mq_queues_count EXCEPT ![n] = @ - 1]
        /\ inode' = [inode EXCEPT ![f.of] = NoQueue]
        /\ Run(t, IF n = NoNs THEN <<>> ELSE <<Frame("put", n)>>)
        /\ UNCHANGED <<nsv, mniv, sbv>>

do_open(t, q) ==
    /\ inode[q] # NoQueue /\ inode[q].link /\ t \notin inode[q].fds
    /\ Reaches(t, inode[q].sb)
    /\ inode' = [inode EXCEPT ![q].fds = @ \cup {t}]
    /\ UNCHANGED <<nsv, mniv, sbv, mq_queues_count, mq_bytes, stack>>

(* Mutant: a queue with users keeps its inode, unlinked or not.            *)
iput_forgets(q, link, fds) == <<>>

(* iput(): without a name and without a file the inode is deleted.         *)
iput(q, link, fds) == IF link \/ fds # {} THEN <<>> ELSE <<Frame("delete", q)>>

(* close(): fput() drops the inode, then the mount.                        *)
close(t, q) ==
    /\ Idle(t) /\ inode[q] # NoQueue /\ t \in inode[q].fds
    /\ LET fds == inode[q].fds \ {t}
       IN  /\ inode' = [inode EXCEPT ![q].fds = fds]
           /\ Enter(t, iput(q, inode[q].link, fds) \o <<Frame("mntput", inode[q].sb)>>)
    /\ UNCHANGED <<nsv, mniv, sbv, mq_queues_count, mq_bytes>>

(* mq_unlink(), mqueue_unlink().                                           *)
mq_unlink(t, q) ==
    /\ inode[q] # NoQueue /\ inode[q].link
    /\ Reaches(t, inode[q].sb)
    /\ inode' = [inode EXCEPT ![q].link = FALSE]
    /\ Enter(t, iput(q, FALSE, inode[q].fds) \o <<Frame("mntput", inode[q].sb)>>)
    /\ UNCHANGED <<nsv, mniv, sbv, mq_queues_count, mq_bytes>>

(* mount -t mqueue: mqueue_get_sb() finds the super block of the caller's  *)
(* namespace.                                                              *)
mount(t) ==
    /\ t \in may.mount /\ Idle(t) /\ nsproxy[t] # NoNs
    /\ \E s \in Sbs : s_fs_info[s] = nsproxy[t] /\ usermnt' = usermnt \cup {s}
    /\ UNCHANGED <<nsv, mniv, mq_mnt, s_fs_info, queuev, stack>>

umount(t, s) ==
    /\ t \in may.mount /\ Idle(t) /\ s \in usermnt
    /\ usermnt' = usermnt \ {s}
    /\ Enter(t, <<Frame("mntput", s)>>)
    /\ UNCHANGED <<nsv, mniv, mq_mnt, s_fs_info, queuev>>

-----------------------------------------------------------------------------
(* The namespaces of the scenario exist and are registered, the init       *)
(* namespace has a reference of its own.                                   *)
Init ==
    /\ may \in Scenarios
    /\ nsproxy = may.nsproxy
    /\ alive = {init_ipc_ns} \cup {nsproxy[t] : t \in Tasks}
    /\ count = [n \in Nss |-> Cardinality({t \in Tasks : nsproxy[t] = n})
                                + (IF n = init_ipc_ns THEN 1 ELSE 0)]
    /\ nr_ipc_ns = Cardinality(alive) /\ mem = 0
    /\ msg_ctlmni = [n \in Nss |-> IF n \in alive THEN <<nr_ipc_ns, 0>> ELSE ByHand]
    /\ auto_msgmni = alive /\ loose = {}
    /\ chain \in {s \in [1 .. Cardinality(alive) -> alive] : ToSet(s) = alive /\ IsInjective(s)}
    /\ work = FALSE /\ raced = {}
    /\ mq_mnt = [n \in Nss |-> IF n \in alive THEN n ELSE NoSb]
    /\ s_fs_info = [s \in Sbs |-> IF s \in alive THEN s ELSE NoSb]
    /\ usermnt = {} /\ inode = [q \in Queues |-> NoQueue]
    /\ mq_queues_count = [n \in Nss |-> 0] /\ mq_bytes = [u \in Users |-> 0]
    /\ stack = [t \in Threads |-> <<>>]

Call(t) ==
    \/ hotplug(t) \/ sysctl_msgmni(t) \/ sysctl_auto_msgmni(t)
    \/ create_ipc_ns(t) \/ exit(t) \/ mount(t)
    \/ \E s \in Sbs : mqueue_create(t, s) \/ umount(t, s)
    \/ \E q \in Queues : do_open(t, q) \/ close(t, q) \/ mq_unlink(t, q)

Step(t) ==
    \/ ipcns_notify(t) \/ callback_read(t) \/ callback_oops(t) \/ callback_store(t)
    \/ clear_nb(t) \/ set_notifier_call(t)
    \/ register_ipcns_notifier(t) \/ unregister_ipcns_notifier(t) \/ set_auto_msgmni(t)
    \/ proc_dointvec_minmax(t) \/ ipc_auto_callback(t)
    \/ compute(t) \/ compute_set(t)
    \/ nr_inc(t) \/ msg_init_ns(t) \/ switch(t)
    \/ put_ipc_ns(t) \/ mq_put_mnt(t) \/ kfree_ns(t) \/ nr_dec(t)
    \/ mntput(t) \/ kill_litter_super(t)
    \/ mqueue_get_inode(t) \/ mqueue_get_inode_fails(t) \/ new_inode_fails(t)
    \/ uncount(t) \/ instantiate(t) \/ mqueue_delete_inode(t) \/ release_inode(t)

(* All tasks run, or are gone, and may do nothing more; after an oops who  *)
(* wants to write the chain waits for ever.                                *)
Quiet == ~work /\ \A t \in Threads : Idle(t)
Stay ==
    /\ Quiet \/ \E t \in Threads : At(t, "oops")
    /\ UNCHANGED <<nsv, mniv, sbv, queuev, stack>>

Next ==
    /\ \/ \E t \in Tasks : Call(t)
       \/ \E t \in Threads : Step(t)
       \/ ipc_memory_notifier
       \/ Stay
    /\ UNCHANGED may

Spec == Init /\ [][Next]_vars

-----------------------------------------------------------------------------
Labels == {"notify", "walk", "store", "oops", "clear", "nb_call", "register", "unregister",
           "flag_on", "flag_off", "dointvec_0", "dointvec_1", "newval_0", "newval_1",
           "compute", "set", "nr_inc", "msg_init_ns", "switch", "put", "mq_put_mnt", "kfree", "nr_dec", "mntput",
           "kill", "inode", "uncount", "instantiate", "delete", "release"}

FrameSet ==
    [at : Labels, of : Nss \cup Sbs \cup Queues \cup {NoNs}, ns : Nss \cup {NoNs},
     mni : Int \X Int, next : Nss \cup {NoNs}]

(* Counters never go below zero; frames and tables hold what they should.  *)
TypeOK ==
    /\ alive \subseteq Nss /\ count \in [Nss -> Nat] /\ nsproxy \in [Tasks -> Nss \cup {NoNs}]
    /\ nr_ipc_ns \in Nat \ {0} /\ mem \in 0 .. MaxMem /\ work \in BOOLEAN
    /\ auto_msgmni \subseteq Nss /\ raced \subseteq Nss
    /\ chain \in Seq(Nss) /\ loose \subseteq Nss
    /\ mq_mnt \in [Nss -> Sbs \cup {NoSb}] /\ s_fs_info \in [Sbs -> Nss \cup {NoNs, NoSb}]
    /\ usermnt \subseteq Sbs
    /\ inode \in [Queues -> QueueRecord \cup {NoQueue}]
    /\ mq_queues_count \in [Nss -> Nat] /\ mq_bytes \in [Users -> Nat]

(* The frames that own a reference to n.                                   *)
Holders(n) ==
    {f \in FrameSet : \/ f.at \in {"put", "switch"} /\ f.of = n
                      \/ f.at \in {"inode", "release"} /\ f.ns = n}

(* ns->count is the tasks in the namespace and the calls of the file       *)
(* system that hold it, and a namespace with a reference is not freed.     *)
RefCount ==
    /\ \A n \in Nss : count[n] = Cardinality({t \in Tasks : nsproxy[t] = n}) + Total(Holders(n))
                                  + (IF n = init_ipc_ns THEN 1 ELSE 0)
    /\ \A n \in Nss : count[n] > 0 => n \in alive

(* References are counted exactly; a reference, and the way back from a    *)
(* super block, is never to a namespace that is freed or has begun to be:  *)
(* "either a valid ipc_ns to which we now hold a reference, or it is NULL" *)
(* (mqueue_delete_inode, put_ipc_ns).  And types hold.                     *)
NsRefs ==
    /\ TypeOK /\ RefCount
    /\ \A s \in Sbs : s_fs_info[s] \in Nss => count[s_fs_info[s]] > 0

(* The frames of creations under way that are counted in n.                *)
Creations(n) ==
    {f \in FrameSet : (f.at = "inode" /\ f.ns = n) \/ (f.at = "uncount" /\ f.of = n)}

(* mq_queues_count is the queues of the namespace and the creations under  *)
(* way; mq_bytes is what the user's queues cost.                           *)
QueueCounts ==
    /\ \A n \in alive : count[n] > 0 => mq_queues_count[n] =
         Cardinality({q \in Queues : inode[q] # NoQueue /\ inode[q].sb = mq_mnt[n]
                                       /\ inode[q].user # NoUser})
           + Total(Creations(n))
    /\ \A u \in Users : mq_bytes[u] =
         Cardinality({q \in Queues : inode[q] # NoQueue /\ inode[q].user = u})

(* The counters are exact, also when a creation fails half way and when a  *)
(* namespace is gone before its queues; and where no task has              *)
(* CAP_SYS_RESOURCE the limit holds (mqueue_create, mqueue_get_inode,      *)
(* mqueue_delete_inode).                                                   *)
QueuesCounted ==
    /\ QueueCounts
    /\ may.capable = {} => \A n \in alive : count[n] > 0 => mq_queues_count[n] <= mq_queues_max

(* No queue is left behind: it has a name, a file or a call that sees to   *)
(* it, and its super block is there (close, mq_unlink, umount and the end  *)
(* of the namespace in any order).                                         *)
QueueReachable ==
    \A q \in Queues : inode[q] # NoQueue =>
        /\ \/ inode[q].link \/ inode[q].fds # {}
           \/ \E t \in Threads : \E f \in Frames(t) :
                f.at \in {"delete", "release", "instantiate"} /\ f.of = q
        /\ s_fs_info[inode[q].sb] # NoSb
        /\ MntRefs(inode[q].sb) > 0 \/ \E t \in Threads : Frame("kill", inode[q].sb) \in Frames(t)

(* The chain, and whoever walks it, never comes to a freed namespace:      *)
(* "the ipc ns cannot be freed while we are here" (ipcns_callback,         *)
(* free_ipc_ns).  That its notifier_call is there is not so: see           *)
(* callback_oops.                                                          *)
ChainLive ==
    /\ \A i \in DOMAIN chain : chain[i] \in alive
    /\ \A t \in Threads : At(t, "walk") \/ At(t, "store") =>
         /\ Arg(t) \in alive
         /\ At(t, "store") => Head(stack[t]).next \in alive \cup {NoNs}

(* When all is quiet the msgmni of a namespace on the chain is the one of  *)
(* the present number of namespaces and amount of memory, but for three    *)
(* races: computations stored in the wrong order, a change between the     *)
(* computation and the registration, and a notifier block cleared while it *)
(* is on the chain; and but for a short write of msgmni (create_ipc_ns,    *)
(* free_ipc_ns, ipc_auto_callback).  It does not say auto_msgmni: two      *)
(* writers may leave that set for a namespace off the chain.               *)
MsgmniFresh ==
    Quiet => \A n \in ToSet(chain) \ raced : msg_ctlmni[n] = <<nr_ipc_ns, mem>>

-----------------------------------------------------------------------------
(* The inductive invariant.                                                *)

(* Types, without the bounds that follow from the counts.                  *)
TypeInv ==
    /\ alive \subseteq Nss /\ count \in [Nss -> Int] /\ nsproxy \in [Tasks -> Nss \cup {NoNs}]
    /\ nr_ipc_ns \in Int /\ mem \in 0 .. MaxMem /\ work \in BOOLEAN
    /\ msg_ctlmni \in [Nss -> Int \X Int]
    /\ auto_msgmni \subseteq Nss /\ raced \subseteq Nss
    /\ chain \in Seq(Nss) /\ loose \subseteq Nss
    /\ mq_mnt \in [Nss -> Sbs \cup {NoSb}] /\ s_fs_info \in [Sbs -> Nss \cup {NoNs, NoSb}]
    /\ usermnt \subseteq Sbs
    /\ inode \in [Queues -> QueueRecord \cup {NoQueue}]
    /\ mq_queues_count \in [Nss -> Int] /\ mq_bytes \in [Users -> Int]
    /\ stack \in [Threads -> Seq(FrameSet)] /\ may \in Scenarios

(* A frame of S below, or above, the i-th of t's stack.                    *)
Below(t, i, S) == \E j \in DOMAIN stack[t] : j > i /\ stack[t][j] \in S
Above(t, i, S) == \E j \in DOMAIN stack[t] : j < i /\ stack[t][j] \in S

NsLabels == {"walk", "store", "oops", "clear", "nb_call", "register", "unregister", "flag_on",
             "flag_off", "dointvec_0", "dointvec_1", "newval_0", "newval_1", "compute", "set",
             "nr_inc", "msg_init_ns", "switch", "put", "mq_put_mnt", "kfree", "uncount"}

(* The arguments of a frame; the worker only walks the chain.              *)
ArgsOK(t, f) ==
    /\ f.at \in NsLabels => f.of \in Nss
    /\ f.at \in {"mntput", "kill", "inode"} => f.of \in Sbs
    /\ f.at \in {"instantiate", "delete", "release"} => f.of \in Queues
    /\ f.at = "inode" => f.ns \in Nss
    /\ f.at \in {"notify", "nr_dec"} => f.of = NoNs
    /\ f.at \notin {"store", "set", "inode", "release"} => f = Frame(f.at, f.of)
    /\ t = kworker => f.at \in {"notify", "walk", "store", "oops"}

(* What a frame finds in its stack: what else its call has still to do.    *)
Shape(t, i) ==
    LET f == stack[t][i]
    IN  /\ ArgsOK(t, f)
        /\ f.at = "mq_put_mnt" => Below(t, i, {Frame("kfree", f.of)})
        /\ f.at = "inode" => Below(t, i, {Frame("mntput", f.of)})
        /\ f.at = "uncount" => Below(t, i, {Frame("put", f.of)})
        /\ f.at \in {"compute", "set", "clear"} => Below(t, i, {Frame("register", f.of)})
        /\ f.at = "kfree" => i < Len(stack[t]) /\ stack[t][i + 1] = Frame("nr_dec", NoNs)
        /\ f.at = "nr_dec" => i < Len(stack[t]) /\ stack[t][i + 1] = Frame("notify", NoNs)
        /\ f.at = "switch" => i = Len(stack[t])
        /\ f.at \in {"compute", "set", "walk", "store", "oops", "nr_inc"} => i = 1
        /\ f.at = "nr_inc" => 1 < Len(stack[t]) /\ stack[t][2] = Frame("msg_init_ns", f.of)
        /\ f.at = "msg_init_ns" =>
             /\ i = 1 \/ (i = 2 /\ stack[t][1] = Frame("nr_inc", f.of))
             /\ Len(stack[t]) = i + 3
             /\ stack[t][i + 1] = Frame("notify", NoNs)
             /\ stack[t][i + 2] = Frame("register", f.of)
             /\ stack[t][i + 3] = Frame("switch", f.of)

ShapeInv == \A t \in Threads : \A i \in DOMAIN stack[t] : Shape(t, i)

(* A namespace is freed once, by who dropped the last reference, after its *)
(* mount is given back.                                                    *)
LifeInv ==
    /\ \A n \in Nss : Total({Frame("kfree", n)}) = IF n \in alive /\ count[n] = 0 THEN 1 ELSE 0
    /\ \A n \in Nss : Total({Frame("mq_put_mnt", n)}) =
                        IF n \in alive /\ count[n] = 0 /\ mq_mnt[n] # NoSb THEN 1 ELSE 0

(* A super block and its namespace point to each other until the last      *)
(* reference goes; a super block is taken down once, when nothing refers   *)
(* to its mounts.                                                          *)
MountInv ==
    /\ \A n \in Nss : count[n] > 0 => mq_mnt[n] \in Sbs /\ s_fs_info[mq_mnt[n]] = n
    /\ \A n \in Nss \ alive : mq_mnt[n] = NoSb
    /\ \A s \in Sbs : s_fs_info[s] \in Nss =>
         count[s_fs_info[s]] > 0 /\ mq_mnt[s_fs_info[s]] = s
    /\ \A s \in Sbs : s_fs_info[s] = NoSb => MntRefs(s) = 0
    /\ \A s \in Sbs : Total({Frame("kill", s)}) =
                        IF s_fs_info[s] # NoSb /\ MntRefs(s) = 0 THEN 1 ELSE 0

(* The frames that see to queue q.                                         *)
Owners(q) == {f \in FrameSet : f.at \in {"delete", "release", "instantiate"} /\ f.of = q}

(* A queue without a name and a file has one owner, one with a name only   *)
(* from kill_litter_super().                                               *)
QueueInv ==
    /\ \A q \in Queues : inode[q] = NoQueue => Total(Owners(q)) = 0
    /\ \A q \in Queues : inode[q] # NoQueue =>
         /\ Total(Owners(q)) \in {0, 1}
         /\ Total(Owners(q)) = 0 => inode[q].link \/ inode[q].fds # {}
         /\ Total(Owners(q)) = 1 /\ (inode[q].link \/ inode[q].fds # {}) =>
              Total({Frame("kill", inode[q].sb)}) = 1
         /\ s_fs_info[inode[q].sb] # NoSb

(* The owner of a queue keeps its super block, a creation by its mount.    *)
Keepers(f, s) ==
    {Frame("mntput", s)} \cup (IF f.at = "instantiate" THEN {} ELSE {Frame("kill", s)})
OwnerInv ==
    \A t \in Threads : \A i \in DOMAIN stack[t] : \A q \in Queues :
       stack[t][i] \in Owners(q) => Below(t, i, Keepers(stack[t][i], inode[q].sb))

(* What the calls of the file system have, under way.                      *)
CallInv ==
    \A t \in Threads : \A f \in Frames(t) :
        /\ f.at = "inode" => s_fs_info[f.of] = f.ns
        /\ f.at = "instantiate" => ~inode[f.of].link /\ inode[f.of].fds = {}
        /\ f.at = "release" => s_fs_info[inode[f.of].sb] = f.ns

(* The labels of who writes auto_msgmni.                                   *)
Sysctl == {"dointvec_0", "dointvec_1", "newval_0", "newval_1", "compute", "set", "clear"}

(* A task on its way into a new namespace, which no other knows; the       *)
(* tunables are those of the caller's namespace.                           *)
TaskInv ==
    /\ \A t \in Threads : \A f \in Frames(t) :
         /\ f.at = "switch" => /\ nsproxy[t] # NoNs /\ f.of # init_ipc_ns
                               /\ \A u \in Tasks : nsproxy[u] # f.of
         /\ f.at = "register" => nsproxy[t] = f.of \/ Frame("switch", f.of) \in Frames(t)
         /\ f.at \in Sysctl => nsproxy[t] = f.of
    /\ \A t, u \in Threads : \A n \in Nss :
         Frame("switch", n) \in Frames(t) \cap Frames(u) => t = u

(* Where walkers are and will go next, and all that can be walked to.      *)
Walked ==
    {n \in Nss : \E t \in Threads : \/ (At(t, "walk") \/ At(t, "store")) /\ Arg(t) = n
                                    \/ At(t, "store") /\ Head(stack[t]).next = n}
Visible == ToSet(chain) \cup loose \cup Walked

(* What can be walked to is allocated and, when it is about to be freed,   *)
(* will be unregistered before that.                                       *)
ChainInv ==
    /\ IsInjective(chain) /\ Visible \subseteq alive
    /\ \A t \in Threads : \A i \in DOMAIN stack[t] :
         stack[t][i].at = "kfree" /\ stack[t][i].of \in Visible =>
           Above(t, i, {Frame("unregister", stack[t][i].of)})
    /\ \A t \in Threads : \A f \in Frames(t) : f.at = "msg_init_ns" => f.of \notin Visible

(* nr_ipc_ns lags behind: namespaces being created, and freed already.     *)
Starting == {n \in Nss : \E t \in Threads : At(t, "nr_inc") /\ Arg(t) = n}
NrInv ==
    nr_ipc_ns = Cardinality(alive \ Starting)
                  + Total({Frame("nr_dec", NoNs)}) - Total({Frame("kfree", n) : n \in Nss})

Now == <<nr_ipc_ns, mem>>
Stores(t, n) == (At(t, "store") \/ At(t, "set")) /\ Arg(t) = n

(* msgmni of n is up to date, or will be with the store under way.         *)
Current(n) ==
    /\ \A t \in Threads : Stores(t, n) => Head(stack[t]).mni = Now
    /\ ~Storing(n) => msg_ctlmni[n] = Now

(* A walker that will come to n.                                           *)
Approaches(t, n) ==
    \E j, k \in DOMAIN chain :
       /\ j <= k /\ chain[k] = n
       /\ \/ At(t, "walk") /\ Arg(t) = chain[j]
          \/ At(t, "store") /\ Head(stack[t]).next = chain[j]

(* msgmni of n will be computed again, or nothing will be quiet again.     *)
ReadPending(n) ==
    \/ work
    \/ \E t \in Threads : \/ Frame("notify", NoNs) \in Frames(t)
                          \/ Frame("compute", n) \in Frames(t)
                          \/ Approaches(t, n) \/ At(t, "oops")

Unregistering(n) == \E t \in Threads : Frame("unregister", n) \in Frames(t)

(* What keeps msgmni fresh.                                                *)
MniInv ==
    /\ \A n \in Nss \ raced : \A t, u \in Threads : Stores(t, n) /\ Stores(u, n) => t = u
    /\ \A n \in PassedBy \ raced : Current(n)
    /\ \A n \in ToSet(chain) \ raced : Unregistering(n) \/ Current(n) \/ ReadPending(n)

IInv ==
    /\ TypeInv /\ ShapeInv /\ LifeInv /\ RefCount /\ MountInv /\ QueueInv /\ OwnerInv /\ CallInv
    /\ QueueCounts /\ TaskInv /\ ChainInv /\ NrInv /\ MniInv
=============================================================================
