# Linux 2.6.35.4 IPC in TLA+

The repository is the Linux 2.6.35.4 kernel (without `drivers/` and
`Documentation/`) with a reader's annotations. This project specifies its
**inter-process communication subsystem**, `src/linux-2.6.35.4/ipc/`: code that
is small enough to be modelled completely, shared by all tasks of the machine,
and built on hand-made concurrency (lockless receive, in-kernel busy waits,
plain-integer reference counts, objects on the kernel stacks of sleeping
tasks), which tests reach only by luck. Paths below are relative to that
directory.

## Inventory

| Component | State | Operations | Interacts with |
|---|---|---|---|
| **Message queues**, `msg.c` | `struct msg_queue`: limits and counters, `q_messages`, `q_receivers`, `q_senders`; `msg_bytes`, `msg_hdrs` of the namespace; a `msg_receiver`/`msg_sender` on the stack of each sleeping task | `msgget`, `msgsnd`, `msgrcv`, `msgctl` (`IPC_SET`, `IPC_RMID`, `IPC_STAT`) | ids and permissions (`util.c`), the scheduler, signals, RCU |
| **Messages**, `msgutil.c` | chains of pages | `load_msg`, `store_msg`, `free_msg` | `msg.c`, `mqueue.c` |
| **Ids, permissions, RCU objects**, `util.c`, `util.h` | `ipc_ids` (idr, `seq`, `in_use`, `rw_mutex`), `kern_ipc_perm`, the reference count in front of each object | `ipc_addid`, `ipc_rmid`, `ipc_lock`, `ipcget`, `ipcctl_pre_down`, `ipc_rcu_getref/putref` | all of System V IPC |
| **Semaphores**, `sem.c` | `sem_array`, pending operations, undo structures | `semget`, `semtimedop`, `semctl`, `exit_sem` | `util.c`, task exit |
| **Shared memory**, `shm.c` | `shmid_kernel`, attach count, `shm_tot` | `shmget`, `shmat`, `shmdt`, `shmctl`, the vm callbacks | `util.c`, the memory manager, files |
| **POSIX message queues**, `mqueue.c` | priority-ordered messages, two lists of waiters, the notification | `mq_open/unlink/timedsend/timedreceive/notify/getsetattr` | VFS, signals, timers |
| **Namespaces**, `namespace.c`, `ipcns_notifier.c` | `ipc_namespace`: its count, its mount of the queue file system, `msg_ctlmni`; the notifier chain, `nr_ipc_ns` | create, copy, free; (un)register, the callbacks | all the above, memory hotplug, the mqueue file system |
| **sysctl**, `ipc_sysctl.c`, `mq_sysctl.c` | `auto_msgmni`; otherwise none of their own | read and write tunables | the notifier chain |
| **Dispatch and compatibility**, `syscall.c`, `compat*.c` | none | conversions | all the above |

What is hard here: `msgrcv` sleeps without a reference to the queue and decides
by the value a waker left in `r_msg` on its own stack whether the queue still
exists; wakers write to stacks of tasks that may return any moment; reference
counts are plain integers "protected" by a lock that the last user does not
hold; `IPC_RMID` frees what lookups, sleepers and walkers may still hold;
signals and `IPC_SET` race with deliveries; counters of the queue and of the
namespace are kept in different places and at different times. A shared memory
segment is looked up by its slot without its sequence number, on the strength of
an attach count that the memory manager raises and lowers from outside; a
namespace is reached from a mounted file system and from a chain of notifiers,
neither of which holds a reference to it.

## Modules

| Module | Contents |
|---|---|
| `MsgSearch` | `convert_mode()`, `testmsg()` and the search of `do_msgrcv()`, next to a declarative definition of "the best message" |
| `MsgQueue` | one message queue from `msgget` to the release of its memory, with all its callers; safety and liveness properties, and the inductive invariant |
| `MsgQueueAbs` | what a message queue promises: `msgsnd` and `msgrcv` as atomic steps on a list |
| `MsgQueueRef` | the refinement mapping from `MsgQueue` to `MsgQueueAbs` |
| `SemOps` | `try_atomic_semop()` and the adjustments of `exit_sem()`, next to a definition by sums |
| `Sem` | semaphore sets: `semtimedop`, pending operations and the lockless wakeup, `semctl`, undo lists and `exit_sem`; properties, and the inductive invariant in two halves |
| `PosixMq` | one POSIX queue: `mq_timedsend`, `mq_timedreceive`, the pipelined hand-over, `mq_notify`, `mq_getsetattr`, close; properties |
| `PosixMqAbs` | what a POSIX queue promises: a bounded store, first in first out within each priority, and waiters served in the same way |
| `PosixMqRef` | the refinement mapping from `PosixMq` to `PosixMqAbs` |
| `Shm` | shared memory segments of one namespace over the id table of `util.c`: `shmget`, `shmat`, `shmdt`, `shmctl`, and what the memory manager does to attaches (split, unmap, fork, exit); properties |
| `IpcNs` | namespaces: creation, counting, tear-down, the notifier chain and `msgmni`, and the life of the POSIX queues and mounts that refer to them; properties |
| `DataLemmas` | lemmas on lists, folds over finite sets and sums, which all proofs share |
| `MsgQueueProofs` | proofs about `MsgSearch` and `MsgQueue`: locks, the life of the memory, references, the lockless receive; lists, counters and messages; the refinement |
| `SemLemmas`, `SemProofs` | proofs about `Sem`: locks, memory, references and undo lists; the pending operations and the theorems |
| `PosixMqProofs`, `ShmProofs` | proofs about `PosixMq` and `Shm` |
| `IpcNsLemmas`, `IpcNsProofs` | proofs about `IpcNs`: frames, references, mounts and queues; the notifier chain, msgmni and the theorems |
| `MCMsgQueue`, `MCSem`, `MCPosixMq`, `MCShm`, `MCIpcNs` | the values TLC needs; `MCMsgQueue` and `MCSem` also check the sequential algorithms of `MsgSearch` and `SemOps` on all small inputs |

Composition: `MsgQueue` extends `MsgSearch`, `Sem` extends `SemOps`, so that the
algorithms checked alone are the ones the concurrent modules run; `MsgQueueRef`
instantiates `MsgQueueAbs` over `MsgQueue` and `PosixMqRef` `PosixMqAbs` over
`PosixMq`. `util.c` is modelled where it is used: the reference-counted memory
and the lookup in both `MsgQueue` and `Sem`, keys, slots and sequence numbers in
`Shm`. `Shm` composes `shm.c` with the id table, the address spaces and the
count of the namespace, `IpcNs` composes `namespace.c` with `mqueue.c`,
`ipcns_notifier.c` and `ipc_sysctl.c`. `PosixMq` is the traffic of one queue,
`IpcNs` the life of all of them.

### How `MsgQueue` corresponds to `msg.c`

`pc[p]` is the place of task `p` in its system call: `find` and `lock` are the
two halves of `ipc_lock()`, `loop` is the top of the `for (;;)` of `do_msgsnd`
and `do_msgrcv` with the lock held, `ssleep` and `rsleep` the two `schedule()`
calls, `spin` the busy wait on `r_msg`, `relock` the retaken lock of "lockless
receive, part 4", `scan`/`walk` a position in `q_receivers`, `wake`/`set` the
two moments inside a wakeup (after `r_msg = NULL`, after
`wake_up_process()`), `drain` and `put` the unlocked tail of `freeque()`.

What runs under `q_perm.lock` is one step, except where somebody who does not
hold the lock can look in. Those places are separate steps: the three writes of
each wakeup in `pipelined_send()` and `expunge_all()`, each message freed by
`freeque()`, and the load and the store of each `--refcount`.

Abstractions and decisions:

* one queue; ids, keys and sequence numbers are a matter of `util.c`. `newque`
  is one step because `ipc_addid()` returns with the new object locked, so that
  nobody sees it before it is initialised;
* a message has an identity, a type and a size; its text is not looked at, so
  the failures of `load_msg()` (`EFAULT`, `ENOMEM`) and of argument checks
  (`EINVAL`), which return before any state is touched, are not steps; a fault
  in `store_msg()` loses the message for the reader and leaves the queue as a
  success does, so both are the result "OK";
* permissions are the set of accesses the queue grants (`mode`), changed by
  `IPC_SET`; whether the caller of `IPC_SET` and `IPC_RMID` is the owner is left
  open (`ctl_fail` is always possible); security modules agree;
* `q_stime`, `q_lspid` and their kin are left out, and so is `IPC_STAT`, which
  writes nothing;
* `sig` is the set of tasks with a pending signal; `ERESTARTNOHAND` is what the
  interrupted call returns;
* a receiver that finds `-EIDRM` in `r_msg` leaves while its `msg_receiver` is
  still linked to `q_receivers`. The walk of `expunge_all()` has read the next
  pointer before it woke the receiver, and no other walk follows once the queue
  is removed; the model keeps the dead entry on the list and shows that the
  walk never writes through it (`WakeupHitsLiveFrame`);
* the kernel is built with `-fno-strict-overflow` (`Makefile:580`), so that
  `-LONG_MIN` is `LONG_MIN`: `SearchType` says so.

### How `Sem` corresponds to `sem.c`

Tasks call `semop()`, `clone(CLONE_SYSVSEM)` and exit; controllers call
`semget()` and `semctl()`. A `struct sem_array` is a member of `Arrays`, created
at most once, with an id `IdOf[a]` that another set may get after it is removed;
`idr` says which set an index leads to. A `struct sem_undo_list` is named after
the task that allocated it, a `struct sem_undo` after its list and its set;
`un` holds its memory, whether its `semid` is still valid (not -1) and `semadj`.

| `pc` | place in the code |
|---|---|
| `ufind`, `ulock`, `ualloc` | `find_alloc_undo()`: the lookup of the set, the reference taken under the lock, the unlocked allocation before the second look |
| `find`, `lock` | the two halves of `sem_lock_check()` in `semtimedop()` |
| `smart`, `scan` | `do_smart_update()` and the walk of `update_queue()`, one pending operation per step, with `idx`, `semnum` and `walk` as positions |
| `wake`, `set` | `wake_up_sem_queue_do()`, after `IN_WAKEUP` was stored: `wake_up_process()` and the store of the final status |
| `sleep`, `result`, `rfind`, `relock`, `recheck` | `schedule_timeout()`, the two `get_queue_result()` with their busy wait, `sem_lock()` between them |
| `cfind`, `clock`, `copyin` | `semctl()`: the lookup, and SETALL or GETALL without the lock |
| `fundo`, `funlink`, `put` | `freeary()`: the writes to an undo structure before and after the lock of its list, the final putref |
| `xread`, `xfind`, `xlock` | `exit_sem()`: the first entry under RCU, the lookup after `rcu_read_unlock()`, the lock |

A critical section under `sem_perm.lock` is one step, with three exceptions: the
walk of `update_queue()`, because its restarts and early exits are what the
properties are about; the busy wait of a task that holds the lock; and
`freeary()`'s writes to an undo structure (`semid = -1`, then `list_del_rcu`),
which `exit_sem()` reads under RCU only.

Abstractions and decisions:

* `EACCES` stands for every refusal after the lookup that changes nothing
  (`EACCES`, `EFBIG`, `EPERM`, security modules); lookups fail with `EINVAL` or
  `EIDRM`. Argument checks and failed allocations before any state is touched
  are not steps;
* only `freeary()`'s `--refcount` is split into load and store: all others run
  under the lock of the set;
* `list_del_rcu`, unlock of the list and `call_rcu` of one undo structure are one
  step: nobody can look in between without the lock of the list or an RCU
  read-side section, which defers the callback in either case;
* a store to the `sem_queue` of a call that has returned hits memory of somebody
  else: what it destroys is left open, so that only the property
  (`WakeupHitsLiveQueue`) tells it apart. The locals of a call are reset when it
  returns;
* `sempid`, `otime` and `ctime` are left out, `IPC_SET` changes permissions only
  and the reading commands (`GETVAL`, `GETNCNT`, `IPC_STAT`, ...) change nothing:
  left out, except GETALL, which drops the lock and keeps a reference;
* `SEMVMX` is also `SEMAEM` and the largest short, as in the source (32767).

### How `PosixMq` corresponds to `mqueue.c`

`messages` is the array `info->messages` up to `mq_curmsgs`, in its order (the
next message to receive is the last), `e_send` and `e_recv` are the lists of
`e_wait_q[SEND]` and `e_wait_q[RECV]` from the head (the next to be served is
the last). `hold[t]` is the message a call owns: `msg_ptr`, and `wait.msg` while
it sleeps. `pc` is `slock` and `rlock` before `spin_lock(&info->lock)`, `sleep`,
`spin` and `relock` in `wq_sleep()`, `wake` and `ready` after the first and the
second of the three stores of a wakeup, `copy` before `store_msg()`, `nattach`,
`nget` and `nlock` in `mq_notify()` in the loop at `retry`, before `fget(mqdes)`
and before the lock, `flush` in `filp_close()`.

What runs under `info->lock` is one step, except the stores of a wakeup, which
`wq_sleep()` reads without the lock. Abstractions and decisions:

* each process opens the queue once, so that the descriptor and its
  `O_NONBLOCK` belong to the process; a call that has looked up the file goes on
  when the descriptor is closed;
* calls refused before the lock (`EBADF`, `EMSGSIZE`, `EINVAL`, faults of
  `load_msg()`) change nothing and are not steps, except the failures of
  `mq_notify()` that have a cookie to give back. `store_msg()` may fail after
  the message has left the queue; it is freed all the same (`EFAULT`);
* a cookie is what `notify_cookie` says of it: none, armed, or sent. The loop
  around `netlink_attachskb()` ends in an attached cookie or in a freed one
  (`EBADF`, or a signal while it waits for memory of the socket); a retry changes
  nothing here. The socket, its memory and its references are state of
  `net/netlink` and left out;
* a signal of `SIGEV_SIGNAL` goes to some thread of the process; a thread that
  is not in `wq_sleep()` takes it on its way to user mode without effect here;
* `Spurious` threads may wake up for no reason of the queue: the loop of
  `wq_sleep()` is there for that;
* `qsize`, the times of the inode and the wait queue of `poll()` are left out.

### How `Shm` corresponds to `shm.c`

A segment is a record in `seg`, the slots of the idr; `born` tells segments
apart that get the same slot, or, when `ids_seq` has wrapped, the same id. An
address space has a number of `vmas` per `file`; the file carries
`shm_file_data`, that is, the id, and a reference to the namespace.

| `pc` | place in the code |
|---|---|
| `alloc`, `map`, `fput`, `out_nattch` | `do_shmat()` after `shm_unlock()`: the allocation of `sfd` and file from `*shp`, `do_mmap()` under `mmap_sem`, `fput()`, the label |
| `close`, `vm_fput` | `remove_vma()`: `shm_close()`, then `fput(vma->vm_file)`; `job` are the vmas left to close, `then` where the task goes after them |
| `destroy` | `shm_destroy()` after `shm_unlock()`, with `rw_mutex` held; `ret` is its caller |
| `fork` | `dup_mmap()`, one vma per step |
| `exit_ns` | `do_exit()` between `exit_mm()` and `exit_task_namespaces()` |

What runs under the lock of a segment is one step; a step that needs
`rw_mutex` waits until it is free, and only `shm_destroy()` keeps it over two
steps. Abstractions and decisions:

* who may do what is left open, since `shmctl` and `shmat` are tried by every
  task on every id, stale ones included. Refused calls change nothing and are
  not steps;
* the task's calls are those of a scenario chosen at the start (`may`), so that
  one run has several instances; once chosen it never changes;
* `shmdt()`, `munmap()` and the unmapping a `SHM_REMAP` attach begins with are
  one action, `munmap`, which takes any number of the fragments of one attach;
* a huge page segment is one whose pages are charged to its creator
  (`mlock_user`), as `hugetlb_file_setup()` does for those who are not
  privileged;
* when the last reference of the namespace goes, `shm_exit_ns()` runs in that
  same step: nobody else can reach the namespace any more;
* times, pids, the memory policy, `shm_fault()` and the file's pages are left
  out. `IPC_SET` changes permissions and times only, `SHM_STAT` and the `INFO`
  commands nothing.

### How `IpcNs` corresponds to `namespace.c`, `mqueue.c` and the chain

The kernel code a task has before it is a stack of frames, records of a label
(`at`), what the frame is about (`of`), a namespace it holds, a computed msgmni
and `nb->next`; a step replaces the top frame by those it expands to. `put` is
`put_ipc_ns()` before `atomic_dec_and_lock()`, `mntput` and `kill` the release
of a mount and of its super block, `inode` and `instantiate` the two halves of
`mqueue_create()` outside `mq_lock`, `uncount` its error path, `delete` and
`release` `mqueue_delete_inode()` before and after it has asked for the
namespace, `notify`, `walk` and `store` the walk of the chain with the read and
the store of `recompute_msgmni()`, `clear` and `nb_call` the two stores to the
notifier block before a registration, `register` and `unregister` the writers of
the chain, which wait until nobody walks, `flag_on` and `flag_off` their stores
of `auto_msgmni` once the rwsem is free again, `dointvec_v` and `newval_v` the
handler of `auto_msgmni` after it has read `oldval` = v and after its store. A
frame `mntput` is also the reference to the mount which it will drop.

* `msg_ctlmni` is the pair of `nr_ipc_ns` and amount of memory it was computed
  from, or `ByHand`: the arithmetic of `recompute_msgmni()` is monotonic in both
  and nothing else is asked of it;
* the memory notifier only starts a work item, which `kworker` carries out; two
  changes before it runs are one walk;
* the bytes of a queue's user are counted in queues: all queues have one size;
* of the file system: a name, open files, mounts by users and the kernel's own
  mount per namespace; a super block dies with its last mount;
* `cond_register_ipcns_notifier()` clears the notifier block before it finds
  out, under the rwsem, that the block is on the chain already (`clear_nb`).
  What was behind it is then off the chain: it moves to `loose`, where a walker
  that is already among these blocks may still go on. Until `set_notifier_call`
  the block has no `notifier_call`; a walker that comes to it calls NULL
  (`callback_oops`) and its thread is gone, with the rwsem taken for ever;
* a new namespace's block is cleared when nobody knows it yet: no step;
* a sysctl write may be short (the handlers compare `*lenp`): the value is stored
  and nothing else happens;
* the scenario also says who has `CAP_SYS_RESOURCE`; the limit of queues does not
  stop them (`AtLimit`);
* `raced` is history. It marks a namespace for which two computations of msgmni
  overlapped, which a change has passed by because it was not yet on the chain,
  which `clear_nb` has cut off, or whose msgmni a short write has set (see the
  observations below).

## Runs

| Run | Instance | Checks |
|---|---|---|
| `msg_receivers` | 1 sender, 2 receivers, both interruptible, 1 controller, 2 messages of different type and size, a request with too small a buffer and one that truncates | `NoUseAfterFree`, `WakeupHitsLiveFrame`, `NoMissedMessage`, `MessageConservation`; `AtomicQueue`: the queue implements `MsgQueueAbs`; `SearchFindsBest`: on all lists of up to 5 messages of 3 types and all requests but `LONG_MIN` the loop of `do_msgrcv()` returns the first message of the best type, and finds one when there is one |
| `msg_senders` | 2 interruptible senders with and without `IPC_NOWAIT`, 1 receiver, a controller that sets the limit to 0 or beyond the default | `NoMissedRoom`, `Accounting`, `ReferencesCovered`, `ListDelOnce`, `IInv` |
| `msg_live` | 1 sender, 1 receiver with and without `IPC_NOWAIT`, interruptible, 1 controller that also takes the right to read away (the limit stays) | `WaitsEnd`: IPC_RMID and signals release every sleeper, every busy wait on `r_msg` ends |
| `sem_queue` | 3 tasks, 2 semaphores, five operations: +1, -1, wait for 0, two complex ones; one task has a timeout | `NoMissedOp`, `QueueAgrees`, `WakeupHitsLiveQueue`, `HonestResults`; `AllOrNothing`: on all `semop`s of up to 2 operations on 2 semaphores, all values and adjustments, `SEMVMX` = 2, `try_atomic_semop()` adds all or restores everything; if no semaphore has two undoable operations it also decides, and adjusts, like the definition by sums |
| `sem_undo` | 3 tasks, one a `CLONE_SYSVSEM` child, all exit, SETVAL, GETALL | `NoLostUnits`: no step but SETVAL changes value plus adjustments |
| `sem_rmid` | 1 task, 2 controllers, 2 sets with the same id, SETALL, IPC_RMID | `UndoOfOwnSet`, `NoUseAfterFree` (references included), `UndoListsAgree` (and types), `UsedSems` |
| `sem_live` | 1 task that gets signals and exits, 1 controller, 2 sets with the same id, SETVAL, IPC_RMID | `SleepersReleased`, `LockReleased`, `ExitEnds` |
| `sem_wake` | 1 signalled task, IPC_RMID | expected violation of `WakeupHitsLiveQueue` |
| `sem_exit_undoes` | 1 exiting task, 2 sets, IPC_RMID | expected violation of `ExitUndoes` |
| `posix_mq` | 3 threads, 2 of one process: 2 senders of different and 2 receivers of the same priority, a signal, a timeout, spurious wakeups; 3 messages of 2 priorities, room for 2; one thread registers (by signal, by cookie, or not at all), another closes the queue, the third sets `O_NONBLOCK` | `WakeupHitsLiveWaiter`, `WaitersAgree` (and types), `NobodyWaitsInVain`, `CookieSentOnce`; `PriorityQueue`: the queue implements `PosixMqAbs`, which no message lost, doubled or owned twice survives |
| `shm` | 2 threads of one process with different users and the process they may fork; 2 slots, 2 sequence numbers, 2 files, 2 vmas per file. Three scenarios: attaches split, unmapped, forked and left behind by `unshare`; two users lock, unlock and destroy small and large, normal and huge segments; 4 segments in a row, so that ids come again | `AttachCount`, `AttachmentsPin`, `NothingLeft`, `Charges` (and types), `NamesFindOne` |
| `ipc_ns` | 3 tasks and the worker, 3 namespaces, 2 queues of which each namespace may have 1. Four scenarios: two tasks move to new namespaces again and again while memory is plugged; one plugs memory and leaves the last of its namespace while two others write the tunables of theirs; a task leaves its namespace for new ones, or for good, while another one, in the last case with `CAP_SYS_RESOURCE`, uses the queues it leaves behind through a mount (1.2 million states in all) | `NsRefs` (and types), `QueuesCounted`, `QueueReachable`, `ChainLive`, `MsgmniFresh` |

The bounds are the least at which every race has its actors: two receivers for
a walk that goes on after a wakeup and for competing requests, two senders for
"wake all" against "wake one" and for two references besides the first, limits
that one message fills. A message whose call is over is used again, so that the
runs have no bound on the number of calls. For semaphores: three tasks so that
one operation completes a second whose result completes a third, and two
semaphores so that the scan of one list has to be repeated for the other; values
0 and 1 put every semaphore at one of its limits all the time; a set is created
once per member of `Arrays`, calls are not bounded. For POSIX queues: three
messages, two of them of the same priority, so that order among equals shows,
and one more than the queue takes; a second thread in the process that closes.
For shared memory: a segment of 3 bytes fills two pages of `shm_ctlall` = 3 and
all of `MEMLOCK`, so that every limit is met; two vmas per file are a split or a
partial unmap, two files two attaches at a time; a third address space would do
nothing the second does not. `born` bounds the segments created; with two
sequence numbers the third segment can get the id of the first. For namespaces: a walk needs two entries
to go on to one whose neighbour is just leaving; a third namespace lets one be
torn down while another is created; freed namespaces, super blocks and queues
are used again, so that calls are not bounded; only the amount of memory is
(`MaxMem`).

What they do not reach: the queue of `msg_receivers` never holds two messages,
so that overtaking is left to `QueueRefines`; in `posix_mq` at most one sender
waits and both receivers have one priority, so that priority among waiters is
left to `InOrder`; the one task of `sem_live` lets `update_queue()` never restart;
`NamesFindOne` does not follow an id through `ipc_checkid()`.

Why some instances leave events out: IPC_RMID together with signals violates
`WakeupHitsLiveQueue`, and IPC_RMID together with exit leads to a freed undo
list; both are findings below. The passing runs with IPC_RMID therefore have
either no signals and no exits (`sem_rmid`) or check properties that hold all the
same (`sem_live`).

Symmetry: tasks (without those that get signals or timeouts), controllers, receivers and
senders are interchangeable, and so are the sets of `sem_rmid`, which have the
same id; messages of the same priority are (`posix_mq`). No run with a liveness
property uses it.

Deadlock is checked in `sem_queue`, `posix_mq`, `shm`, `ipc_ns` and the `msg_`
runs; in `shm` and `ipc_ns` a state in which all tasks are dead, or all are in
user mode, is no deadlock (`Stopped`, `Stay`). The other semaphore runs stop
when all sets have been used up or all tasks are dead.

Fairness (`msg_live`, `sem_live`): a task inside a system call goes
on. The step of a task that waits for the lock is enabled again and again, not
all the time; the spinlock of this kernel serves in order of arrival
(`arch/x86/include/asm/spinlock.h`, ticket locks), which is strong fairness of
the step. System calls and signals are not fair: nobody has to send or receive.

## Findings

* **Wakeup of a finished call** (`sem_wake`). A sleeper that a signal has started
  while `freeary()` is about to wake it up reads `-EINTR`, waits for the lock,
  finds the set removed (`sem.c:1495`) and returns `-EIDRM` without looking at
  its status again, though it is `IN_WAKEUP` by now. `wake_up_sem_queue_do()`
  then writes to a stack frame that is gone. `sem.c:211` says "if it's IN_WAKEUP,
  then it must wait until the value changes".
* **Undo requests forgotten** (`sem_exit_undoes`). `freeary()` sets
  `un->semid = -1` before it unlinks the structure (`sem.c:726-728`), and
  `exit_sem()` takes -1 for the end of its list (`sem.c:1597`). It leaves the
  loop, the adjustments for all other sets are never made, and `kfree(ulp)`
  (`sem.c:1656`) frees a list whose lock `freeary()` may be holding. The model
  also reaches the read of `un->semid` after `rcu_read_unlock()` (`sem.c:1600`)
  when the structure has been freed.

Observations made while modelling, which no run is spent on:

* `freeque()` drops its reference after `msg_unlock()` (`msg.c:322`) while the
  senders it has just woken drop theirs under the lock (`msg.c:746`). Two plain
  `--refcount` can both load the same value; one decrement is lost, the count
  never reaches 0 and the queue is never freed. `util.h:119-120` says "Caller
  must guarantee locking." The model has both halves of each decrement, and
  `ReferencesCovered` shows that the opposite error, freeing too early, does not
  happen.
* `convert_mode()` negates `msgtyp = LONG_MIN` to itself, so that no message is
  ever found (`SearchType`); the comment at `msg.c:804` says the type must be
  "< abs(msgtype)" while `testmsg()` accepts equality, as POSIX has it. `Eligible`,
  hence `SearchFindsBest` and `SearchCorrect`, side with the code.
* `mq_notify()` looks its file up before it takes the lock (`mqueue.c:1115`), so
  that it can register after another thread has closed the queue, and nobody
  removes this registration; no property is violated by it.
* `try_atomic_semop()` checks the undo range per operation against `semadj` as it
  was before the call, though `sem.c:383` says "Exceeding the undo range is an
  error.": the sum of several operations on one semaphore can wrap around the
  short (`Short` in `SemOps`), and one within the range can be refused.
  `OutOfRange` is the comment's meaning; `AllOrNothing` compares with it only
  where the two agree (`UndoesOnce`). That `semadj` stays a short
  (`UndoListsAgree`) holds by `Short` alone.
* msgmni can stay out of date. A change of memory or of the number of namespaces
  between `msg_init_ns()` and `register_ipcns_notifier()` in `create_ipc_ns()`
  passes the new namespace by; and two tasks in `recompute_msgmni()` for one
  namespace can store in the wrong order, since the walk holds the rwsem of the
  chain as a reader only. `MsgmniFresh` excludes these two (`PassedBy`,
  `Storing`), short writes of msgmni, which leave the namespace on the chain, and
  the clearing described below.
* `auto_msgmni` is no sign of being on the chain. It is stored after the rwsem is
  released (`ipcns_notifier.c:79`, `86`), and its handler compares two reads of
  it (`ipc_sysctl.c:107`, `112`). One writer registers, a second unregisters and
  clears the flag, the first sets it; or one reads 1, a second disables, the first
  writes 1 and sees no change: the flag is 1, the namespace off the chain and its
  msgmni stale from then on. The reverse, flag 0 and on the chain, is reachable
  too, and a short write gives either. TLC finds all of them; `MsgmniFresh` is
  therefore stated for the namespaces on the chain.
* With two writers, `cond_register_ipcns_notifier()` clears a notifier block that
  is on the chain already (`ipcns_notifier.c:73`). This cuts the chain off behind
  it, and the namespaces cut off stay out of date. It also clears
  `notifier_call` until the next line; a walker that gets there calls NULL
  (`kernel/notifier.c:93`): `callback_oops` is reachable. What `ChainLive` shows
  is only that no walker comes to a freed namespace.
* A holder of `CAP_SYS_RESOURCE` creates queues beyond `mq_queues_max`
  (`mqueue.c:318`), as intended; `QueuesCounted` claims the limit for scenarios
  without one.

## Proofs

The theorems hold for every value of the constants their modules assume: any
finite sets of tasks, any messages, limits and scenarios. Each component has
one inductive invariant, a conjunction of named parts kept in the component's
module, which TLC can evaluate; there is one lemma per part and action (or per
group of actions that leave what the part is about alone), a theorem `Spec =>
[]IInv`, and from it one theorem per property.

`DataLemmas` is what they share. The library's induction theorems cannot be
used here, so the lemmas argue by the least counterexample (`LeastNumber`): a
fold over a finite set has exactly one solution, hence the sums of the models
(bytes of a list, attachments, references) change by what one entry changes.

**`MsgQueue`** (`MsgQueueProofs`). `IInv` serves the memory and the wakeups. `NoUseAfterFree` needs to know who may still have the pointer:
a task in a read-side section that entered it before the last putref is in
`grace` (`LifeInv`), the count covers the holders of references, also in the
value a putref has loaded and not yet stored (`RefInv`), and a receiver that
reads `-EAGAIN` implies that the queue is not removed (`ListInv`). The last is
the claim in the comment of `do_msgrcv()` and needs most of the work: a receiver
waits if and only if the walk of `IPC_RMID` has not passed its place on the list
(`Expunged`), `r_msg` is NULL exactly while a waker is at work on it
(`WakerInv`), and the cursor of the waker points to the receiver it handles
(`CursorInv`). From this: `TypeCorrect`, `MemorySafe`, `WakeupSafe`,
`ReferencesSafe`. `DataInv` says what the lists and counters hold (`SenderInv`,
`RoomInv`, `AcctInv`), where each message is (`HoldInv`, `PlaceInv`), and what a
waker has found out and may rely on (`WantInv`: no receiver waits beside a
message it wants; `OfferInv`: the message offered still fits and is still
wanted). From this: `UnlinkedOnce`, `RoomIsSeen`, `CountersAgree`,
`NoMessageLost`, `MessageIsSeen`. `SearchCorrect` proves, for lists of any
length, that the narrowing walk of `do_msgrcv()` stops at the message the
declarative definition calls best. `QueueRefines` is the refinement of
`MsgQueueAbs`: the message is posted when it is linked, or handed over when a
waker of `pipelined_send()` stores it in `r_msg`; every other step of a wakeup,
a walk or a lookup maps to a step of one caller (waiting, leaving, coming home)
or to a stutter. `MessageIsSeen` and `QueueRefines` have the hypothesis that no
request has `msgtyp = LONG_MIN`, for which they are false (see the
observations).

**`PosixMq`** (`PosixMqProofs`). The properties are close to inductive: added
are who holds the lock (`LockInv`), which message a call has at which label
(`CallInv`), that `PENDING` is the state of a waiter exactly while the holder of
the lock is at work on it (`WakeInv`), and the order of the array and of the
lists (`OrderInv`), which is also the theorem `InOrder`.

**`Shm`** (`ShmProofs`). `IInv` has three layers. `TypeInv`; `TableInv`: segments,
slots, keys, sequence numbers and the charges are consistent among themselves;
`UseInv`: the calls under way, the files and the address spaces agree with the
table. `AttachmentsPin` follows from the exact attach count and from the guard
of every destruction, and the attach count in turn needs `AttachmentsPin`, for
`shm_close()` lowers the count of whatever is in the slot: the two are proved
together (`PinInv`, `AttachCount`), with the files as the link.

**`IpcNs`** (`IpcNsLemmas`, `IpcNsProofs`). A property of a namespace depends on
frames anywhere in any stack, so that the first lemmas say what replacing a top
frame does to the number of frames of a set (`Total`) and to the shape of a
stack (`ShapeInv`: what a frame finds below itself). The references come next:
`RefCount`, with `LifeInv` (freed once, by who dropped the last reference),
`MountInv` (a super block and its namespace point to each other until the last
reference goes), `QueueInv`, `OwnerInv` and `CallInv` (who sees to a queue, and
what keeps its super block meanwhile). On top of them msgmni: `ChainInv`
(whatever a walker may come to is allocated, and will be unregistered before it
is freed), `NrInv` (how far `nr_ipc_ns` lags behind) and `MniInv` (the msgmni of
a namespace on the chain, or on its way to it, is current, or will be computed
again, or the namespace is in `raced`). The limit of queues is a part of its own
(`Limited`), inductive beside `IInv`.

**`Sem`** (`SemLemmas`, `SemProofs`). The invariant has two halves. `IInv` needs
nothing of the pending operations and holds for all constants: the labels of
each call and its locals (`CallInv`), who holds which lock (`LockInv`), a set is
in the table from its creation to its removal (`SetInv`), the count covers
whoever left the lock with a reference, also in the value that a racing putref
has loaded (`RefInv`), what a reader found is kept for it (`RcuInv`), how many
tasks share an undo list, and that nobody does when its last user works it off
(`ListInv`), and the two lists of an undo structure, which `freeary()` unlinks
from in two steps and `exit_sem()` in one (`LinkInv`). From this: `SemsCounted`
and `SemMemorySafe`, which covers sets everywhere and undo structures in
`semtimedop()`, not the read at `sem.c:1600`. `QInv` is about the pending operations: every sleeper
without a result is pending once, for its set (`QueueAgrees`, `OneSet`,
`PendingHere`), with an undo structure that is that set's (`PendingUndo`); a
task that is being woken is on one list of one waker, still in its call
(`OnceWoken`, `OneWaker`, `WakeupHitsLiveQueue`), and keeps the result decided
for it (`ResultsKept`). `QInv` is false where a signal or a timeout can meet
`IPC_RMID`, which is what the run `sem_wake` shows and the first finding is
about. The theorems that need it therefore have the hypothesis `SafeWakeups`:
there is no `IPC_RMID`, or no task is signalled or has a timeout. Both cases
are proved (`SetsStay`, `NobodyEarly` say what each gives), so that what is left
open is exactly the combination the code gets wrong. From this:
`QueueConsistent`, `WakeupsSafe`, `UndoRight`, `UndoLinked` (with the types),
and the action property `ResultsHonest`. `IInv` holds in all states of the six
configurations of `MCSem`, `QInv` in those of the four that satisfy
`SafeWakeups`.

Assumptions: `MessageAssumption`, `ConstantsAssumption`, `MqConstants`,
`ShmConstants`, `NsConstants`, `SemAssumption`, `SemConstants`: types of the
parameters, values that stand for "none" are different from all others, sets of tasks and objects are
finite, some task is there at the start (`Started # {}`), limits are natural
numbers. Every one is evaluated by a run.

Only model-checked:

* everything under fairness (`WaitsEnd`, `SleepersReleased`, `LockReleased`,
  `ExitEnds`), which is out of this prover's reach;
* `PriorityQueue`: the mapping from `PosixMq` to `PosixMqAbs` selects
  subsequences with `SelectSeq`, a recursive definition the provers cannot
  unfold; `InOrder` is what is proved of the order;
* `SearchFindsBest`, as TLC's instance of what `SearchCorrect` proves;
* `NoMissedOp`: that the shortcuts of `update_queue()` leave nobody asleep needs
  what `try_atomic_semop()` computes, a fold over the operations of a call, for
  every argument, an induction over data; so does `AllOrNothing`. What is proved
  of the fold is that values and adjustments stay in range;
* `NoLostUnits`: a sum over undo structures that a `semop` must leave alone,
  both of whose terms it changes by such a fold;
* the semaphore properties whose theorems have the hypothesis `SafeWakeups`,
  outside of it. `WakeupHitsLiveQueue` is false there; for `UndoOfOwnSet` and
  `UndoListsAgree` TLC finds no violation when the task of `sem_rmid` may also
  be signalled (`Signalled = {t1}`, 2.0 million states).

## Not modelled, and why

* `msgutil.c`: copies text between user memory and pages, one call at a time.
* `syscall.c`, `compat.c`, `compat_mq.c`: convert arguments and dispatch.
* The tunables other than `msgmni` and `auto_msgmni`: plain stores of limits,
  which are constants here.
* The permissions `IPC_SET` changes for semaphores and shared memory; what they
  decide is left open in `Sem` and `Shm`.
* `shm_fault()`, the memory policy and `get_unmapped_area`: passed on to the
  file system underneath, without state of their own.
* `IPC_STAT`, `SHM_STAT`, `*_INFO`, `/proc/sysvipc`: read only.
* `poll()` and `read()` of a POSIX queue: report only.
* The rest of the repository: other subsystems of the kernel, which the code in
  `ipc/` calls through the interfaces modelled here (scheduler, signals, RCU,
  address spaces, the VFS), and which are each larger than it.

## Plan

Done: the modules of all components that have state of their own, the abstract
specifications of both kinds of message queues, and the proofs above. Left:

1. **`SemOps`**: what `try_atomic_semop()` computes for sequences of any length,
   with the argument by the least counterexample of `DataLemmas`; from it
   `NoMissedOp` and `NoLostUnits`.
2. **`SemAbs`**: `semop` as an atomic step on the vector of values, and the
   refinement from `Sem`.
3. The refinement of `PosixMqAbs` as a theorem, with a mapping that does not
   need `SelectSeq`.
4. Liveness of `PosixMq`: every busy wait ends, a timeout or signal ends every
   sleep.
