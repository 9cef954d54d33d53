-------------------------------- MODULE Sem --------------------------------
(***************************************************************************)
(* System V semaphore sets (ipc/sem.c): semtimedop() with its pending      *)
(* operations and lockless wakeup, SETVAL, SETALL and IPC_RMID, and the    *)
(* undo structures, which a set and the tasks that used it with SEM_UNDO   *)
(* both point to, up to exit_sem().                                        *)
(*                                                                         *)
(* A critical section under sem_perm.lock is one step, except: the walk of *)
(* update_queue(), one pending operation at a time; the spin of a woken    *)
(* task that holds the lock; and freeary()'s writes to an undo structure,  *)
(* which exit_sem() reads under RCU only.                                  *)
(***************************************************************************)
EXTENDS SemOps, FiniteSets

CONSTANTS
    Tasks,      \* tasks that call semop() and exit
    Ctls,       \* tasks that call semget() and semctl()
    Children,   \* those of Tasks that clone(CLONE_SYSVSEM) will create
    Arrays,     \* semaphore sets, each created at most once
    IdOf,       \* their ids, <<index, sequence number>>
    Cmds,       \* the semctl() commands used
    SopSeqs,    \* the arguments of semop()
    SetVals,    \* the values SETVAL and SETALL store
    Signalled,  \* tasks a signal may hit
    Timed,      \* tasks that call semtimedop() with a timeout
    Exits,      \* tasks that may exit
    sc_semmns,  \* most semaphores in the namespace
    NoProc, NoArr

Procs == Tasks \cup Ctls
Ids == {IdOf[a] : a \in Arrays}
Slots == {id[1] : id \in Ids}

ASSUME SemConstants ==
    /\ IsFiniteSet(Procs) /\ NoProc \notin Procs
    /\ Tasks \cap Ctls = {} /\ Children \subseteq Tasks
    /\ Arrays # {} /\ IsFiniteSet(Arrays) /\ NoArr \notin Arrays
    /\ IsFiniteSet(Sems) /\ Sems \subseteq Nat
    /\ SopSeqs \subseteq Seq(SopSet) \ {<<>>}
    /\ Cmds \subseteq {"SETVAL", "SETALL", "GETALL", "RMID"}
    /\ SetVals \subseteq 0 .. SEMVMX
    /\ sc_semmns \in Nat

VARIABLES
    \* struct sem_array
    mem,            \* none, live, rcu (call_rcu pending), freed
    refcount, deleted, lock,
    semval, sem_pending, complex_count,
    list_id,        \* its undo structures, by the undo list they belong to
    \* namespace
    idr,            \* the set each index leads to
    used_sems, rw_mutex,
    \* RCU
    readers,        \* tasks inside a read-side critical section
    grace,          \* those the callback of a set still waits for
    \* struct sem_undo_list, named by the task that allocated it
    undo_list,      \* tsk->sysvsem.undo_list
    ulp,            \* none, live, freed
    refcnt, ulp_lock,
    list_proc,      \* its undo structures, by the set they are for; last used first
    \* struct sem_undo, by list and set
    un,             \* its memory; is semid valid (not -1); semadj; grace
    \* tasks
    pc, cmd,
    sops, semid,    \* arguments
    sma,            \* local variable, the set found
    undo,           \* queue.undo, or the one of exit_sem() and freeary()
    status,         \* queue.status
    outcome,        \* queue.pid, after wake_up_sem_queue_prepare()
    state, sig, timedout,
    tasks,          \* those to wake up
    idx, semnum, walk,   \* do_smart_update() and update_queue()
    ref, res

arrayv == <<semval, sem_pending, complex_count>>
life   == <<mem, refcount, deleted, grace>>
ns     == <<idr, used_sems, rw_mutex>>
lists  == <<list_id, list_proc>>
ulpv   == <<undo_list, ulp, refcnt, ulp_lock>>
args   == <<cmd, sops, semid>>
queue  == <<status, outcome>>
sched  == <<state, sig, timedout>>
scanv  == <<tasks, idx, semnum, walk>>
vars   == <<arrayv, life, lock, ns, lists, readers, ulpv, un, pc, args, sma, undo,
            queue, sched, scanv, ref, res>>

-----------------------------------------------------------------------------
(* The undo list exit_sem() works on is remembered in undo[p].list; a      *)
(* semop() works on its own.                                               *)
NoUndo == [list |-> NoProc, set |-> NoArr]

(* The adjustments an operation of p works with: none without SEM_UNDO.    *)
AdjOf(p) == IF undo[p].set = NoArr THEN NoAdj ELSE un[undo[p].list][undo[p].set].semadj

(* __lookup_undo(): the undo structures of a list for an id.               *)
lookup_undo(u, id) ==
    {a \in ToSet(list_proc[u]) : un[u][a].valid /\ IdOf[a] = id}

(* Mutant: list_del_rcu() is forgotten.                                    *)
unlink_not(u, a) == list_proc' = list_proc

(* list_del_rcu(&un->list_proc)                                            *)
unlink_proc(u, a) == list_proc' = [list_proc EXCEPT ![u] = RemoveFirst(@, a)]

(* list_add_rcu() of the structure for a, which leaves its place.          *)
ToFront(u, a) == list_proc' = [list_proc EXCEPT ![u] = <<a>> \o RemoveFirst(@, a)]

Goto(p, l) == pc' = [pc EXCEPT ![p] = l]

(* The system call ends with value e.                                      *)
Return(p, e) ==
    /\ Goto(p, "ret")
    /\ res' = [res EXCEPT ![p] = e]
    /\ sig' = sig \ {p}

(* rcu_read_unlock(): no callback waits for p any longer.                  *)
Leave(p) ==
    /\ readers' = readers \ {p}
    /\ grace' = [a \in Arrays |-> grace[a] \ {p}]
    /\ un' = [u \in Tasks |-> [a \in Arrays |-> [un[u][a] EXCEPT !.grace = @ \ {p}]]]

(* Mutant: the structure is freed at once.                                 *)
kfree_un(u, a) == un' = [un EXCEPT ![u][a].mem = "freed"]

(* call_rcu(&un->rcu, free_un)                                             *)
call_rcu(u, a) == un' = [un EXCEPT ![u][a].mem = "rcu", ![u][a].grace = readers]

(* ipc_rcu_getref()                                                        *)
Getref(a) == refcount' = [refcount EXCEPT ![a] = @ + 1]

(* ipc_rcu_putref() with the value v loaded; the pending callback waits    *)
(* for the tasks that are readers now.                                     *)
Putref(a, v) ==
    /\ refcount' = [refcount EXCEPT ![a] = v - 1]
    /\ mem' = [mem EXCEPT ![a] = IF v - 1 > 0 THEN @ ELSE "rcu"]
    /\ grace' = [grace EXCEPT ![a] = IF v - 1 > 0 THEN @ ELSE readers]

(* An operation of one sembuf, for semaphore n, is on the list of n too.   *)
AddSimple(n, list, q) == IF Len(sops[q]) = 1 /\ sops[q][1].num = n THEN Append(list, q) ELSE list

(* The single-operation list of semaphore n: entries join it, and leave    *)
(* it, together with sem_pending, at the same end.                         *)
Simple(a, n) == FoldLeft(LAMBDA list, q : AddSimple(n, list, q), <<>>, sem_pending[a])

(* Mutant: the count of complex operations is left alone.                  *)
UnlinkSimple(a, q) ==
    /\ sem_pending' = [sem_pending EXCEPT ![a] = RemoveFirst(@, q)]
    /\ complex_count' = complex_count

unlink_queue(a, q) ==
    /\ sem_pending' = [sem_pending EXCEPT ![a] = RemoveFirst(@, q)]
    /\ complex_count' = [complex_count EXCEPT ![a] = IF Len(sops[q]) = 1 THEN @ ELSE @ - 1]

-----------------------------------------------------------------------------
Init ==
    /\ mem = [a \in Arrays |-> "none"]
    /\ refcount = [a \in Arrays |-> 0]
    /\ deleted = [a \in Arrays |-> FALSE]
    /\ lock = [a \in Arrays |-> NoProc]
    /\ semval = [a \in Arrays |-> [n \in Sems |-> 0]]
    /\ sem_pending = [a \in Arrays |-> <<>>]
    /\ complex_count = [a \in Arrays |-> 0]
    /\ list_id = [a \in Arrays |-> {}]
    /\ idr = [s \in Slots |-> NoArr] /\ used_sems = 0 /\ rw_mutex = NoProc
    /\ readers = {} /\ grace = [a \in Arrays |-> {}]
    /\ undo_list = [p \in Tasks |-> NoProc]
    /\ ulp = [u \in Tasks |-> "none"]
    /\ refcnt = [u \in Tasks |-> 0]
    /\ ulp_lock = [u \in Tasks |-> NoProc]
    /\ list_proc = [u \in Tasks |-> <<>>]
    /\ un = [u \in Tasks |-> [a \in Arrays |->
               [mem |-> "none", valid |-> FALSE, semadj |-> NoAdj, grace |-> {}]]]
    /\ pc = [p \in Procs |-> IF p \in Children THEN "unborn" ELSE "idle"]
    /\ cmd = [p \in Procs |-> "none"]
    /\ sops = [p \in Procs |-> <<>>]
    /\ semid = [p \in Procs |-> CHOOSE id \in Ids : TRUE]
    /\ sma = [p \in Procs |-> NoArr]
    /\ undo = [p \in Procs |-> NoUndo]
    /\ status = [p \in Procs |-> "EINTR"]
    /\ outcome = [p \in Procs |-> "EINTR"]
    /\ state = [p \in Procs |-> "RUN"] /\ sig = {} /\ timedout = {}
    /\ tasks = [p \in Procs |-> <<>>]
    /\ idx = [p \in Procs |-> 0]
    /\ semnum = [p \in Procs |-> -1]
    /\ walk = [p \in Procs |-> 0]
    /\ ref = [p \in Procs |-> 0]
    /\ res = [p \in Procs |-> "none"]

-----------------------------------------------------------------------------
(* Creation and lookup.                                                    *)

(* semget(): newary(), under rw_mutex.                                     *)
newary(p) ==
    /\ p \in Ctls /\ pc[p] = "idle" /\ rw_mutex = NoProc
    /\ used_sems + Cardinality(Sems) <= sc_semmns
    /\ \E a \in Arrays :
          /\ mem[a] = "none" /\ idr[IdOf[a][1]] = NoArr
          /\ mem' = [mem EXCEPT ![a] = "live"]
          /\ refcount' = [refcount EXCEPT ![a] = 1]
          /\ idr' = [idr EXCEPT ![IdOf[a][1]] = a]
    /\ used_sems' = used_sems + Cardinality(Sems)
    /\ UNCHANGED <<arrayv, deleted, grace, lock, rw_mutex, lists, readers, ulpv, un, pc,
                   args, sma, undo, queue, sched, scanv, ref, res>>

(* Back to user mode: the frame of the call, queue included, is gone.      *)
syscall_exit(p) ==
    /\ pc[p] = "ret"
    /\ Goto(p, "idle")
    /\ cmd' = [cmd EXCEPT ![p] = "none"]
    /\ sops' = [sops EXCEPT ![p] = <<>>]
    /\ sma' = [sma EXCEPT ![p] = NoArr]
    /\ undo' = [undo EXCEPT ![p] = NoUndo]
    /\ status' = [status EXCEPT ![p] = "EINTR"]
    /\ outcome' = [outcome EXCEPT ![p] = "EINTR"]
    /\ timedout' = timedout \ {p}
    /\ idx' = [idx EXCEPT ![p] = 0]
    /\ semnum' = [semnum EXCEPT ![p] = -1]
    /\ walk' = [walk EXCEPT ![p] = 0]
    /\ ref' = [ref EXCEPT ![p] = 0]
    /\ res' = [res EXCEPT ![p] = "none"]
    /\ UNCHANGED <<arrayv, life, lock, ns, lists, readers, ulpv, un, semid, state, sig, tasks>>

(* Where each lookup waits for the lock.                                   *)
LockLabel == [find |-> "lock", ufind |-> "ulock", rfind |-> "relock", cfind |-> "clock",
              xfind |-> "xlock"]

(* ipc_lock(), lockless half: rcu_read_lock() and idr_find().              *)
ipc_find(p) ==
    /\ pc[p] \in DOMAIN LockLabel
    /\ idr[semid[p][1]] # NoArr
    /\ sma' = [sma EXCEPT ![p] = idr[semid[p][1]]]
    /\ readers' = readers \cup {p}
    /\ Goto(p, LockLabel[pc[p]])
    /\ UNCHANGED <<arrayv, life, lock, ns, lists, ulpv, un, args, undo, queue, sched,
                   scanv, ref, res>>

(* The set is gone, or has another id than the one wanted (sem_lock() of a *)
(* woken task does not check).                                             *)
Missing(p) ==
    \/ pc[p] \in DOMAIN LockLabel /\ idr[semid[p][1]] = NoArr
    \/ /\ pc[p] \in {LockLabel[l] : l \in DOMAIN LockLabel}
       /\ lock[sma[p]] = NoProc
       /\ deleted[sma[p]] \/ (pc[p] # "relock" /\ IdOf[sma[p]] # semid[p])

(* The error of a lookup; a woken task returns EIDRM in any case.          *)
LookupError(p) ==
    IF pc[p] \in {"rfind", "relock"} \/ (pc[p] \notin DOMAIN LockLabel /\ ~deleted[sma[p]])
    THEN "EIDRM" ELSE "EINVAL"

(* A lookup fails: the call returns, exit_sem() looks at its list again.   *)
lookup_fails(p) ==
    /\ Missing(p)
    /\ Leave(p)
    /\ IF cmd[p] = "EXIT" THEN Goto(p, "xread") /\ UNCHANGED <<res, sig>>
       ELSE Return(p, LookupError(p))
    /\ rw_mutex' = IF rw_mutex = p THEN NoProc ELSE rw_mutex
    /\ UNCHANGED <<arrayv, mem, refcount, deleted, lock, idr, used_sems, lists, ulpv,
                   args, sma, undo, queue, state, timedout, scanv, ref>>

(* The lock of the set found is free, and the set is the right one.        *)
Found(p, l) == pc[p] = l /\ lock[sma[p]] = NoProc /\ ~Missing(p)

-----------------------------------------------------------------------------
(* semtimedop(): the undo structure.                                       *)

semop(p) ==
    /\ p \in Tasks /\ pc[p] = "idle"
    /\ cmd' = [cmd EXCEPT ![p] = "SEMOP"]
    /\ \E s \in SopSeqs, id \in Ids :
          /\ sops' = [sops EXCEPT ![p] = s]
          /\ semid' = [semid EXCEPT ![p] = id]
          /\ Goto(p, IF Undoes(s) THEN "undo" ELSE "find")
    /\ UNCHANGED <<arrayv, life, lock, ns, lists, readers, ulpv, un, sma, undo, queue,
                   sched, scanv, ref, res>>

(* get_undo_list(): the list of p, allocated if need be.                   *)
get_undo_list(p) ==
    IF undo_list[p] # NoProc THEN UNCHANGED <<undo_list, ulp, refcnt>>
    ELSE /\ undo_list' = [undo_list EXCEPT ![p] = p]
         /\ ulp' = [ulp EXCEPT ![p] = "live"]
         /\ refcnt' = [refcnt EXCEPT ![p] = 1]

(* clone(CLONE_SYSVSEM): copy_semundo(); the child shares the list.        *)
copy_semundo(p, child) ==
    /\ pc[p] = "idle" /\ pc[child] = "unborn"
    /\ LET u == IF undo_list[p] = NoProc THEN p ELSE undo_list[p] IN
          /\ undo_list' = [undo_list EXCEPT ![p] = u, ![child] = u]
          /\ ulp' = [ulp EXCEPT ![u] = "live"]
          /\ refcnt' = [refcnt EXCEPT ![u] = IF undo_list[p] = NoProc THEN 2 ELSE @ + 1]
    /\ Goto(child, "idle")
    /\ UNCHANGED <<arrayv, life, lock, ns, lists, readers, ulp_lock, un, args, sma, undo,
                   queue, sched, scanv, ref, res>>

(* find_alloc_undo(): look for the undo structure under ulp->lock; once    *)
(* found it stays, for the read-side section is kept.                      *)
find_undo(p) ==
    LET u == IF undo_list[p] = NoProc THEN p ELSE undo_list[p] IN
    /\ pc[p] = "undo" /\ ulp_lock[u] = NoProc
    /\ get_undo_list(p)
    /\ \/ \E a \in lookup_undo(u, semid[p]) :
             /\ ToFront(u, a)
             /\ undo' = [undo EXCEPT ![p] = [list |-> u, set |-> a]]
             /\ readers' = readers \cup {p}
             /\ Goto(p, "find")
       \/ /\ lookup_undo(u, semid[p]) = {}
          /\ Goto(p, "ufind")
          /\ UNCHANGED <<list_proc, undo, readers>>
    /\ UNCHANGED <<arrayv, life, lock, ns, list_id, ulp_lock, un, args, sma, queue, sched,
                   scanv, ref, res>>

(* Step 1: the size of the set; sem_getref_and_unlock().                   *)
undo_getref(p) ==
    /\ Found(p, "ulock")
    /\ Getref(sma[p])
    /\ Leave(p)
    /\ Goto(p, "ualloc")
    /\ UNCHANGED <<arrayv, mem, deleted, lock, ns, lists, ulpv, args, sma, undo, queue,
                   sched, scanv, ref, res>>

(* Step 2 fails: sem_putref().                                             *)
undo_enomem(p) ==
    /\ pc[p] = "ualloc" /\ lock[sma[p]] = NoProc
    /\ Putref(sma[p], refcount[sma[p]])
    /\ Return(p, "ENOMEM")
    /\ UNCHANGED <<arrayv, deleted, lock, ns, lists, readers, ulpv, un, args, sma, undo,
                   queue, state, timedout, scanv, ref>>

(* Mutant: nobody asks whether a task that shares the list came first.     *)
undo_link_blind(p) ==
    LET a == sma[p]  u == undo_list[p] IN
    /\ pc[p] = "ualloc" /\ lock[a] = NoProc /\ ulp_lock[u] = NoProc
    /\ Putref(a, refcount[a])
    /\ ~deleted[a]
    /\ ToFront(u, a)
    /\ list_id' = [list_id EXCEPT ![a] = @ \cup {u}]
    /\ un' = [un EXCEPT ![u][a] = [mem |-> "live", valid |-> TRUE, semadj |-> NoAdj, grace |-> {}]]
    /\ undo' = [undo EXCEPT ![p] = [list |-> u, set |-> a]]
    /\ readers' = readers \cup {p}
    /\ Goto(p, "find")
    /\ UNCHANGED <<arrayv, deleted, lock, ns, ulpv, args, sma, queue, state, timedout,
                   scanv, ref, res, sig>>

(* Steps 3 to 5: sem_lock_and_putref(); removed?  Did a task that shares   *)
(* the list get here first?  Else link the new structure to both lists.    *)
undo_link(p) ==
    LET a == sma[p]  u == undo_list[p] IN
    /\ pc[p] = "ualloc" /\ lock[a] = NoProc /\ ulp_lock[u] = NoProc
    /\ Putref(a, refcount[a])
    /\ \/ /\ deleted[a]
          /\ Return(p, "EIDRM")
          /\ UNCHANGED <<lists, un, undo, readers>>
       \/ /\ ~deleted[a] /\ lookup_undo(u, semid[p]) = {}
          /\ ToFront(u, a)
          /\ list_id' = [list_id EXCEPT ![a] = @ \cup {u}]
          /\ un' = [un EXCEPT ![u][a] =
                      [mem |-> "live", valid |-> TRUE, semadj |-> NoAdj, grace |-> {}]]
          /\ undo' = [undo EXCEPT ![p] = [list |-> u, set |-> a]]
          /\ readers' = readers \cup {p}
          /\ Goto(p, "find")
          /\ UNCHANGED <<res, sig>>
       \/ /\ ~deleted[a]
          /\ \E b \in lookup_undo(u, semid[p]) :
                /\ ToFront(u, b)
                /\ undo' = [undo EXCEPT ![p] = [list |-> u, set |-> b]]
          /\ readers' = readers \cup {p}
          /\ Goto(p, "find")
          /\ UNCHANGED <<list_id, un, res, sig>>
    /\ UNCHANGED <<arrayv, deleted, lock, ns, ulpv, args, sma, queue, state, timedout,
                   scanv, ref>>

-----------------------------------------------------------------------------
(* semtimedop(): the operation.                                            *)

(* Mutant: an undo structure IPC_RMID has invalidated is used all the same. *)
NeverStale(p) == FALSE

(* The undo structure found before the lock was for a set that has been    *)
(* removed since, though the id is in use again.                           *)
Stale(p) == undo[p].set # NoArr /\ ~un[undo[p].list][undo[p].set].valid

Attempt(p) == try_atomic_semop(semval[sma[p]], AdjOf(p), sops[p])

(* Store values v, and the adjustments d of the undo structure of q.       *)
Store(a, q, v, d) ==
    /\ semval' = [semval EXCEPT ![a] = v]
    /\ un' = IF undo[q].set = NoArr THEN un
             ELSE [un EXCEPT ![undo[q].list][undo[q].set].semadj = d]

(* EIDRM, EACCES, or an operation that fails or changes nothing.           *)
semop_return(p) ==
    /\ Found(p, "lock")
    /\ \/ Stale(p) /\ Return(p, "EIDRM")
       \/ ~Stale(p) /\ Return(p, "EACCES")
       \/ /\ ~Stale(p) /\ Attempt(p).res # "block"
          /\ Attempt(p).res = "ok" => ~Alters(sops[p])
          /\ Return(p, Attempt(p).res)
    /\ Leave(p)
    /\ UNCHANGED <<arrayv, mem, refcount, deleted, lock, ns, lists, ulpv, args, sma,
                   undo, queue, state, timedout, scanv, ref>>

(* Success: on to do_smart_update().                                       *)
semop_alter(p) ==
    /\ Found(p, "lock") /\ ~Stale(p)
    /\ Attempt(p).res = "ok" /\ Alters(sops[p])
    /\ Store(sma[p], p, Attempt(p).val, Attempt(p).adj)
    /\ lock' = [lock EXCEPT ![sma[p]] = p]
    /\ idx' = [idx EXCEPT ![p] = 1]
    /\ Goto(p, "smart")
    /\ UNCHANGED <<sem_pending, complex_count, life, ns, lists, readers, ulpv, args, sma,
                   undo, queue, sched, tasks, semnum, walk, ref, res>>

(* An operation that alters nothing joins the list at its head.            *)
Enqueue(a, p) == IF Alters(sops[p]) THEN Append(sem_pending[a], p) ELSE <<p>> \o sem_pending[a]

semop_sleep(p) ==
    LET a == sma[p] IN
    /\ Found(p, "lock") /\ ~Stale(p)
    /\ Attempt(p).res = "block"
    /\ sem_pending' = [sem_pending EXCEPT ![a] = Enqueue(a, p)]
    /\ complex_count' = [complex_count EXCEPT ![a] = IF Len(sops[p]) = 1 THEN @ ELSE @ + 1]
    /\ status' = [status EXCEPT ![p] = "EINTR"]
    /\ state' = [state EXCEPT ![p] = "INT"]
    /\ Leave(p)
    /\ Goto(p, "sleep")
    /\ UNCHANGED <<semval, mem, refcount, deleted, lock, ns, lists, ulpv, args, sma, undo,
                   outcome, sig, timedout, scanv, ref, res>>

(* schedule() or schedule_timeout() returns.                               *)
semop_wake(p) ==
    /\ pc[p] = "sleep"
    /\ \/ (state[p] = "RUN" \/ p \in sig) /\ UNCHANGED timedout
       \/ p \in Timed /\ timedout' = timedout \cup {p}
    /\ state' = [state EXCEPT ![p] = "RUN"]
    /\ Goto(p, "result")
    /\ UNCHANGED <<arrayv, life, lock, ns, lists, readers, ulpv, un, args, sma, undo,
                   queue, sig, scanv, ref, res>>

(* Mutant: the task does not wait for the end of a wakeup.                 *)
no_spin(p) == TRUE

(* get_queue_result(): the busy wait is over.                              *)
get_queue_result(p) == status[p] # "IN_WAKEUP"

(* Without the lock first.                                                 *)
semop_result(p) ==
    /\ pc[p] = "result" /\ get_queue_result(p)
    /\ \/ status[p] # "EINTR" /\ Return(p, status[p])
       \/ status[p] = "EINTR" /\ Goto(p, "rfind") /\ UNCHANGED <<res, sig>>
    /\ UNCHANGED <<arrayv, life, lock, ns, lists, readers, ulpv, un, args, sma, undo,
                   queue, state, timedout, scanv, ref>>

semop_relock(p) ==
    /\ Found(p, "relock")
    /\ lock' = [lock EXCEPT ![sma[p]] = p]
    /\ Goto(p, "recheck")
    /\ UNCHANGED <<arrayv, life, ns, lists, readers, ulpv, un, args, sma, undo, queue,
                   sched, scanv, ref, res>>

(* Then with the lock; the operation is unlinked only if nobody else has.  *)
semop_recheck(p) ==
    /\ pc[p] = "recheck" /\ get_queue_result(p)
    /\ \/ /\ status[p] # "EINTR"
          /\ Return(p, status[p])
          /\ UNCHANGED <<sem_pending, complex_count>>
       \/ /\ status[p] = "EINTR"
          /\ unlink_queue(sma[p], p)
          /\ Return(p, IF p \in timedout THEN "EAGAIN" ELSE "EINTR")
    /\ lock' = [lock EXCEPT ![sma[p]] = NoProc]
    /\ Leave(p)
    /\ UNCHANGED <<semval, mem, refcount, deleted, ns, lists, ulpv, args, sma, undo, queue,
                   state, timedout, scanv, ref>>

Signal(p) ==
    /\ p \in Signalled /\ p \notin sig /\ pc[p] = "sleep"
    /\ sig' = sig \cup {p}
    /\ UNCHANGED <<arrayv, life, lock, ns, lists, readers, ulpv, un, pc, args, sma, undo,
                   queue, state, timedout, scanv, ref, res>>

-----------------------------------------------------------------------------
(* do_smart_update() and update_queue(), with the lock held.               *)

(* do_smart_update(): may this operation, just performed, let a pending    *)
(* one go on?                                                              *)
MayHelp(a, sop) == sop.op > 0 \/ (sop.op < 0 /\ semval[a][sop.num] = 0)

(* update_queue() is called for semaphore n (-1: for all).                 *)
Scan(p, n, i) ==
    /\ semnum' = [semnum EXCEPT ![p] = IF complex_count[sma[p]] # 0 THEN -1 ELSE n]
    /\ walk' = [walk EXCEPT ![p] = 1]
    /\ idx' = [idx EXCEPT ![p] = i]
    /\ Goto(p, "scan")
    /\ UNCHANGED <<lock, readers, grace, un>>

(* do_smart_update(): the next call of update_queue(), or unlock.  idx is  *)
(* the next of the operations to look at, 0 when the rest does not matter. *)
do_smart_update(p) ==
    LET a == sma[p]
        todo == {i \in DOMAIN sops[p] : i >= idx[p] /\ MayHelp(a, sops[p][i])}
        all == idx[p] = 1 /\ (complex_count[a] # 0 \/ cmd[p] # "SEMOP")
    IN
    /\ pc[p] = "smart"
    /\ \/ all /\ Scan(p, -1, 0)
       \/ /\ ~all /\ idx[p] # 0 /\ todo # {}
          /\ Scan(p, sops[p][Min(todo)].num, Min(todo) + 1)
       \/ /\ ~all /\ (idx[p] = 0 \/ todo = {})
          /\ lock' = [lock EXCEPT ![a] = NoProc]
          /\ Leave(p)
          /\ Goto(p, "wake")
          /\ UNCHANGED <<semnum, walk, idx>>
    /\ UNCHANGED <<arrayv, mem, refcount, deleted, ns, lists, ulpv, args, sma, undo,
                   queue, sched, tasks, ref, res>>

(* Mutant: only a wait for zero makes update_queue() start again.          *)
RestartSimple(a, q, val, rest) ==
    /\ Len(sops[q]) = 1 /\ Alters(sops[q])
    /\ rest # <<>> /\ val[sops[q][1].num] = 0 /\ sops[Head(rest)][1].op = 0

(* check_restart(): q has completed; val are the new values and rest the   *)
(* simple operations still pending on the semaphore of q.                  *)
check_restart(a, q, val, rest) ==
    /\ Alters(sops[q])
    /\ \/ complex_count'[a] # 0
       \/ Len(sops[q]) > 1
       \/ rest # <<>> /\ val[sops[q][1].num] = 0 /\ sops[Head(rest)][1].op = 0

(* update_queue(): the list it walks.                                      *)
PendingList(p) ==
    IF semnum[p] = -1 THEN sem_pending[sma[p]] ELSE Simple(sma[p], semnum[p])

(* The end of the list, or of the operations that can go on at value 0.    *)
WalkOver(p) ==
    LET list == PendingList(p) IN
    \/ walk[p] > Len(list)
    \/ /\ walk[p] <= Len(list)
       /\ semnum[p] # -1 /\ semval[sma[p]][semnum[p]] = 0
       /\ Alters(sops[list[walk[p]]])

(* The pending operation the walk has reached, tried again.                *)
Next_q(p) == PendingList(p)[walk[p]]
Retry(p) == try_atomic_semop(semval[sma[p]], AdjOf(Next_q(p)), sops[Next_q(p)])

update_end(p) ==
    /\ pc[p] = "scan" /\ WalkOver(p)
    /\ Goto(p, "smart")
    /\ UNCHANGED <<arrayv, life, lock, ns, lists, readers, ulpv, un, args, sma, undo,
                   queue, sched, scanv, ref, res>>

update_skip(p) ==
    /\ pc[p] = "scan" /\ ~WalkOver(p) /\ Retry(p).res = "block"
    /\ walk' = [walk EXCEPT ![p] = @ + 1]
    /\ UNCHANGED <<arrayv, life, lock, ns, lists, readers, ulpv, un, pc, args, sma, undo,
                   queue, sched, tasks, idx, semnum, ref, res>>

(* The operation completes or fails: unlink_queue(), check_restart(),      *)
(* wake_up_sem_queue_prepare().                                            *)
update_complete(p) ==
    LET a == sma[p]
        q == Next_q(p)
        r == Retry(p)
        rest == IF Len(sops[q]) = 1 THEN RemoveFirst(Simple(a, sops[q][1].num), q) ELSE <<>>
    IN
    /\ pc[p] = "scan" /\ ~WalkOver(p) /\ r.res # "block"
    /\ Store(a, q, r.val, r.adj)
    /\ unlink_queue(a, q)
    /\ status' = [status EXCEPT ![q] = "IN_WAKEUP"]
    /\ outcome' = [outcome EXCEPT ![q] = r.res]
    /\ tasks' = [tasks EXCEPT ![p] = Append(@, q)]
    /\ walk' = [walk EXCEPT ![p] =
                   IF r.res = "ok" /\ check_restart(a, q, r.val, rest) THEN 1 ELSE @]
    /\ UNCHANGED <<life, lock, ns, lists, readers, ulpv, pc, args, sma, undo, sched, idx,
                   semnum, ref, res>>

-----------------------------------------------------------------------------
(* wake_up_sem_queue_do(), without locks.                                  *)

(* Where the queue of a task, on its stack, exists and others may use it.  *)
QueuePcs == {"sleep", "result", "rfind", "relock", "recheck"}

(* Mutant: nobody is woken up.                                             *)
WakeNobody(q) == state

(* wake_up_process()                                                       *)
Woken(q) == [state EXCEPT ![q] = "RUN"]

wake_next(p) ==
    /\ pc[p] = "wake" /\ tasks[p] # <<>>
    /\ state' = Woken(Head(tasks[p]))
    /\ Goto(p, "set")
    /\ UNCHANGED <<arrayv, life, lock, ns, lists, readers, ulpv, un, args, sma, undo,
                   queue, sig, timedout, scanv, ref, res>>

(* Mutant: the status stays IN_WAKEUP.                                     *)
FinalNot(q) == status

(* q->status = q->pid                                                      *)
Final(q) == [status EXCEPT ![q] = outcome[q]]

(* If q is no longer there the store hits whatever is in its place, the    *)
(* queue of a later call perhaps.                                          *)
wake_set(p) ==
    LET q == Head(tasks[p]) IN
    /\ pc[p] = "set"
    /\ \/ status' = Final(q)
       \/ (pc[q] \notin QueuePcs \/ status[q] # "IN_WAKEUP") /\ UNCHANGED status
    /\ tasks' = [tasks EXCEPT ![p] = Tail(@)]
    /\ Goto(p, "wake")
    /\ UNCHANGED <<arrayv, life, lock, ns, lists, readers, ulpv, un, args, sma, undo,
                   outcome, sched, idx, semnum, walk, ref, res>>

(* Mutant: the semaphores of a removed set stay counted.                   *)
KeptSems == used_sems

(* ns->used_sems -= sma->sem_nsems                                         *)
FreedSems == used_sems - Cardinality(Sems)

(* All awake: back to user mode; exit_sem() hands its undo structure to    *)
(* RCU; freeary() starts to drop its reference.                            *)
wake_done(p) ==
    LET u == undo[p].list  b == undo[p].set IN
    /\ pc[p] = "wake" /\ tasks[p] = <<>>
    /\ \/ /\ cmd[p] \in {"SEMOP", "SETVAL", "SETALL"}
          /\ Return(p, "ok")
          /\ UNCHANGED <<un, used_sems, ref>>
       \/ /\ cmd[p] = "EXIT"
          /\ call_rcu(u, b)
          /\ Goto(p, "xread")
          /\ UNCHANGED <<used_sems, ref, res, sig>>
       \/ /\ cmd[p] = "RMID"
          /\ used_sems' = FreedSems
          /\ ref' = [ref EXCEPT ![p] = refcount[sma[p]]]
          /\ Goto(p, "put")
          /\ UNCHANGED <<un, res, sig>>
    /\ UNCHANGED <<arrayv, life, lock, idr, rw_mutex, lists, readers, ulpv, args, sma,
                   undo, queue, state, timedout, scanv>>

-----------------------------------------------------------------------------
(* semctl(): SETVAL, SETALL, GETALL, IPC_RMID.                             *)

semctl(p) ==
    /\ p \in Ctls /\ pc[p] = "idle"
    /\ \E c \in Cmds, id \in Ids :
          /\ c = "RMID" => rw_mutex = NoProc
          /\ rw_mutex' = IF c = "RMID" THEN p ELSE rw_mutex
          /\ cmd' = [cmd EXCEPT ![p] = c]
          /\ semid' = [semid EXCEPT ![p] = id]
    /\ Goto(p, "cfind")
    /\ UNCHANGED <<arrayv, life, lock, idr, used_sems, lists, readers, ulpv, un, sops, sma,
                   undo, queue, sched, scanv, ref, res>>

(* No permission, or an argument out of range.                             *)
ctl_fail(p) ==
    /\ Found(p, "clock")
    /\ Return(p, "EPERM")
    /\ Leave(p)
    /\ rw_mutex' = IF cmd[p] = "RMID" THEN NoProc ELSE rw_mutex
    /\ UNCHANGED <<arrayv, mem, refcount, deleted, lock, idr, used_sems, lists, ulpv,
                   args, sma, undo, queue, state, timedout, scanv, ref>>

(* The undo structures of set a with the adjustments of semaphores S gone. *)
ClearAdjs(a, S) ==
    [u \in Tasks |-> IF u \notin list_id[a] THEN un[u]
        ELSE [un[u] EXCEPT ![a].semadj = [n \in Sems |-> IF n \in S THEN 0 ELSE @[n]]]]

(* SETVAL: new value, no adjustments, do_smart_update().                   *)
setval(p) ==
    LET a == sma[p] IN
    /\ Found(p, "clock") /\ cmd[p] = "SETVAL"
    /\ \E n \in Sems, v \in SetVals :
          /\ semval' = [semval EXCEPT ![a][n] = v]
          /\ un' = ClearAdjs(a, {n})
    /\ lock' = [lock EXCEPT ![a] = p]
    /\ idx' = [idx EXCEPT ![p] = 1]
    /\ Goto(p, "smart")
    /\ UNCHANGED <<sem_pending, complex_count, life, ns, lists, readers, ulpv, args, sma,
                   undo, queue, sched, tasks, semnum, walk, ref, res>>

(* SETALL, and GETALL of a large set: sem_getref_and_unlock(), then get    *)
(* memory and, for SETALL, the values.                                     *)
all_getref(p) ==
    /\ Found(p, "clock") /\ cmd[p] \in {"SETALL", "GETALL"}
    /\ Getref(sma[p])
    /\ Leave(p)
    /\ Goto(p, "copyin")
    /\ UNCHANGED <<arrayv, mem, deleted, lock, ns, lists, ulpv, args, sma, undo, queue,
                   sched, scanv, ref, res>>

(* ENOMEM, EFAULT or ERANGE: sem_putref().                                 *)
all_fail(p) ==
    /\ pc[p] = "copyin" /\ lock[sma[p]] = NoProc
    /\ Putref(sma[p], refcount[sma[p]])
    /\ Return(p, "EFAULT")
    /\ UNCHANGED <<arrayv, deleted, lock, ns, lists, readers, ulpv, un, args, sma, undo,
                   queue, state, timedout, scanv, ref>>

(* sem_lock_and_putref(); removed meanwhile?  Else read the values.        *)
getall(p) ==
    LET a == sma[p] IN
    /\ pc[p] = "copyin" /\ cmd[p] = "GETALL" /\ lock[a] = NoProc
    /\ Putref(a, refcount[a])
    /\ Return(p, IF deleted[a] THEN "EIDRM" ELSE "ok")
    /\ UNCHANGED <<arrayv, deleted, lock, ns, lists, readers, ulpv, un, args, sma, undo,
                   queue, state, timedout, scanv, ref>>

(* The same for SETALL; else as SETVAL, for all semaphores.                *)
setall(p) ==
    LET a == sma[p] IN
    /\ pc[p] = "copyin" /\ cmd[p] = "SETALL" /\ lock[a] = NoProc
    /\ Putref(a, refcount[a])
    /\ \/ /\ deleted[a]
          /\ Return(p, "EIDRM")
          /\ UNCHANGED <<semval, un, lock, idx, readers>>
       \/ /\ ~deleted[a]
          /\ \E v \in [Sems -> SetVals] : semval' = [semval EXCEPT ![a] = v]
          /\ un' = ClearAdjs(a, Sems)
          /\ lock' = [lock EXCEPT ![a] = p]
          /\ readers' = readers \cup {p}
          /\ idx' = [idx EXCEPT ![p] = 1]
          /\ Goto(p, "smart")
          /\ UNCHANGED <<res, sig>>
    /\ UNCHANGED <<sem_pending, complex_count, deleted, ns, lists, ulpv, args, sma, undo,
                   queue, state, timedout, tasks, semnum, walk, ref>>

(* IPC_RMID: freeary(), with rw_mutex and the lock of the set.             *)
freeary(p) ==
    /\ Found(p, "clock") /\ cmd[p] = "RMID"
    /\ lock' = [lock EXCEPT ![sma[p]] = p]
    /\ Goto(p, "fundo")
    /\ UNCHANGED <<arrayv, life, ns, lists, readers, ulpv, un, args, sma, undo, queue,
                   sched, scanv, ref, res>>

(* An undo structure: out of list_id, take ulp->lock, semid = -1 ...       *)
freeary_invalidate(p) ==
    LET a == sma[p] IN
    /\ pc[p] = "fundo"
    /\ \E u \in list_id[a] :
          /\ ulp_lock[u] = NoProc
          /\ list_id' = [list_id EXCEPT ![a] = @ \ {u}]
          /\ ulp_lock' = [ulp_lock EXCEPT ![u] = p]
          /\ un' = [un EXCEPT ![u][a].valid = FALSE]
          /\ undo' = [undo EXCEPT ![p] = [list |-> u, set |-> a]]
    /\ Goto(p, "funlink")
    /\ UNCHANGED <<arrayv, life, lock, ns, list_proc, readers, undo_list, ulp, refcnt, args,
                   sma, queue, sched, scanv, ref, res>>

(* ... out of list_proc, unlock, call_rcu().                               *)
freeary_unlink(p) ==
    LET u == undo[p].list  a == sma[p] IN
    /\ pc[p] = "funlink"
    /\ unlink_proc(u, a)
    /\ ulp_lock' = [ulp_lock EXCEPT ![u] = NoProc]
    /\ call_rcu(u, a)
    /\ Goto(p, "fundo")
    /\ UNCHANGED <<arrayv, life, lock, ns, list_id, readers, undo_list, ulp, refcnt, args,
                   sma, undo, queue, sched, scanv, ref, res>>

(* Every pending operation fails; sem_rmid(); unlock; then                 *)
(* wake_up_sem_queue_do().                                                 *)
freeary_rmid(p) ==
    LET a == sma[p]  ws == ToSet(sem_pending[a]) IN
    /\ pc[p] = "fundo" /\ list_id[a] = {}
    /\ sem_pending' = [sem_pending EXCEPT ![a] = <<>>]
    /\ complex_count' = [complex_count EXCEPT ![a] = 0]
    /\ status' = [q \in Procs |-> IF q \in ws THEN "IN_WAKEUP" ELSE status[q]]
    /\ outcome' = [q \in Procs |-> IF q \in ws THEN "EIDRM" ELSE outcome[q]]
    /\ tasks' = [tasks EXCEPT ![p] = sem_pending[a]]
    /\ deleted' = [deleted EXCEPT ![a] = TRUE]
    /\ idr' = [idr EXCEPT ![IdOf[a][1]] = NoArr]
    /\ lock' = [lock EXCEPT ![a] = NoProc]
    /\ Leave(p)
    /\ Goto(p, "wake")
    /\ UNCHANGED <<semval, mem, refcount, used_sems, rw_mutex, lists, ulpv, args, sma, undo,
                   sched, idx, semnum, walk, ref, res>>

(* ipc_rcu_putref() without the lock, and up_write().                      *)
freeary_putref(p) ==
    /\ pc[p] = "put"
    /\ Putref(sma[p], ref[p])
    /\ rw_mutex' = NoProc
    /\ Return(p, "ok")
    /\ UNCHANGED <<arrayv, deleted, lock, idr, used_sems, lists, readers, ulpv, un, args,
                   sma, undo, queue, state, timedout, scanv, ref>>

-----------------------------------------------------------------------------
(* exit_sem().                                                             *)

(* The task dies; the last user of its undo list carries the list out.     *)
exit_sem(p) ==
    LET u == undo_list[p] IN
    /\ p \in Exits /\ pc[p] = "idle"
    /\ cmd' = [cmd EXCEPT ![p] = "EXIT"]
    /\ sops' = [sops EXCEPT ![p] = <<>>]
    /\ undo_list' = [undo_list EXCEPT ![p] = NoProc]
    /\ undo' = [undo EXCEPT ![p] = [list |-> u, set |-> NoArr]]
    /\ \/ u = NoProc /\ Goto(p, "dead") /\ UNCHANGED refcnt
       \/ /\ u # NoProc
          /\ refcnt' = [refcnt EXCEPT ![u] = @ - 1]
          /\ Goto(p, IF refcnt[u] = 1 THEN "xread" ELSE "dead")
    /\ UNCHANGED <<arrayv, life, lock, ns, lists, readers, ulp, ulp_lock, un, semid, sma,
                   queue, sched, scanv, ref, res>>

(* The first undo structure and its semid, under RCU.                      *)
exit_read(p) ==
    LET u == undo[p].list  a == Head(list_proc[u]) IN
    /\ pc[p] = "xread" /\ list_proc[u] # <<>> /\ un[u][a].valid
    /\ undo' = [undo EXCEPT ![p].set = a]
    /\ semid' = [semid EXCEPT ![p] = IdOf[a]]
    /\ Goto(p, "xfind")
    /\ UNCHANGED <<arrayv, life, lock, ns, lists, readers, ulpv, un, cmd, sops, sma, queue,
                   sched, scanv, ref, res>>

(* The list is empty, or the structure read says -1: kfree(ulp).           *)
exit_done(p) ==
    LET u == undo[p].list IN
    /\ pc[p] = "xread"
    /\ list_proc[u] # <<>> => ~un[u][Head(list_proc[u])].valid
    /\ ulp' = [ulp EXCEPT ![u] = "freed"]
    /\ Goto(p, "dead")
    /\ UNCHANGED <<arrayv, life, lock, ns, lists, readers, undo_list, refcnt, ulp_lock, un,
                   args, sma, undo, queue, sched, scanv, ref, res>>

(* sem_lock_check() is called with un->semid read again, after             *)
(* rcu_read_unlock(): -1 by now, or garbage, and the lookup fails.         *)
exit_reread(p) ==
    /\ pc[p] = "xfind" /\ ~un[undo[p].list][undo[p].set].valid
    /\ Goto(p, "xread")
    /\ UNCHANGED <<arrayv, life, lock, ns, lists, readers, ulpv, un, args, sma, undo, queue,
                   sched, scanv, ref, res>>

(* The set locked is not the one the structure was for: nothing to do.     *)
exit_raced(p) ==
    /\ Found(p, "xlock") /\ lookup_undo(undo[p].list, semid[p]) = {}
    /\ Leave(p)
    /\ Goto(p, "xread")
    /\ UNCHANGED <<arrayv, mem, refcount, deleted, lock, ns, lists, ulpv, args, sma, undo,
                   queue, sched, scanv, ref, res>>

(* Unlink the structure, perform its adjustments, do_smart_update().       *)
exit_adjust(p) ==
    LET u == undo[p].list  a == sma[p] IN
    /\ Found(p, "xlock") /\ ulp_lock[u] = NoProc
    /\ \E b \in lookup_undo(u, semid[p]) :
          /\ undo' = [undo EXCEPT ![p].set = b]
          /\ list_id' = [list_id EXCEPT ![b] = @ \ {u}]
          /\ unlink_proc(u, b)
          /\ semval' = [semval EXCEPT ![a] = Adjust(@, un[u][b].semadj)]
    /\ lock' = [lock EXCEPT ![a] = p]
    /\ idx' = [idx EXCEPT ![p] = 1]
    /\ Goto(p, "smart")
    /\ UNCHANGED <<sem_pending, complex_count, life, ns, readers, ulpv, un, args, sma,
                   queue, sched, tasks, semnum, walk, ref, res>>

-----------------------------------------------------------------------------
(* RCU callbacks, after a grace period.  What freed memory holds does not  *)
(* matter.                                                                 *)

free_un(u, a) ==
    /\ un[u][a].mem = "rcu" /\ un[u][a].grace = {}
    /\ un' = [un EXCEPT ![u][a].mem = "freed", ![u][a].semadj = NoAdj]
    /\ UNCHANGED <<arrayv, life, lock, ns, lists, readers, ulpv, pc, args, sma, undo, queue,
                   sched, scanv, ref, res>>

ipc_immediate_free(a) ==
    /\ mem[a] = "rcu" /\ grace[a] = {}
    /\ mem' = [mem EXCEPT ![a] = "freed"]
    /\ UNCHANGED <<arrayv, refcount, deleted, grace, lock, ns, lists, readers, ulpv, un, pc,
                   args, sma, undo, queue, sched, scanv, ref, res>>

-----------------------------------------------------------------------------
(* What a task inside a system call does next.                             *)
Step(p) ==
    \/ ipc_find(p) \/ lookup_fails(p) \/ syscall_exit(p)
    \/ find_undo(p) \/ undo_getref(p) \/ undo_enomem(p) \/ undo_link(p)
    \/ semop_return(p) \/ semop_alter(p) \/ semop_sleep(p) \/ semop_wake(p)
    \/ semop_result(p) \/ semop_relock(p) \/ semop_recheck(p)
    \/ do_smart_update(p) \/ update_end(p) \/ update_skip(p) \/ update_complete(p)
    \/ wake_next(p) \/ wake_set(p) \/ wake_done(p)
    \/ ctl_fail(p) \/ setval(p) \/ all_getref(p) \/ all_fail(p) \/ getall(p) \/ setall(p)
    \/ freeary(p) \/ freeary_invalidate(p) \/ freeary_unlink(p) \/ freeary_rmid(p)
    \/ freeary_putref(p)
    \/ exit_read(p) \/ exit_done(p) \/ exit_reread(p) \/ exit_raced(p) \/ exit_adjust(p)

Next ==
    \/ \E p \in Procs : Step(p)
    \/ \E p \in Ctls : newary(p) \/ semctl(p)
    \/ \E p \in Tasks : semop(p) \/ Signal(p) \/ exit_sem(p)
    \/ \E p \in Tasks, c \in Children : copy_semundo(p, c)
    \/ \E u \in Tasks, a \in Arrays : free_un(u, a)
    \/ \E a \in Arrays : ipc_immediate_free(a)

Spec == Init /\ [][Next]_vars

(* A task inside a system call goes on; a contended lock is a ticket lock, *)
(* served in order of arrival, hence strong fairness.                      *)
FairSpec ==
    /\ Spec
    /\ \A p \in Procs : SF_vars(Step(p))

-----------------------------------------------------------------------------
(* Properties.                                                             *)

Labels == {"unborn", "idle", "ret", "undo", "ufind", "ulock", "ualloc", "find", "lock", "sleep",
           "result", "rfind", "relock", "recheck", "smart", "scan", "wake", "set",
           "cfind", "clock", "copyin", "fundo", "funlink", "put",
           "xread", "xfind", "xlock", "dead"}
Mems == {"none", "live", "rcu", "freed"}
Errors == {"ok", "EINTR", "EAGAIN", "ERANGE", "EIDRM"}

(* Types; in particular semval stays between 0 and SEMVMX, although        *)
(* exit_sem() adds adjustments to it unasked, and semadj fits a short.     *)
TypeOK ==
    /\ mem \in [Arrays -> Mems] /\ refcount \in [Arrays -> Nat]
    /\ deleted \in [Arrays -> BOOLEAN] /\ lock \in [Arrays -> Procs \cup {NoProc}]
    /\ semval \in [Arrays -> Values] /\ sem_pending \in [Arrays -> Seq(Tasks)]
    /\ complex_count \in [Arrays -> Nat] /\ list_id \in [Arrays -> SUBSET Tasks]
    /\ idr \in [Slots -> Arrays \cup {NoArr}] /\ used_sems \in Nat
    /\ rw_mutex \in Ctls \cup {NoProc}
    /\ readers \subseteq Procs /\ grace \in [Arrays -> SUBSET Procs]
    /\ undo_list \in [Tasks -> Tasks \cup {NoProc}]
    /\ ulp \in [Tasks -> {"none", "live", "freed"}] /\ refcnt \in [Tasks -> Nat]
    /\ ulp_lock \in [Tasks -> Ctls \cup {NoProc}] /\ list_proc \in [Tasks -> Seq(Arrays)]
    /\ un \in [Tasks -> [Arrays ->
                 [mem : Mems, valid : BOOLEAN, semadj : Adjs, grace : SUBSET Procs]]]
    /\ pc \in [Procs -> Labels] /\ sops \in [Procs -> SopSeqs \cup {<<>>}]
    /\ cmd \in [Procs -> Cmds \cup {"none", "SEMOP", "EXIT"}]
    /\ semid \in [Procs -> Ids] /\ sma \in [Procs -> Arrays \cup {NoArr}]
    /\ undo \in [Procs -> [list : Tasks \cup {NoProc}, set : Arrays \cup {NoArr}]]
    /\ status \in [Procs -> Errors \cup {"IN_WAKEUP"}] /\ outcome \in [Procs -> Errors]
    /\ state \in [Procs -> {"RUN", "INT"}] /\ sig \subseteq Tasks /\ timedout \subseteq Tasks
    /\ tasks \in [Procs -> Seq(Tasks)] /\ idx \in [Procs -> Nat]
    /\ semnum \in [Procs -> Sems \cup {-1}] /\ walk \in [Procs -> Nat]
    /\ ref \in [Procs -> Nat]

Pending(a) == ToSet(sem_pending[a])

(* Nobody sleeps for nothing: when the lock of a set is free, every        *)
(* pending operation really has to wait.  This is what the shortcuts of    *)
(* do_smart_update(), update_queue() and check_restart() must not break:   *)
(* the per-semaphore lists, the walk that stops at the first alter entry   *)
(* when the value is 0, the restarts left out.                             *)
NoMissedOp ==
    \A a \in Arrays : lock[a] = NoProc =>
        \A q \in Pending(a) :
            try_atomic_semop(semval[a], AdjOf(q), sops[q]).res = "block"

(* What the lists of pending operations and their sleepers say of each     *)
(* other.                                                                  *)
OncePending   == \A a \in Arrays : IsInjective(sem_pending[a])
ComplexCount  ==
    \A a \in Arrays : complex_count[a] = Cardinality({q \in Pending(a) : Len(sops[q]) > 1})
PendingSleeps ==
    \A a \in Arrays : \A q \in Pending(a) : pc[q] \in QueuePcs /\ status[q] = "EINTR"
SleepsPending ==
    \A p \in Tasks : pc[p] \in QueuePcs /\ status[p] = "EINTR" =>
        /\ \E a \in Arrays : p \in Pending(a)
        /\ pc[p] = "recheck" => p \in Pending(sma[p])

(* The lockless wakeup algorithm: a sleeper whose status is still EINTR is *)
(* on the pending list of exactly the set it will unlink itself from, one  *)
(* with any other status on none; and complex_count counts.                *)
QueueAgrees == OncePending /\ ComplexCount /\ PendingSleeps /\ SleepsPending

(* wake_up_process() and the store to q->status find the task asleep or    *)
(* spinning in the same call (the races listed above IN_WAKEUP).           *)
WakeupHitsLiveQueue ==
    \A p \in Procs : \A q \in ToSet(tasks[p]) :
        pc[q] \in QueuePcs /\ status[q] = "IN_WAKEUP"

(* A call that slept returns what its waker decided; EINTR and EAGAIN      *)
(* only while its operation is still pending, hence not performed.         *)
HonestResults ==
    [][\A p \in Tasks : pc[p] \in {"result", "recheck"} /\ pc'[p] = "ret" =>
          IF \E a \in Arrays : p \in Pending(a)
          THEN res'[p] \in {"EINTR", "EAGAIN"} /\ \A a \in Arrays : p \notin Pending(a)'
          ELSE res'[p] = outcome[p]]_vars

(* Sum over the undo structures of set a of the adjustments of n.          *)
SumAdj(a, n) == MapThenSumSet(LAMBDA u : un[u][a].semadj[n], list_id[a])

(* Set a can be operated on.                                               *)
Usable(a) == mem[a] = "live" /\ ~deleted[a]

(* Nothing taken with SEM_UNDO is lost or given back twice: where all      *)
(* operations have SEM_UNDO and no set is removed, the value of a          *)
(* semaphore and what exit_sem() will give back keep their sum in every    *)
(* step of semop(), find_alloc_undo(), clone() and exit_sem(); SETVAL and  *)
(* SETALL, which clear the adjustments, make it a value they store.        *)
NoLostUnits ==
    [][\A a \in Arrays : Usable(a) /\ Usable(a)' =>
          \A n \in Sems :
             \/ (semval[a][n] + SumAdj(a, n))' = semval[a][n] + SumAdj(a, n)
             \/ /\ \E c \in Ctls : /\ sma[c] = a /\ cmd[c] \in {"SETVAL", "SETALL"}
                                   /\ pc[c] # "smart" /\ pc'[c] = "smart"
                /\ (semval[a][n] + SumAdj(a, n))' \in SetVals]_vars

(* Set a is in the hands of freeary().                                     *)
Freeing(a) == \E c \in Ctls : pc[c] \in {"fundo", "funlink"} /\ sma[c] = a

(* The undo structure of an operation that is pending, or being performed, *)
(* is alive, linked, and belongs to the very set the operation is for,     *)
(* though ids are used again ("semid identifiers are not unique"); only    *)
(* freeary(), which lets every pending operation fail, unlinks it before.  *)
UndoOfOwnSet ==
    \A p \in Tasks : \A a \in Arrays :
        /\ undo[p].set # NoArr
        /\ ~Freeing(a)
        /\ p \in Pending(a) \/ (cmd[p] = "SEMOP" /\ pc[p] \in {"smart", "scan"} /\ sma[p] = a)
        => undo[p].set = a /\ un[undo[p].list][a].mem = "live" /\ undo[p].list \in list_id[a]

(* A set and an undo list agree on the structures they share, except while *)
(* freeary() is between its two unlinks; and types hold (the range of      *)
(* semadj by the width of a short alone, which a sum may wrap around).     *)
UndoListsAgree ==
    /\ TypeOK
    /\ \A u \in Tasks, a \in Arrays :
          /\ u \in list_id[a] => a \in ToSet(list_proc[u]) /\ un[u][a].valid
          /\ a \in ToSet(list_proc[u]) /\ u \notin list_id[a] =>
                \E p \in Ctls : pc[p] = "funlink" /\ undo[p] = [list |-> u, set |-> a]

(* Labels of tasks with a reference to a set only, and of those at         *)
(* wake_up_sem_queue_do().                                                 *)
Referring == {"ualloc", "copyin", "put"}
WakingUp  == {"wake", "set"}
Holders(a) == {p \in Procs : pc[p] \in Referring /\ sma[p] = a}

(* A set in the namespace, or one that freeary() has not yet accounted for. *)
Counted(a) ==
    /\ mem[a] = "live"
    /\ ~deleted[a] \/ \E p \in Ctls : cmd[p] = "RMID" /\ sma[p] = a /\ pc[p] \in WakingUp

(* The count of a set covers those who hold a reference: freeary() until   *)
(* its putref, find_alloc_undo() and SETALL while they are unlocked.       *)
ReferencesCovered ==
    \A a \in Arrays : Holders(a) # {} \/ Counted(a) =>
        /\ mem[a] = "live"
        /\ refcount[a] >= Cardinality(Holders(a)) + (IF Counted(a) THEN 1 ELSE 0)

(* Memory.  Who looks at a set, or waits for its lock, finds it not freed; *)
(* whoever left the lock with a reference only still owns it; and the undo *)
(* structure semtimedop() has looked up is not freed before it has the     *)
(* lock.  Not said of exit_sem(): at sem.c:1600 (exit_reread) it reads     *)
(* un->semid after rcu_read_unlock(), when free_un() may have run.         *)
NoUseAfterFree ==
    /\ ReferencesCovered
    /\ \A p \in Procs :
          /\ pc[p] \in {"ulock", "lock", "relock", "recheck", "clock", "xlock", "smart", "scan",
                        "ualloc", "copyin", "fundo", "funlink", "put"} => mem[sma[p]] # "freed"
          /\ pc[p] \in {"find", "lock"} /\ undo[p].set # NoArr =>
                un[undo[p].list][undo[p].set].mem # "freed"

(* used_sems is what the sets in the namespace, and those freeary() has    *)
(* not yet accounted for, amount to; hence never above sc_semmns.          *)
UsedSems ==
    /\ used_sems = Cardinality(Sems) * Cardinality({a \in Arrays : Counted(a)})
    /\ used_sems <= sc_semmns

(* "Each task has a list of undo requests. They are executed automatically *)
(* when the process exits."                                                *)
ExitUndoes ==
    \A u \in Tasks : ulp[u] = "freed" =>
        \A a \in ToSet(list_proc[u]) : ~un[u][a].valid

(* IPC_RMID sends every sleeper home.                                      *)
RmidReleasesAll ==
    \A p \in Tasks : (pc[p] \in QueuePcs /\ deleted[sma[p]]) ~> (pc[p] = "idle")

(* A signal ends the sleep of a task, whoever else is waking it up.        *)
SignalReleases ==
    \A p \in Tasks : (pc[p] = "sleep" /\ p \in sig) ~> (pc[p] = "idle")

(* A sleep ends when the code promises it, whoever else is waking the task *)
(* up: after IPC_RMID and after a signal.                                  *)
SleepersReleased == RmidReleasesAll /\ SignalReleases

(* No task keeps the lock of a set: not the walk of update_queue(), not    *)
(* the busy wait of a woken task with the lock.                            *)
LockReleased ==
    \A a \in Arrays : (lock[a] # NoProc) ~> (lock[a] = NoProc)

(* An exiting task dies.                                                   *)
ExitEnds ==
    \A p \in Tasks : (pc[p] = "xread") ~> (pc[p] = "dead")
-----------------------------------------------------------------------------
(* The inductive invariant, part one: locks, memory, references, undo      *)
(* lists.  It needs nothing of the pending operations.                     *)

Holding == {"recheck", "smart", "scan", "fundo", "funlink"}   \* the lock of the set
Waiting == {"ulock", "lock", "relock", "clock", "xlock"}      \* for it, under RCU

(* Types, without the bounds that follow from what is counted.             *)
TypeInv ==
    /\ mem \in [Arrays -> Mems] /\ refcount \in [Arrays -> Int]
    /\ deleted \in [Arrays -> BOOLEAN] /\ lock \in [Arrays -> Procs \cup {NoProc}]
    /\ semval \in [Arrays -> Values] /\ sem_pending \in [Arrays -> Seq(Tasks)]
    /\ complex_count \in [Arrays -> Int] /\ list_id \in [Arrays -> SUBSET Tasks]
    /\ idr \in [Slots -> Arrays \cup {NoArr}] /\ used_sems \in Int
    /\ rw_mutex \in Ctls \cup {NoProc}
    /\ readers \subseteq Procs /\ grace \in [Arrays -> SUBSET Procs]
    /\ undo_list \in [Tasks -> Tasks \cup {NoProc}]
    /\ ulp \in [Tasks -> {"none", "live", "freed"}] /\ refcnt \in [Tasks -> Int]
    /\ ulp_lock \in [Tasks -> Ctls \cup {NoProc}] /\ list_proc \in [Tasks -> Seq(Arrays)]
    /\ un \in [Tasks -> [Arrays ->
                 [mem : Mems, valid : BOOLEAN, semadj : Adjs, grace : SUBSET Procs]]]
    /\ pc \in [Procs -> Labels] /\ sops \in [Procs -> SopSeqs \cup {<<>>}]
    /\ cmd \in [Procs -> Cmds \cup {"none", "SEMOP", "EXIT"}]
    /\ semid \in [Procs -> Ids] /\ sma \in [Procs -> Arrays \cup {NoArr}]
    /\ undo \in [Procs -> [list : Tasks \cup {NoProc}, set : Arrays \cup {NoArr}]]
    /\ status \in [Procs -> Errors \cup {"IN_WAKEUP"}] /\ outcome \in [Procs -> Errors]
    /\ state \in [Procs -> {"RUN", "INT"}] /\ sig \subseteq Tasks /\ timedout \subseteq Tasks
    /\ tasks \in [Procs -> Seq(Tasks)] /\ idx \in [Procs -> Nat]
    /\ semnum \in [Procs -> Sems \cup {-1}] /\ walk \in [Procs -> Nat]
    /\ ref \in [Procs -> Int]

(* The labels of each call.                                                *)
StepsOf(c) ==
    IF c = "none" THEN {"unborn", "idle"}
    ELSE IF c = "SEMOP" THEN {"undo", "ufind", "ulock", "ualloc", "find", "lock", "ret",
                              "smart", "scan"} \cup QueuePcs \cup WakingUp
    ELSE IF c = "EXIT" THEN {"xread", "xfind", "xlock", "smart", "scan", "dead"} \cup WakingUp
    ELSE IF c = "RMID" THEN {"cfind", "clock", "fundo", "funlink", "put", "ret"} \cup WakingUp
    ELSE IF c = "GETALL" THEN {"cfind", "clock", "copyin", "ret"}
    ELSE IF c = "SETALL" THEN {"cfind", "clock", "copyin", "smart", "scan", "ret"} \cup WakingUp
    ELSE {"cfind", "clock", "smart", "scan", "ret"} \cup WakingUp

(* Every label belongs to its call, and the locals it needs are set.       *)
CallAt(p) ==
    /\ pc[p] \in StepsOf(cmd[p])
    /\ cmd[p] \in {"SEMOP", "EXIT"} => p \in Tasks
    /\ cmd[p] \in Cmds => p \in Ctls
    /\ cmd[p] = "SEMOP" <=> sops[p] # <<>>
    /\ pc[p] \in Waiting \cup Holding \cup Referring \cup WakingUp => sma[p] \in Arrays
    /\ pc[p] = "scan" => walk[p] >= 1
    /\ pc[p] = "set" => tasks[p] # <<>>
    /\ pc[p] \notin {"smart", "scan"} \cup WakingUp => tasks[p] = <<>>
CallInv == \A p \in Procs : CallAt(p)

(* Who holds the lock of a set, of an undo list, and rw_mutex.             *)
SetLocks  == \A p \in Procs, a \in Arrays : lock[a] = p <=> pc[p] \in Holding /\ sma[p] = a
ListLocks == \A p \in Procs, u \in Tasks : ulp_lock[u] = p <=> pc[p] = "funlink" /\ undo[p].list = u
Unlinking == \A p \in Procs : pc[p] = "funlink" => undo[p].set = sma[p] /\ undo[p].list \in Tasks
Removing  == \A p \in Procs : cmd[p] = "RMID" /\ pc[p] # "ret" => rw_mutex = p
LockInv   == SetLocks /\ ListLocks /\ Unlinking /\ Removing

(* A set is in the table from its creation to its removal.                 *)
SetLife ==
    \A a \in Arrays :
        /\ mem[a] = "none" => ~deleted[a]
        /\ ~deleted[a] => mem[a] \in {"none", "live"}
InTable   == \A a \in Arrays : mem[a] = "live" /\ ~deleted[a] => idr[IdOf[a][1]] = a
HasUndos  == \A a \in Arrays : list_id[a] # {} => mem[a] = "live" /\ ~deleted[a]
TableSets == \A s \in Slots : idr[s] # NoArr =>
                 mem[idr[s]] = "live" /\ ~deleted[idr[s]] /\ IdOf[idr[s]][1] = s
HeldSets  == \A p \in Procs : pc[p] \in Holding => ~deleted[sma[p]]
GoneSets  ==
    \A p \in Procs : cmd[p] = "RMID" =>
        /\ pc[p] \in WakingUp => mem[sma[p]] = "live"
        /\ pc[p] \in WakingUp \cup {"put"} => deleted[sma[p]]
SetInv == SetLife /\ InTable /\ HasUndos /\ TableSets /\ HeldSets /\ GoneSets

(* The value freeary() has loaded covers the others, too.                  *)
RefNat == \A a \in Arrays : refcount[a] >= 0
Loaded == \A p \in Procs : pc[p] = "put" => ref[p] >= Cardinality(Holders(sma[p]))
RefInv == ReferencesCovered /\ RefNat /\ Loaded

(* Readers keep what they found: it is not freed before they leave.        *)
Kept(p, m, g) == p \in readers /\ (m = "live" \/ (m = "rcu" /\ p \in g))
KeptSets == \A p \in Procs : pc[p] \in Waiting \cup Holding => Kept(p, mem[sma[p]], grace[sma[p]])
KeptUndo ==
    \A p \in Procs : pc[p] \in {"find", "lock"} /\ undo[p].set # NoArr =>
        Kept(p, un[undo[p].list][undo[p].set].mem, un[undo[p].list][undo[p].set].grace)
RcuInv == KeptSets /\ KeptUndo

(* Who uses which undo list: the count, and that nobody does when its last *)
(* user works it off, or before it is allocated.                           *)
Users(u)  == {q \in Tasks : undo_list[q] = u}
UserCount == \A u \in Tasks : refcnt[u] = Cardinality(Users(u))
ExitList  ==
    \A p \in Tasks :
        /\ cmd[p] = "EXIT" \/ pc[p] = "unborn" => undo_list[p] = NoProc
        /\ cmd[p] = "EXIT" /\ pc[p] # "dead" => undo[p].list \in Tasks /\ Users(undo[p].list) = {}
FreshList ==
    \A p \in Tasks : cmd[p] # "EXIT" /\ undo_list[p] = NoProc =>
        Users(p) = {} /\ \A q \in Tasks : cmd[q] = "EXIT" => undo[q].list # p
OwnList   ==
    \A p \in Tasks :
        /\ pc[p] \in {"ufind", "ulock", "ualloc"} => undo_list[p] # NoProc
        /\ cmd[p] = "SEMOP" /\ undo[p].set # NoArr => undo[p].list = undo_list[p]
        /\ undo[p].set # NoArr => undo[p].list \in Tasks
        /\ cmd[p] = "none" => undo[p] = NoUndo
ListInv == UserCount /\ ExitList /\ FreshList /\ OwnList

(* An undo structure on its lists is alive; freeary() unlinks it in two    *)
(* steps, exit_sem() in one; that of a semop() is on its lists as long as  *)
(* it is valid.                                                            *)
OnceLinked == \A u \in Tasks : IsInjective(list_proc[u])
LinkedLive == \A u \in Tasks, a \in Arrays : a \in ToSet(list_proc[u]) => un[u][a].mem = "live"
BothLists  ==
    \A u \in Tasks, a \in Arrays : u \in list_id[a] => a \in ToSet(list_proc[u]) /\ un[u][a].valid
OneList    ==
    \A u \in Tasks, a \in Arrays : a \in ToSet(list_proc[u]) /\ u \notin list_id[a] =>
        \E p \in Ctls : pc[p] = "funlink" /\ undo[p] = [list |-> u, set |-> a]
Unlinked   ==
    \A p \in Procs :
        /\ pc[p] = "funlink" => /\ undo[p].list \notin list_id[undo[p].set]
                                /\ ~un[undo[p].list][undo[p].set].valid
        /\ cmd[p] = "EXIT" /\ pc[p] \in {"smart", "scan"} \cup WakingUp =>
             undo[p].set \in Arrays /\ undo[p].set \notin ToSet(list_proc[undo[p].list])
OwnUndo    ==
    \A p \in Procs :
        /\ cmd[p] = "SEMOP" /\ undo[p].set # NoArr =>
             /\ IdOf[undo[p].set] = semid[p]
             /\ un[undo[p].list][undo[p].set].valid => undo[p].list \in list_id[undo[p].set]
             /\ pc[p] \in {"smart", "scan"} =>
                  undo[p].set = sma[p] /\ un[undo[p].list][undo[p].set].valid
        /\ pc[p] = "ualloc" => IdOf[sma[p]] = semid[p]
LinkInv == OnceLinked /\ LinkedLive /\ BothLists /\ OneList /\ Unlinked /\ OwnUndo

IInv ==
    /\ TypeInv /\ CallInv /\ LockInv /\ SetInv /\ RefInv /\ RcuInv /\ ListInv /\ LinkInv
    /\ UsedSems

-----------------------------------------------------------------------------
(* Part two: the pending operations.  A sleeper that a signal or a timeout *)
(* has started returns although its waker still has it on its list, if the *)
(* set is removed meanwhile; the rest holds where that cannot happen.      *)
SafeWakeups == "RMID" \notin Cmds \/ Signalled \cup Timed = {}

(* Why it cannot: sets stay, or whoever wakes up has been woken.           *)
SetsStay ==
    "RMID" \notin Cmds =>
        /\ \A a \in Arrays : ~deleted[a]
        /\ \A p \in Procs : pc[p] \in QueuePcs => idr[semid[p][1]] # NoArr
NobodyEarly ==
    Signalled \cup Timed = {} =>
        /\ sig = {}
        /\ \A p \in Procs :
             /\ pc[p] \notin {"rfind", "relock", "recheck"}
             /\ pc[p] = "result" \/ (pc[p] = "sleep" /\ state[p] = "RUN") => status[p] # "EINTR"

(* A pending operation is for the set whose list it is on, and the undo    *)
(* structure is that set's.                                                *)
OneSet      == \A p \in Tasks : \A a, b \in Arrays : p \in Pending(a) /\ p \in Pending(b) => a = b
PendingHere ==
    \A a \in Arrays : \A q \in Pending(a) :
        /\ mem[a] = "live" /\ ~deleted[a] /\ semid[q] = IdOf[a]
        /\ pc[q] \in {"relock", "recheck"} => sma[q] = a
        /\ undo[q].set # NoArr => undo[q].set = a
PendingUndo ==
    \A a \in Arrays : \A q \in Pending(a) :
        undo[q].set # NoArr /\ ~Freeing(a) => undo[q].list \in list_id[a]

(* A task woken up is on one list of one waker, and gets its result.       *)
OnceWoken   == \A p \in Procs : IsInjective(tasks[p])
OneWaker    == \A p, q \in Procs : \A t \in Tasks : t \in ToSet(tasks[p]) /\ t \in ToSet(tasks[q]) => p = q
ResultsKept ==
    \A p \in Procs : pc[p] \in QueuePcs =>
        /\ status[p] # "EINTR" => outcome[p] # "EINTR"
        /\ status[p] \notin {"EINTR", "IN_WAKEUP"} => status[p] = outcome[p]

(* The value freeary() has loaded is a count; every task has a result.     *)
LoadedNat == DOMAIN res = Procs /\ \A p \in Procs : ref[p] >= 0

QInv ==
    /\ QueueAgrees /\ SetsStay /\ NobodyEarly /\ OneSet /\ PendingHere /\ PendingUndo
    /\ WakeupHitsLiveQueue /\ OnceWoken /\ OneWaker /\ ResultsKept /\ LoadedNat
=============================================================================
