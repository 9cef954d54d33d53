-------------------------------- MODULE Shm --------------------------------
(***************************************************************************)
(* System V shared memory (ipc/shm.c) of one IPC namespace, over the table *)
(* of ids of ipc/util.c: shmget(), shmat(), shmdt(), IPC_RMID, SHM_LOCK    *)
(* and what the memory manager does to a mapping behind the back of the    *)
(* segment: a vma is split, unmapped in parts, copied by fork() and closed *)
(* by exit().                                                              *)
(*                                                                         *)
(* What runs under a segment's spin lock is one step.  A step that needs   *)
(* shm_ids.rw_mutex waits until it is free; only shm_destroy() keeps it    *)
(* over two steps, for the second half runs without the spin lock.         *)
(***************************************************************************)
EXTENDS Integers, Sequences, FiniteSets, FiniteSetsExt

CONSTANTS
    Tasks,
    Started,      \* the threads of the first process
    MmOf,         \* the address space of each thread
    UserOf,       \* current_user()
    Scenarios,    \* bound: which tasks make which call, which segments they ask for, how many
    Keys,         \* beside IPC_PRIVATE
    PAGE_SIZE,
    shm_ctlmax, shm_ctlall, shm_ctlmni,
    IPCMNI,       \* SEQ_MULTIPLIER
    seq_max,
    MEMLOCK,      \* RLIMIT_MEMLOCK in pages
    Files,        \* struct file objects of attaches
    MaxFrag,      \* bound: vmas of one file in one address space
    IPC_PRIVATE, NoSeg, NoFile, NoTask, NoUser

Mms   == {MmOf[t] : t \in Tasks}
Users == {UserOf[t] : t \in Tasks}
Index == 0 .. (IPCMNI - 1)

Calls == {"shmget", "rmid", "lock", "shmat", "munmap", "split", "fork", "unshare"}

(* The fields of a shmid_kernel that count here, with the identity born,   *)
(* and of the shm_file_data of a file.                                     *)
SegmentRecord ==
    [born : Nat, seq : Nat, id : Nat, key : Keys \cup {IPC_PRIVATE}, size : Nat, nattch : Int,
     mode : SUBSET {"DEST", "LOCKED"}, huge : BOOLEAN, vm_locked : BOOLEAN,
     mlock_user : Users \cup {NoUser}]
FileRecord == [id : Nat, born : Nat]

ASSUME ShmConstants ==
    /\ Started \subseteq Tasks /\ Started # {}
    /\ IPC_PRIVATE \notin Keys /\ NoTask \notin Tasks /\ NoUser \notin Users
    /\ \A s \in Scenarios :
         /\ \A call \in Calls : s[call] \subseteq Tasks
         /\ s.sizes \subseteq Nat /\ s.huge \subseteq BOOLEAN   \* bytes; SHM_HUGETLB
         /\ s.born \in Nat                                       \* segments ever created
    /\ PAGE_SIZE \in Nat \ {0}
    /\ {shm_ctlmax, shm_ctlall, shm_ctlmni, seq_max, MEMLOCK, MaxFrag} \subseteq Nat
    /\ IPCMNI \in Nat \ {0} /\ Files \subseteq Nat
    /\ IsFiniteSet(Tasks) /\ IsFiniteSet(Files) /\ NoFile \notin Files
    /\ NoSeg \notin SegmentRecord /\ NoFile \notin FileRecord

VARIABLES
    \* struct ipc_namespace
    seg,          \* ids.ipcs_idr
    in_use, ids_seq,
    shm_tot,
    rw_mutex,     \* its writer
    nscount, members,   \* ns->count; tasks whose nsproxy has the namespace
    locked_shm,   \* of every user_struct
    \* address spaces and files
    vmas,         \* how many vmas of a file an address space has
    mmap_sem,
    file,         \* sfd of the file
    \* tasks
    pc,
    at,           \* do_shmat(): the id it was given, the segment it found, its file
    job,          \* vmas taken out of an address space and not yet closed
    cur,          \* the file of the vma just closed
    then,         \* where the task goes when the job is done
    child,        \* fork()
    dying,        \* the segment shm_destroy() has unlinked
    ret,          \* where shm_destroy() returns to
    ids,          \* history: every id given out
    may           \* the scenario: fixed at the start

nsv   == <<nscount, members>>
mmv   == <<vmas, mmap_sem>>
jobv  == <<job, cur, then>>
dyv   == <<dying, ret>>
idsv  == <<seg, in_use, shm_tot>>
vars  == <<idsv, ids_seq, rw_mutex, nsv, locked_shm, mmv, file, pc, at, jobv, child, dyv, ids, may>>

NoJob == [f \in Files |-> 0]
NoAt  == [id |-> 0, born |-> 0, f |-> NoFile]

-----------------------------------------------------------------------------
Goto(t, l) == pc' = [pc EXCEPT ![t] = l]

Live == {i \in Index : seg[i] # NoSeg}

Pages(size) == (size + PAGE_SIZE - 1) \div PAGE_SIZE

(* ids.h: the id carries the sequence number, the table does not.          *)
ipc_buildid(i, seq) == IPCMNI * seq + i
ipcid_to_idx(id) == id % IPCMNI
ipc_checkid(i, id) == id \div IPCMNI # seg[i].seq

(* ipc_lock(): whatever is in the slot; ipc_lock_check(): the very object. *)
shm_lock(id) == seg[ipcid_to_idx(id)]
shm_lock_check(id) ==
    ipcid_to_idx(id) \in Live /\ ~ipc_checkid(ipcid_to_idx(id), id)

ShmIds == {ipc_buildid(i, s) : i \in Index, s \in 0 .. seq_max}

(* Mutant: the sequence number wraps one early.                            *)
next_seq_early(s) == IF s + 1 >= seq_max THEN 0 ELSE s + 1

next_seq(s) == IF s + 1 > seq_max THEN 0 ELSE s + 1

user_shm_lock(u, size) == locked_shm[u] + Pages(size) <= MEMLOCK

(* What the segment has charged to u, as shm_destroy() gives it back.      *)
Charge(shp, u) ==
    IF shp # NoSeg /\ shp.mlock_user = u /\ (shp.vm_locked \/ shp.huge)
    THEN Pages(shp.size) ELSE 0

(* What it takes of shm_tot.                                               *)
Weight(shp) == IF shp # NoSeg THEN Pages(shp.size) ELSE 0

(* The vmas of file f, those being closed included.                        *)
FileVmas(f) ==
    SumFunction([m \in Mms |-> vmas[m][f]]) + SumFunction([t \in Tasks |-> job[t][f]])

(* References to a file: its vmas, the vma just closed, the call that made *)
(* it.                                                                     *)
FileRefs(f) ==
    FileVmas(f) + Cardinality({t \in Tasks : cur[t] = f})
                + Cardinality({t \in Tasks : at[t].f = f})

get_ipc_ns == nscount' = nscount + 1

(* put_ipc_ns(): the last reference frees the namespace, and shm_exit_ns() *)
(* runs do_shm_rmid() on every segment it finds.                           *)
put_ipc_ns ==
    LET gone == {i \in Live : seg[i].nattch = 0}
    IN  /\ nscount' = nscount - 1
        /\ IF nscount > 1 THEN UNCHANGED <<idsv, locked_shm>>
           ELSE /\ seg' = [i \in Index |->
                            IF i \in gone THEN NoSeg
                            ELSE IF i \in Live THEN [seg[i] EXCEPT !.key = IPC_PRIVATE,
                                                                   !.mode = @ \cup {"DEST"}]
                            ELSE NoSeg]
                /\ in_use' = in_use - Cardinality(gone)
                /\ shm_tot' = shm_tot - SumFunction([i \in gone |-> Weight(seg[i])])
                /\ locked_shm' = [u \in Users |-> locked_shm[u]
                                     - SumFunction([i \in gone |-> Charge(seg[i], u)])]

(* First half of shm_destroy(), under both locks.                          *)
shm_destroy(t, i, shp, back) ==
    /\ shm_tot' = shm_tot - Pages(shp.size)
    /\ seg' = [seg EXCEPT ![i] = NoSeg]
    /\ in_use' = in_use - 1
    /\ rw_mutex' = t
    /\ dying' = [dying EXCEPT ![t] = shp]
    /\ ret' = [ret EXCEPT ![t] = back]
    /\ Goto(t, "destroy")

(* Mutant: a doomed segment is left to the next one to look.               *)
put_attach_only(t, i, back) ==
    /\ seg' = [seg EXCEPT ![i].nattch = @ - 1]
    /\ Goto(t, back)
    /\ UNCHANGED <<in_use, shm_tot, rw_mutex, dyv>>

(* The end of do_shmat() and shm_close(): one attach less, and the last    *)
(* one out destroys a doomed segment.                                      *)
put_attach(t, i, back) ==
    LET shp == [seg[i] EXCEPT !.nattch = @ - 1]
    IN  IF shp.nattch = 0 /\ "DEST" \in shp.mode
        THEN shm_destroy(t, i, shp, back)
        ELSE /\ seg' = [seg EXCEPT ![i] = shp]
             /\ Goto(t, back)
             /\ UNCHANGED <<in_use, shm_tot, rw_mutex, dyv>>

(* The second half: the pages are unlocked, rw_mutex is released.          *)
shm_destroy_end(t) ==
    /\ pc[t] = "destroy"
    /\ locked_shm' = [u \in Users |-> locked_shm[u] - Charge(dying[t], u)]
    /\ dying' = [dying EXCEPT ![t] = NoSeg]
    /\ rw_mutex' = NoTask
    /\ Goto(t, ret[t])
    /\ ret' = [ret EXCEPT ![t] = "user"]
    /\ UNCHANGED <<idsv, ids_seq, nsv, mmv, file, at, jobv, child, ids>>

-----------------------------------------------------------------------------
Init ==
    /\ seg = [i \in Index |-> NoSeg] /\ in_use = 0 /\ ids_seq = 0 /\ shm_tot = 0
    /\ rw_mutex = NoTask /\ nscount = 1
    /\ members = Started
    /\ pc = [t \in Tasks |-> IF t \in Started THEN "user" ELSE "dead"]
    /\ locked_shm = [u \in Users |-> 0]
    /\ vmas = [m \in Mms |-> NoJob] /\ mmap_sem = [m \in Mms |-> NoTask]
    /\ file = [f \in Files |-> NoFile]
    /\ at = [t \in Tasks |-> NoAt]
    /\ job = [t \in Tasks |-> NoJob] /\ cur = [t \in Tasks |-> NoFile]
    /\ then = [t \in Tasks |-> "user"] /\ child = [t \in Tasks |-> NoTask]
    /\ dying = [t \in Tasks |-> NoSeg] /\ ret = [t \in Tasks |-> "user"]
    /\ ids = <<>> /\ may \in Scenarios

(* ipc_findkey().                                                          *)
ipc_findkey(key) == {i \in Live : seg[i].key = key}

(* shmget() that creates a segment: ipcget_new() or ipcget_public(),       *)
(* newseg(), ipc_addid().  A refused call changes nothing.                 *)
shmget(t, key, size, huge) ==
    /\ pc[t] = "user" /\ t \in members
    /\ rw_mutex = NoTask
    /\ key # IPC_PRIVATE => ipc_findkey(key) = {}
    /\ size \in 1 .. shm_ctlmax
    /\ shm_tot + Pages(size) <= shm_ctlall
    /\ in_use < Min({shm_ctlmni, IPCMNI})
    /\ huge => user_shm_lock(UserOf[t], size)
    /\ Len(ids) < may.born
    /\ LET i == Min(Index \ Live)
       IN  /\ seg' = [seg EXCEPT ![i] =
                [born |-> Len(ids) + 1, seq |-> ids_seq, id |-> ipc_buildid(i, ids_seq),
                 key |-> key, size |-> size, nattch |-> 0, mode |-> {}, huge |-> huge,
                 vm_locked |-> FALSE,
                 mlock_user |-> IF huge THEN UserOf[t] ELSE NoUser]]
           /\ ids' = Append(ids, ipc_buildid(i, ids_seq))
    /\ locked_shm' = IF huge THEN [locked_shm EXCEPT ![UserOf[t]] = @ + Pages(size)]
                     ELSE locked_shm
    /\ in_use' = in_use + 1
    /\ ids_seq' = next_seq(ids_seq)
    /\ shm_tot' = shm_tot + Pages(size)
    /\ UNCHANGED <<rw_mutex, nsv, mmv, file, pc, at, jobv, child, dyv>>

(* do_shm_rmid(): an attached segment is only doomed.                      *)
do_shm_rmid(t, i) ==
    IF seg[i].nattch > 0
    THEN /\ seg' = [seg EXCEPT ![i].mode = @ \cup {"DEST"}, ![i].key = IPC_PRIVATE]
         /\ UNCHANGED <<in_use, shm_tot, rw_mutex, dyv, pc>>
    ELSE shm_destroy(t, i, seg[i], "user")

(* shmctl(IPC_RMID).                                                       *)
shmctl_rmid(t, id) ==
    /\ pc[t] = "user" /\ t \in members
    /\ rw_mutex = NoTask
    /\ shm_lock_check(id)
    /\ do_shm_rmid(t, ipcid_to_idx(id))
    /\ UNCHANGED <<ids_seq, nsv, locked_shm, mmv, file, at, jobv, child, ids>>

(* Mutant: the last user to lock owns the charge.                          *)
locked_by_last(shp, u) == [shp EXCEPT !.vm_locked = TRUE, !.mode = @ \cup {"LOCKED"},
                                      !.mlock_user = u]

(* mode and mlock_user after shmem_lock(file, 1, user).                    *)
locked_by(shp, u) ==
    IF "LOCKED" \in shp.mode THEN shp
    ELSE [shp EXCEPT !.vm_locked = TRUE, !.mode = @ \cup {"LOCKED"}, !.mlock_user = u]

(* shmctl(SHM_LOCK): user_shm_lock() unless the pages are locked already.  *)
shmctl_lock(t, id) ==
    /\ pc[t] = "user" /\ t \in members
    /\ shm_lock_check(id)
    /\ LET i == ipcid_to_idx(id)
           u == UserOf[t]
       IN  /\ ~seg[i].huge
           /\ seg[i].vm_locked \/ user_shm_lock(u, seg[i].size)
           /\ seg' = [seg EXCEPT ![i] = locked_by(@, u)]
           /\ locked_shm' = [locked_shm EXCEPT ![u] =
                                @ + IF seg[i].vm_locked THEN 0 ELSE Pages(seg[i].size)]
    /\ UNCHANGED <<in_use, shm_tot, ids_seq, rw_mutex, nsv, mmv, file, pc, at, jobv, child,
                   dyv, ids>>

(* ...and after shmem_lock(file, 0, mlock_user).                           *)
unlocked(shp) ==
    [shp EXCEPT !.vm_locked = @ /\ shp.mlock_user = NoUser, !.mode = @ \ {"LOCKED"},
                !.mlock_user = NoUser]

(* shmctl(SHM_UNLOCK).                                                     *)
shmctl_unlock(t, id) ==
    /\ pc[t] = "user" /\ t \in members
    /\ shm_lock_check(id)
    /\ LET i == ipcid_to_idx(id)
       IN  /\ ~seg[i].huge
           /\ locked_shm' = [u \in Users |-> locked_shm[u] - Charge(seg[i], u)]
           /\ seg' = [seg EXCEPT ![i] = unlocked(seg[i])]
    /\ UNCHANGED <<in_use, shm_tot, ids_seq, rw_mutex, nsv, mmv, file, pc, at, jobv, child,
                   dyv, ids>>

-----------------------------------------------------------------------------
(* shmat().                                                                *)

(* Mutant: the segment is not held while do_shmat() runs without its lock. *)
shmat_find_unpinned(t, id) ==
    /\ pc[t] = "user" /\ t \in members
    /\ shm_lock_check(id)
    /\ at' = [at EXCEPT ![t] = [id |-> id, born |-> shm_lock(id).born, f |-> NoFile]]
    /\ Goto(t, "alloc")
    /\ UNCHANGED <<idsv, ids_seq, rw_mutex, nsv, locked_shm, mmv, file, jobv, child, dyv, ids>>

(* do_shmat() up to shm_unlock(): shm_nattch holds the segment.            *)
shmat_find(t, id) ==
    /\ pc[t] = "user" /\ t \in members
    /\ shm_lock_check(id)
    /\ seg' = [seg EXCEPT ![ipcid_to_idx(id)].nattch = @ + 1]
    /\ at' = [at EXCEPT ![t] = [id |-> id, born |-> shm_lock(id).born, f |-> NoFile]]
    /\ Goto(t, "alloc")
    /\ UNCHANGED <<in_use, shm_tot, ids_seq, rw_mutex, nsv, locked_shm, mmv, file, jobv, child,
                   dyv, ids>>

(* The sfd and the file, filled from *shp without its lock.                *)
shmat_alloc(t) ==
    /\ pc[t] = "alloc"
    /\ \E f \in Files :
         /\ file[f] = NoFile /\ \A g \in Files : g < f => file[g] # NoFile
         /\ file' = [file EXCEPT ![f] = [id |-> shm_lock(at[t].id).id, born |-> at[t].born]]
         /\ at' = [at EXCEPT ![t].f = f]
    /\ get_ipc_ns
    /\ Goto(t, "map")
    /\ UNCHANGED <<idsv, ids_seq, rw_mutex, members, locked_shm, mmv, jobv, child, dyv, ids>>

(* kzalloc() or alloc_file() fails.                                        *)
shmat_nomem(t) ==
    /\ pc[t] = "alloc"
    /\ Goto(t, "out_nattch")
    /\ UNCHANGED <<idsv, ids_seq, rw_mutex, nsv, locked_shm, mmv, file, at, jobv, child, dyv, ids>>

(* Mutant: the new vma is not counted.                                     *)
shm_open_skipped(f) == seg' = seg

(* shm_open(): a new vma of file f, found by the slot of sfd->id.          *)
shm_open(f) == seg' = [seg EXCEPT ![ipcid_to_idx(file[f].id)].nattch = @ + 1]

(* do_mmap() under mmap_sem: shm_mmap() and shm_open().                    *)
shmat_map(t) ==
    LET m == MmOf[t]
        f == at[t].f
    IN  /\ pc[t] = "map"
        /\ mmap_sem[m] \in {NoTask, t}
        /\ vmas[m][f] < MaxFrag
        /\ shm_open(f)
        /\ vmas' = [vmas EXCEPT ![m][f] = @ + 1]
        /\ mmap_sem' = [mmap_sem EXCEPT ![m] = NoTask]
        /\ Goto(t, "fput")
        /\ UNCHANGED <<in_use, shm_tot, ids_seq, rw_mutex, nsv, locked_shm, file, at, jobv,
                       child, dyv, ids>>

(* The address is taken, or do_mmap() fails.                               *)
shmat_nomap(t) ==
    /\ pc[t] = "map"
    /\ mmap_sem[MmOf[t]] \in {NoTask, t}
    /\ mmap_sem' = [mmap_sem EXCEPT ![MmOf[t]] = NoTask]
    /\ Goto(t, "fput")
    /\ UNCHANGED <<idsv, ids_seq, rw_mutex, nsv, locked_shm, vmas, file, at, jobv, child, dyv, ids>>

(* fput() of one reference to f: the last one runs shm_release().          *)
fput(f) ==
    IF FileRefs(f) > 1 THEN UNCHANGED <<file, nscount, idsv, locked_shm>>
    ELSE file' = [file EXCEPT ![f] = NoFile] /\ put_ipc_ns

shmat_fput(t) ==
    /\ pc[t] = "fput"
    /\ fput(at[t].f)
    /\ at' = [at EXCEPT ![t].f = NoFile]
    /\ Goto(t, "out_nattch")
    /\ UNCHANGED <<ids_seq, rw_mutex, members, mmv, jobv, child, dyv, ids>>

(* out_nattch: the segment is looked up again, by its slot.                *)
shmat_out(t) ==
    /\ pc[t] = "out_nattch"
    /\ rw_mutex = NoTask
    /\ put_attach(t, ipcid_to_idx(at[t].id), "user")
    /\ at' = [at EXCEPT ![t] = NoAt]
    /\ UNCHANGED <<ids_seq, nsv, locked_shm, mmv, file, jobv, child, ids>>

-----------------------------------------------------------------------------
(* The memory manager.                                                     *)

(* t takes the vmas v out of address space m; next is where it goes after  *)
(* closing them.                                                           *)
Unmap(t, m, v, next) ==
    /\ vmas' = [vmas EXCEPT ![m] = [f \in Files |-> @[f] - v[f]]]
    /\ job' = [job EXCEPT ![t] = v]
    /\ then' = [then EXCEPT ![t] = next]
    /\ Goto(t, IF v = NoJob THEN next ELSE "close")

(* shmdt() unmaps every fragment of an attach, munmap() any of them; a     *)
(* shmat() with SHM_REMAP first unmaps what is in its way.                 *)
munmap(t, f, n) ==
    LET m == MmOf[t]
    IN  /\ pc[t] \in {"user", "map"}
        /\ mmap_sem[m] = NoTask
        /\ Unmap(t, m, [NoJob EXCEPT ![f] = n], pc[t])
        /\ mmap_sem' = [mmap_sem EXCEPT ![m] = t]
        /\ UNCHANGED <<idsv, ids_seq, rw_mutex, nsv, locked_shm, file, at, cur, child, dyv, ids>>

(* A vma is split: vm_ops->open of the new half.                           *)
split_vma(t, f) ==
    LET m == MmOf[t]
    IN  /\ pc[t] = "user"
        /\ mmap_sem[m] = NoTask
        /\ vmas[m][f] \in 1 .. (MaxFrag - 1)
        /\ shm_open(f)
        /\ vmas' = [vmas EXCEPT ![m][f] = @ + 1]
        /\ UNCHANGED <<in_use, shm_tot, ids_seq, rw_mutex, nsv, locked_shm, mmap_sem, file, pc,
                       at, jobv, child, dyv, ids>>

(* remove_vma(): vm_ops->close, then fput(vm_file).                        *)
shm_close(t) ==
    /\ pc[t] = "close"
    /\ rw_mutex = NoTask
    /\ \E f \in Files :
         /\ job[t][f] > 0
         /\ put_attach(t, ipcid_to_idx(file[f].id), "vm_fput")
         /\ job' = [job EXCEPT ![t][f] = @ - 1]
         /\ cur' = [cur EXCEPT ![t] = f]
    /\ UNCHANGED <<ids_seq, nsv, locked_shm, mmv, file, at, then, child, ids>>

vm_fput(t) ==
    LET m == MmOf[t]
        done == job[t] = NoJob
    IN  /\ pc[t] = "vm_fput"
        /\ fput(cur[t])
        /\ cur' = [cur EXCEPT ![t] = NoFile]
        /\ Goto(t, IF done THEN then[t] ELSE "close")
        /\ then' = IF done THEN [then EXCEPT ![t] = "user"] ELSE then
        /\ mmap_sem' = IF done /\ mmap_sem[m] = t /\ then[t] = "user"
                       THEN [mmap_sem EXCEPT ![m] = NoTask] ELSE mmap_sem
        /\ UNCHANGED <<ids_seq, rw_mutex, members, vmas, job, at, child, dyv, ids>>

InMm(t) == pc[t] \notin {"dead", "exit_ns"} /\ then[t] # "exit_ns"

(* fork(): dup_mmap() holds the parent's mmap_sem.                         *)
fork(t, c) ==
    /\ pc[t] = "user"
    /\ mmap_sem[MmOf[t]] = NoTask
    /\ \A u \in Tasks : MmOf[u] = MmOf[c] => pc[u] = "dead"
    /\ \A u \in Tasks : child[u] # c
    /\ mmap_sem' = [mmap_sem EXCEPT ![MmOf[t]] = t]
    /\ child' = [child EXCEPT ![t] = c]
    /\ Goto(t, "fork")
    /\ UNCHANGED <<idsv, ids_seq, rw_mutex, nsv, locked_shm, vmas, file, at, jobv, dyv, ids>>

(* One vma is copied, and opened.                                          *)
dup_mmap(t) ==
    LET m == MmOf[t]
        k == MmOf[child[t]]
    IN  /\ pc[t] = "fork"
        /\ \E f \in Files :
             /\ vmas[k][f] < vmas[m][f]
             /\ \A g \in Files : g < f => vmas[k][g] = vmas[m][g]
             /\ shm_open(f)
             /\ vmas' = [vmas EXCEPT ![k][f] = @ + 1]
        /\ UNCHANGED <<in_use, shm_tot, ids_seq, rw_mutex, nsv, locked_shm, mmap_sem, file, pc,
                       at, jobv, child, dyv, ids>>

fork_end(t) ==
    LET c == child[t]
    IN  /\ pc[t] = "fork"
        /\ vmas[MmOf[c]] = vmas[MmOf[t]]
        /\ pc' = [pc EXCEPT ![t] = "user", ![c] = "user"]
        /\ members' = IF t \in members THEN members \cup {c} ELSE members
        /\ mmap_sem' = [mmap_sem EXCEPT ![MmOf[t]] = NoTask]
        /\ child' = [child EXCEPT ![t] = NoTask]
        /\ UNCHANGED <<idsv, ids_seq, rw_mutex, nscount, locked_shm, vmas, file, at, jobv, dyv,
                       ids>>

(* Out of memory half way: mmput() closes the copies made so far.          *)
fork_nomem(t) ==
    /\ pc[t] = "fork"
    /\ Unmap(t, MmOf[child[t]], vmas[MmOf[child[t]]], "user")
    /\ mmap_sem' = [mmap_sem EXCEPT ![MmOf[t]] = NoTask]
    /\ child' = [child EXCEPT ![t] = NoTask]
    /\ UNCHANGED <<idsv, ids_seq, rw_mutex, nsv, locked_shm, file, at, cur, dyv, ids>>

(* exit_mm(): the last user of the address space closes its vmas.          *)
exit_mm(t) ==
    LET m == MmOf[t]
        last == \A u \in Tasks \ {t} : MmOf[u] = m => ~InMm(u)
    IN  /\ pc[t] = "user" /\ mmap_sem[m] = NoTask
        /\ Unmap(t, m, IF last THEN vmas[m] ELSE NoJob, "exit_ns")
        /\ UNCHANGED <<idsv, ids_seq, rw_mutex, nsv, locked_shm, mmap_sem, file, at, cur, child,
                       dyv, ids>>

(* The nsproxy of t no longer has the namespace.                           *)
LeaveNs(t) ==
    /\ members' = members \ {t}
    /\ IF members = {t} THEN put_ipc_ns ELSE UNCHANGED <<nscount, idsv, locked_shm>>

(* exit_task_namespaces().                                                 *)
exit_ns(t) ==
    /\ pc[t] = "exit_ns"
    /\ LeaveNs(t)
    /\ Goto(t, "dead")
    /\ then' = [then EXCEPT ![t] = "user"]
    /\ UNCHANGED <<ids_seq, rw_mutex, mmv, file, at, job, cur, child, dyv, ids>>

(* unshare(CLONE_NEWIPC): the attaches stay.                               *)
unshare(t) ==
    /\ pc[t] = "user" /\ t \in members
    /\ LeaveNs(t)
    /\ UNCHANGED <<ids_seq, rw_mutex, mmv, file, pc, at, jobv, child, dyv, ids>>

Stopped == (\A t \in Tasks : pc[t] = "dead") /\ UNCHANGED vars

-----------------------------------------------------------------------------
(* What a task does of its own will, and what a call it is in does next.   *)
Call(t) ==
    \/ /\ t \in may.shmget
       /\ \E key \in Keys \cup {IPC_PRIVATE}, size \in may.sizes, huge \in may.huge :
            shmget(t, key, size, huge)
    \/ t \in may.rmid /\ \E id \in ShmIds : shmctl_rmid(t, id)
    \/ t \in may.lock /\ \E id \in ShmIds : shmctl_lock(t, id) \/ shmctl_unlock(t, id)
    \/ t \in may.shmat /\ \E id \in ShmIds : shmat_find(t, id)
    \/ \E f \in Files :
         \/ t \in may.munmap /\ \E n \in 1 .. vmas[MmOf[t]][f] : munmap(t, f, n)
         \/ t \in may.split /\ split_vma(t, f)
    \/ t \in may.fork /\ \E c \in Tasks : fork(t, c)
    \/ t \in may.unshare /\ unshare(t)
    \/ exit_mm(t)

Step(t) ==
    \/ shmat_alloc(t) \/ shmat_nomem(t) \/ shmat_map(t) \/ shmat_nomap(t)
    \/ shmat_fput(t) \/ shmat_out(t) \/ shm_close(t) \/ vm_fput(t)
    \/ dup_mmap(t) \/ fork_end(t) \/ fork_nomem(t) \/ exit_ns(t) \/ shm_destroy_end(t)

Next == ((\E t \in Tasks : Call(t) \/ Step(t)) /\ UNCHANGED may) \/ Stopped

Spec == Init /\ [][Next]_vars

-----------------------------------------------------------------------------
Segment ==
    [born : 1 .. Len(ids), seq : 0 .. seq_max, id : Nat, key : Keys \cup {IPC_PRIVATE},
     size : 1 .. shm_ctlmax, nattch : Nat, mode : SUBSET {"DEST", "LOCKED"}, huge : BOOLEAN,
     vm_locked : BOOLEAN, mlock_user : Users \cup {NoUser}]

Labels == {"user", "dead", "alloc", "map", "fput", "out_nattch", "destroy", "close",
           "vm_fput", "fork", "exit_ns"}

(* Every counter of shm.c stays non-negative and every slot holds a        *)
(* segment or nothing.                                                     *)
TypeOK ==
    /\ seg \in [Index -> Segment \cup {NoSeg}]
    /\ in_use \in Nat /\ shm_tot \in Nat /\ ids_seq \in 0 .. seq_max
    /\ rw_mutex \in Tasks \cup {NoTask} /\ nscount \in Nat /\ members \subseteq Tasks
    /\ locked_shm \in [Users -> Nat]
    /\ vmas \in [Mms -> [Files -> 0 .. MaxFrag]]
    /\ mmap_sem \in [Mms -> Tasks \cup {NoTask}]
    /\ file \in [Files -> [id : Nat, born : 1 .. Len(ids)] \cup {NoFile}]
    /\ pc \in [Tasks -> Labels] /\ then \in [Tasks -> Labels] /\ ret \in [Tasks -> Labels]
    /\ job \in [Tasks -> [Files -> 0 .. MaxFrag]] /\ cur \in [Tasks -> Files \cup {NoFile}]
    /\ child \in [Tasks -> Tasks \cup {NoTask}]
    /\ dying \in [Tasks -> Segment \cup {NoSeg}]

(* The calls of do_shmat() under way for segment b.                        *)
Attaching(b) == {t \in Tasks : at[t] # NoAt /\ at[t].born = b}

(* The vmas of segment b.                                                  *)
Mappings(b) ==
    SumFunction([f \in Files |-> IF file[f] # NoFile /\ file[f].born = b THEN FileVmas(f) ELSE 0])

(* shm_nattch counts every vma of the segment and every do_shmat() under   *)
(* way, through splits, partial unmaps, forks that fail half way and exits *)
(* (shm_open, shm_close and do_shmat).                                     *)
AttachCount ==
    \A i \in Live : seg[i].nattch = Mappings(seg[i].born) + Cardinality(Attaching(seg[i].born))

(* A lookup by slot alone (shm_open, shm_close, the end of do_shmat) finds *)
(* the segment that was attached, never nothing (BUG_ON) and never another *)
(* segment that took over the slot; and *shp is not freed while do_shmat() *)
(* reads it without the lock.                                              *)
AttachmentsPin ==
    /\ \A t \in Tasks : at[t] # NoAt =>
          LET i == ipcid_to_idx(at[t].id) IN i \in Live /\ seg[i].born = at[t].born
    /\ \A f \in Files : FileVmas(f) > 0 =>
          LET i == ipcid_to_idx(file[f].id) IN i \in Live /\ seg[i].born = file[f].born

(* A doomed segment that nobody uses does not stay behind: the last detach *)
(* destroys it, whoever that is (shm_close, do_shmat).                     *)
NoDoomedLeft == \A i \in Live : "DEST" \in seg[i].mode => seg[i].nattch > 0

(* The namespace is freed only when no task and no file of an attach       *)
(* refers to it, and then leaves no segment and no charge behind.          *)
NsOutlivesUsers ==
    nscount = 0 => /\ members = {} /\ \A f \in Files : file[f] = NoFile
                   /\ Live = {} /\ shm_tot = 0

(* No segment is left behind where nobody can reach it: not a doomed one,  *)
(* not one of a namespace that is gone (shm_close, shm_release,            *)
(* shm_exit_ns).                                                           *)
NothingLeft == NoDoomedLeft /\ NsOutlivesUsers

(* shm_tot and in_use are the pages and the number of the segments in the  *)
(* table, and stay within shm_ctlall and shm_ctlmni (newseg, ipc_addid,    *)
(* shm_destroy).                                                           *)
Accounting ==
    /\ shm_tot = SumFunction([i \in Index |-> Weight(seg[i])]) /\ shm_tot <= shm_ctlall
    /\ in_use = Cardinality(Live) /\ in_use <= shm_ctlmni

(* user->locked_shm is what the user's locked and huge segments weigh,     *)
(* also when another user locked them again or destroys them.              *)
LockedAccounting ==
    \A u \in Users : locked_shm[u] =
        SumFunction([i \in Index |-> Charge(seg[i], u)])
          + SumFunction([t \in Tasks |-> Charge(dying[t], u)])

(* What bounds creation is exact whoever detaches, locks or destroys last: *)
(* the counters of the namespace and the charge of each user.              *)
Charges == TypeOK /\ Accounting /\ LockedAccounting

(* A key finds one segment, and not one that IPC_RMID has doomed.          *)
KeyFindsOne ==
    \A key \in Keys : /\ Cardinality(ipc_findkey(key)) <= 1
                      /\ \A i \in ipc_findkey(key) : "DEST" \notin seg[i].mode

(* An id comes back only after seq_max other segments were created, so a   *)
(* stale id is refused (EIDRM) until then (ipc_addid, ipc_checkid).        *)
NoEarlyIdReuse ==
    \A a, b \in DOMAIN ids : a < b /\ b - a <= seq_max => ids[a] # ids[b]

(* A key leads to at most one segment, never a doomed one, and an id is    *)
(* not given out again too early (ipcget, ipc_addid, do_shm_rmid).         *)
NamesFindOne == KeyFindsOne /\ NoEarlyIdReuse

-----------------------------------------------------------------------------
(* The inductive invariant.                                                *)

(* Types, without the bounds that follow from the counts.                  *)
TypeInv ==
    /\ seg \in [Index -> SegmentRecord \cup {NoSeg}] /\ dying \in [Tasks -> SegmentRecord \cup {NoSeg}]
    /\ in_use \in Int /\ shm_tot \in Int /\ ids_seq \in 0 .. seq_max /\ ids \in Seq(Nat)
    /\ rw_mutex \in Tasks \cup {NoTask} /\ nscount \in Int /\ members \subseteq Tasks
    /\ locked_shm \in [Users -> Int]
    /\ vmas \in [Mms -> [Files -> 0 .. MaxFrag]] /\ mmap_sem \in [Mms -> Tasks \cup {NoTask}]
    /\ file \in [Files -> FileRecord \cup {NoFile}]
    /\ pc \in [Tasks -> Labels] /\ then \in [Tasks -> {"user", "map", "exit_ns"}]
    /\ ret \in [Tasks -> {"user", "vm_fput"}]
    /\ at \in [Tasks -> [id : Nat, born : Nat, f : Files \cup {NoFile}]]
    /\ job \in [Tasks -> [Files -> 0 .. MaxFrag]] /\ cur \in [Tasks -> Files \cup {NoFile}]
    /\ child \in [Tasks -> Tasks \cup {NoTask}] /\ may \in Scenarios

(* The segments in the table and on their way out are some that were       *)
(* created.                                                                *)
Created(shp) ==
    shp # NoSeg => /\ shp.born \in 1 .. Len(ids) /\ shp.seq \in 0 .. seq_max
                   /\ shp.size \in 1 .. shm_ctlmax

SegInv == (\A i \in Index : Created(seg[i])) /\ (\A t \in Tasks : Created(dying[t]))

(* A task with a vma taken out and not yet released.                       *)
Closing(t) == pc[t] \in {"close", "vm_fput"} \/ (pc[t] = "destroy" /\ ret[t] = "vm_fput")

(* What a task has at each place of its call; who is inside do_shmat() is  *)
(* still a member of the namespace.                                        *)
TaskAt(t) ==
    /\ rw_mutex = t <=> pc[t] = "destroy"
    /\ dying[t] # NoSeg <=> pc[t] = "destroy"
    /\ job[t] # NoJob => Closing(t)
    /\ cur[t] # NoFile <=> Closing(t) /\ pc[t] # "close"
    /\ then[t] = "map" => Closing(t)
    /\ at[t].born # 0 <=>
          (pc[t] \in {"alloc", "map", "fput", "out_nattch"} \/ then[t] = "map")
    /\ at[t].f # NoFile <=> (pc[t] \in {"map", "fput"} \/ then[t] = "map")
    /\ at[t].born = 0 => at[t] = NoAt
    /\ at[t].born # 0 => t \in members
    /\ pc[t] = "dead" => then[t] = "user"

TaskInv == \A t \in Tasks : TaskAt(t)

(* Nobody uses a segment that is being destroyed.                          *)
DyingInv == \A t \in Tasks : dying[t] # NoSeg => dying[t].nattch = 0

(* The child of a fork is dead until the fork is complete.                 *)
ForkInv ==
    /\ \A t \in Tasks : child[t] # NoTask <=> pc[t] = "fork"
    /\ \A t \in Tasks : child[t] # NoTask => pc[child[t]] = "dead"
    /\ \A t, u \in Tasks : child[t] = child[u] /\ child[t] # NoTask => t = u

(* Segments are told apart by their birth, and an id leads to its slot.    *)
SlotInv ==
    /\ \A i \in Live : ipcid_to_idx(seg[i].id) = i
    /\ \A i, j \in Live : seg[i].born = seg[j].born => i = j

(* id leads to the segment born as the b-th.                               *)
Pinned(id, b) == ipcid_to_idx(id) \in Live /\ seg[ipcid_to_idx(id)].born = b

(* A do_shmat() under way and a file with a vma find their segment; a file *)
(* in the hands of do_shmat() is of the segment it found.                  *)
PinInv ==
    /\ \A t \in Tasks : at[t].born # 0 => Pinned(at[t].id, at[t].born)
    /\ \A f \in Files : FileVmas(f) > 0 => file[f] # NoFile /\ Pinned(file[f].id, file[f].born)
    /\ \A t \in Tasks : at[t].f # NoFile =>
          /\ file[at[t].f] # NoFile /\ file[at[t].f].born = at[t].born
          /\ ipcid_to_idx(file[at[t].f].id) = ipcid_to_idx(at[t].id)
    /\ \A t \in Tasks : cur[t] # NoFile => file[cur[t]] # NoFile
    /\ \A f \in Files : file[f] # NoFile => file[f].born \in 1 .. Len(ids)

(* Members share one reference to the namespace, each file has one.        *)
NsInv ==
    /\ nscount = Cardinality({f \in Files : file[f] # NoFile}) + IF members = {} THEN 0 ELSE 1
    /\ nscount = 0 => Live = {}

(* Only a segment that is charged has its pages locked.                    *)
LockInv ==
    \A i \in Live : ~seg[i].huge =>
        /\ seg[i].vm_locked <=> "LOCKED" \in seg[i].mode
        /\ seg[i].vm_locked => seg[i].mlock_user # NoUser

(* A key in use is of one segment, which is not doomed.                    *)
KeyInv ==
    /\ \A i, j \in Live : seg[i].key = seg[j].key /\ seg[i].key # IPC_PRIVATE => i = j
    /\ \A i \in Live : "DEST" \in seg[i].mode => seg[i].key = IPC_PRIVATE

IdSeq(k) == ids[k] \div IPCMNI

(* b is d steps of next_seq() after a.                                     *)
Ahead(a, b, d) == b = a + d \/ b = a + d - (seq_max + 1)

(* The sequence numbers of the last seq_max + 1 segments, and the next.    *)
SeqInv ==
    /\ \A k \in DOMAIN ids : IdSeq(k) \in 0 .. seq_max
    /\ \A k \in DOMAIN ids :
          Len(ids) + 1 - k <= seq_max + 1 => Ahead(IdSeq(k), ids_seq, Len(ids) + 1 - k)
    /\ \A a, b \in DOMAIN ids : a < b /\ b - a <= seq_max => Ahead(IdSeq(a), IdSeq(b), b - a)

(* What is true of the table of segments alone, and of its users.          *)
TableInv ==
    SegInv /\ SlotInv /\ Accounting /\ LockedAccounting /\ LockInv /\ KeyInv /\ SeqInv

UseInv == TaskInv /\ DyingInv /\ ForkInv /\ AttachCount /\ PinInv /\ NoDoomedLeft /\ NsInv

IInv == TypeInv /\ TableInv /\ UseInv

=============================================================================
