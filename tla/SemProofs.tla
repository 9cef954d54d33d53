------------------------------ MODULE SemProofs ------------------------------
(***************************************************************************)
(* The inductive invariant of Sem, part one (IInv) and part two, about the *)
(* pending operations (QInv), proved for any tasks, sets, semaphores and   *)
(* operations, and what follows.  Lemmas IInv_x and QInv_x are about the   *)
(* action x.                                                               *)
(***************************************************************************)
EXTENDS SemLemmas

-----------------------------------------------------------------------------
(* semctl().                                                               *)

(* The waker, a system call, returns.                                      *)
LEMMA IInv_wake_done_ret ==
    ASSUME IInv, NEW p \in Procs, wake_done(p), cmd[p] \in {"SEMOP", "SETVAL", "SETALL"}
    PROVE  IInv'
<1> USE DEF Holding, Waiting, Referring, WakingUp
<1>t. /\ lock \in [Arrays -> Procs \cup {NoProc}] /\ pc \in [Procs -> Labels]
      /\ cmd \in [Procs -> Cmds \cup {"none", "SEMOP", "EXIT"}]
      /\ sma \in [Procs -> Arrays \cup {NoArr}]
      /\ undo \in [Procs -> [list : Tasks \cup {NoProc}, set : Arrays \cup {NoArr}]]
      /\ sig \subseteq Tasks
  BY Parts, UnType DEF TypeInv
<1>c. CallInv'
  <2>1. Next
    BY Kinds DEF Next, Step
  <2> QED BY Parts, <2>1, CallStep
<1>g. pc[p] = "wake"
  BY DEF wake_done
<1>u. /\ UNCHANGED <<semval, sem_pending, complex_count, mem, refcount, deleted, grace, lock, idr,
                     used_sems, rw_mutex, list_id, list_proc, readers, undo_list, ulp, refcnt,
                     ulp_lock, un, cmd, sops, semid, sma, undo, status, outcome, state, timedout,
                     tasks, idx, semnum, walk, ref>>
  BY <1>t, <1>g DEF wake_done, Return, Goto, args, arrayv, life, lists, queue, scanv, ulpv
<1>e_pc. /\ pc' \in [Procs -> Labels] /\ pc'[p] = "ret" /\ \A q \in Procs : q # p => pc'[q] = pc[q]
  BY Parts, <1>t, Kinds, <1>g DEF wake_done, Return, Goto, Labels
<1>e_sig. sig' = (sig \ {p}) /\ sig' \subseteq Tasks
  BY Parts, <1>t, Kinds, <1>g DEF wake_done, Return, Goto
<1>T. TypeInv'
  BY Parts, <1>u, <1>e_pc, <1>e_sig DEF TypeInv, Uns, UnRecs
<1>f. /\ SetLife' /\ InTable' /\ HasUndos' /\ TableSets' /\ RefNat' /\ UserCount' /\ FreshList'
      /\ OnceLinked' /\ LinkedLive' /\ BothLists'
  BY Parts, <1>u, Frames
<1>H. \A b \in Arrays : Holders(b)' = Holders(b)
  BY Kinds, <1>u, <1>e_pc, <1>g, HoldersSame
<1>O. \A b \in Arrays : Counted(b)' = Counted(b)
  BY Kinds, Calls, <1>u, <1>e_pc, <1>g, CountedSame
<1>SetLocks. SetLocks'
  BY Parts, Kinds, <1>u, <1>e_pc, <1>g DEF SetLocks
<1>ListLocks. ListLocks'
  BY Parts, Kinds, <1>u, <1>e_pc, <1>g DEF ListLocks
<1>Unlinking. Unlinking'
  BY Parts, <1>u, <1>e_pc, <1>g DEF Unlinking
<1>Removing. Removing'
  BY Parts, Calls, Kinds, <1>u, <1>e_pc, <1>g DEF Removing
<1>HeldSets. HeldSets'
  BY Parts, Sites, <1>u, <1>e_pc, <1>g DEF HeldSets
<1>GoneSets. GoneSets'
  BY Parts, Sites, Calls, <1>u, <1>e_pc, <1>g DEF GoneSets
<1>ReferencesCovered. ReferencesCovered'
  BY Parts, <1>H, <1>O, <1>t, <1>u, <1>e_pc, <1>g, HoldersFinite DEF ReferencesCovered
<1>Loaded. Loaded'
  BY Parts, Sites, <1>H, Calls, <1>t, <1>u, <1>e_pc, <1>g, HoldersFinite DEF Loaded
<1>KeptSets. KeptSets'
  BY Parts, Sites, <1>u, <1>e_pc, <1>g DEF KeptSets, Kept
<1>KeptUndo. KeptUndo'
  BY Parts, Undos, <1>u, <1>e_pc, <1>g DEF KeptUndo, Kept
<1>ExitList. ExitList'
  BY Parts, Kinds, Calls, <1>u, <1>e_pc, <1>g DEF ExitList, Users
<1>OwnList. OwnList'
  BY Parts, Kinds, Calls, <1>u, <1>e_pc, <1>g DEF OwnList
<1>OneList. OneList'
  BY Parts, Kinds, <1>u, <1>e_pc, <1>g DEF OneList
<1>Unlinked. Unlinked'
  BY Parts, Undos, <1>u, <1>e_pc, <1>g DEF Unlinked
<1>OwnUndo. OwnUndo'
  BY Parts, Undos, Sites, <1>u, <1>e_pc, <1>g DEF OwnUndo
<1>UsedSems. UsedSems'
  BY Parts, <1>O, <1>u, <1>e_pc DEF UsedSems
<1> QED BY <1>T, <1>c, <1>f, <1>SetLocks, <1>ListLocks, <1>Unlinking, <1>Removing, <1>HeldSets,
  <1>GoneSets, <1>ReferencesCovered, <1>Loaded, <1>KeptSets, <1>KeptUndo, <1>ExitList, <1>OwnList,
  <1>OneList, <1>Unlinked, <1>OwnUndo, <1>UsedSems DEF IInv, LockInv, SetInv, RefInv, RcuInv,
  ListInv, LinkInv

(* The waker is exit_sem(): its undo structure goes to RCU.                *)
LEMMA IInv_wake_done_exit ==
    ASSUME IInv, NEW p \in Procs, wake_done(p), cmd[p] = "EXIT"
    PROVE  IInv'
<1> USE DEF Holding, Waiting, Referring, WakingUp
<1>t. /\ lock \in [Arrays -> Procs \cup {NoProc}] /\ un \in Uns /\ pc \in [Procs -> Labels]
      /\ cmd \in [Procs -> Cmds \cup {"none", "SEMOP", "EXIT"}]
      /\ sma \in [Procs -> Arrays \cup {NoArr}]
      /\ undo \in [Procs -> [list : Tasks \cup {NoProc}, set : Arrays \cup {NoArr}]]
  BY Parts, UnType DEF TypeInv
<1>c. CallInv'
  <2>1. Next
    BY Kinds DEF Next, Step
  <2> QED BY Parts, <2>1, CallStep
<1>g. pc[p] = "wake"
  BY DEF wake_done
<1>a. PICK u \in Tasks, a \in Arrays : u = undo[p].list /\ a = undo[p].set /\ a \notin ToSet(list_proc[u])
  BY Parts, <1>g, Undos DEF Unlinked
<1>u. /\ UNCHANGED <<semval, sem_pending, complex_count, mem, refcount, deleted, grace, lock, idr,
                     used_sems, rw_mutex, list_id, list_proc, readers, undo_list, ulp, refcnt,
                     ulp_lock, cmd, sops, semid, sma, undo, status, outcome, state, sig, timedout,
                     tasks, idx, semnum, walk, ref>>
  BY <1>t, <1>g, <1>a DEF wake_done, Return, Goto, args, arrayv, life, lists, queue, scanv, ulpv
<1>e_pc. /\ pc' \in [Procs -> Labels] /\ pc'[p] = "xread" /\ \A q \in Procs : q # p => pc'[q] = pc[q]
  BY Parts, <1>t, Kinds, <1>g, <1>a DEF wake_done, Return, Goto, Labels
<1>e_un. /\ un' \in Uns /\ un'[u][a].mem = "rcu" /\ un'[u][a].grace = readers /\ un'[u][a].valid = un[u][a].valid
         /\ \A v \in Tasks, b \in Arrays : un'[v][b].valid = un[v][b].valid /\ (v # u \/ b # a => un'[v][b] = un[v][b])
  <2>1. call_rcu(u, a)
    BY <1>a DEF wake_done
  <2>2. /\ un' \in Uns /\ un'[u][a].mem = "rcu" /\ un'[u][a].grace = readers /\ un'[u][a].valid = un[u][a].valid
        /\ \A v \in Tasks, b \in Arrays : v # u \/ b # a => un'[v][b] = un[v][b]
    BY Parts, <2>1, RcuEffect
  <2> QED BY <2>2
<1>T. TypeInv'
  BY Parts, <1>u, <1>e_pc, <1>e_un DEF TypeInv, Uns, UnRecs
<1>f. /\ SetLife' /\ InTable' /\ HasUndos' /\ TableSets' /\ RefNat' /\ UserCount' /\ FreshList'
      /\ OnceLinked'
  BY Parts, <1>u, Frames
<1>H. \A b \in Arrays : Holders(b)' = Holders(b)
  BY Kinds, <1>u, <1>e_pc, <1>g, <1>a, HoldersSame
<1>O. \A b \in Arrays : Counted(b)' = Counted(b)
  BY Kinds, Calls, <1>u, <1>e_pc, <1>g, <1>a, CountedSame
<1>SetLocks. SetLocks'
  BY Parts, Kinds, <1>u, <1>e_pc, <1>g, <1>a DEF SetLocks
<1>ListLocks. ListLocks'
  BY Parts, Kinds, <1>u, <1>e_pc, <1>g, <1>a DEF ListLocks
<1>Unlinking. Unlinking'
  BY Parts, <1>u, <1>e_pc, <1>g, <1>a DEF Unlinking
<1>Removing. Removing'
  BY Parts, Calls, Kinds, <1>u, <1>e_pc, <1>g, <1>a DEF Removing
<1>HeldSets. HeldSets'
  BY Parts, Sites, <1>u, <1>e_pc, <1>g, <1>a DEF HeldSets
<1>GoneSets. GoneSets'
  BY Parts, Sites, Calls, <1>u, <1>e_pc, <1>g, <1>a DEF GoneSets
<1>ReferencesCovered. ReferencesCovered'
  BY Parts, <1>H, <1>O, <1>t, <1>u, <1>e_pc, <1>g, <1>a, HoldersFinite DEF ReferencesCovered
<1>Loaded. Loaded'
  BY Parts, Sites, <1>H, Calls, <1>t, <1>u, <1>e_pc, <1>g, <1>a, HoldersFinite DEF Loaded
<1>KeptSets. KeptSets'
  BY Parts, Sites, <1>u, <1>e_pc, <1>g, <1>a DEF KeptSets, Kept
<1>KeptUndo. KeptUndo'
  BY Parts, Undos, <1>u, <1>e_un, <1>e_pc, <1>g, <1>a DEF KeptUndo, Kept
<1>ExitList. ExitList'
  BY Parts, Kinds, Calls, <1>u, <1>e_pc, <1>g, <1>a DEF ExitList, Users
<1>OwnList. OwnList'
  BY Parts, Kinds, Calls, <1>u, <1>e_pc, <1>g, <1>a DEF OwnList
<1>LinkedLive. LinkedLive'
  BY Parts, <1>u, <1>e_un, <1>g, <1>a DEF LinkedLive
<1>BothLists. BothLists'
  BY Parts, <1>u, <1>e_un, <1>g, <1>a DEF BothLists
<1>OneList. OneList'
  BY Parts, Kinds, <1>u, <1>e_pc, <1>g, <1>a DEF OneList
<1>Unlinked. Unlinked'
  BY Parts, Undos, <1>u, <1>e_un, <1>e_pc, <1>g, <1>a DEF Unlinked
<1>OwnUndo. OwnUndo'
  BY Parts, Undos, Sites, <1>u, <1>e_un, <1>e_pc, <1>g, <1>a DEF OwnUndo
<1>UsedSems. UsedSems'
  BY Parts, <1>O, <1>u, <1>e_pc DEF UsedSems
<1> QED BY <1>T, <1>c, <1>f, <1>SetLocks, <1>ListLocks, <1>Unlinking, <1>Removing, <1>HeldSets,
  <1>GoneSets, <1>ReferencesCovered, <1>Loaded, <1>KeptSets, <1>KeptUndo, <1>ExitList, <1>OwnList,
  <1>LinkedLive, <1>BothLists, <1>OneList, <1>Unlinked, <1>OwnUndo, <1>UsedSems DEF IInv, LockInv,
  SetInv, RefInv, RcuInv, ListInv, LinkInv

(* The waker is freeary(): the semaphores are no longer counted.           *)
LEMMA IInv_wake_done_rmid ==
    ASSUME IInv, NEW p \in Procs, wake_done(p), cmd[p] = "RMID"
    PROVE  IInv'
<1> USE DEF Holding, Waiting, Referring, WakingUp
<1>t. /\ refcount \in [Arrays -> Int] /\ lock \in [Arrays -> Procs \cup {NoProc}]
      /\ used_sems \in Int /\ pc \in [Procs -> Labels]
      /\ cmd \in [Procs -> Cmds \cup {"none", "SEMOP", "EXIT"}]
      /\ sma \in [Procs -> Arrays \cup {NoArr}]
      /\ undo \in [Procs -> [list : Tasks \cup {NoProc}, set : Arrays \cup {NoArr}]]
      /\ ref \in [Procs -> Int]
  BY Parts, UnType DEF TypeInv
<1>c. CallInv'
  <2>1. Next
    BY Kinds DEF Next, Step
  <2> QED BY Parts, <2>1, CallStep
<1>g. pc[p] = "wake"
  BY DEF wake_done
<1>a. PICK a \in Arrays : a = sma[p]
  BY Parts, <1>g, Locals
<1>n. \A q \in Procs : cmd[q] = "RMID" /\ pc[q] # "ret" => q = p
  BY Parts, <1>g DEF Removing
<1>m. mem[a] = "live" /\ deleted[a] /\ p \in Ctls /\ Counted(a)
  <2>1. mem[a] = "live" /\ deleted[a] /\ p \in Ctls
    BY Parts, <1>g, <1>a, Locals DEF GoneSets
  <2> QED BY <1>g, <1>a, <2>1 DEF Counted
<1>u. /\ UNCHANGED <<semval, sem_pending, complex_count, mem, refcount, deleted, grace, lock, idr,
                     rw_mutex, list_id, list_proc, readers, undo_list, ulp, refcnt, ulp_lock, un, cmd,
                     sops, semid, sma, undo, status, outcome, state, sig, timedout, tasks, idx, semnum,
                     walk>>
  BY <1>t, <1>g, <1>a, <1>n, <1>m DEF wake_done, Return, Goto, args, arrayv, life, lists, queue,
    scanv, ulpv
<1>e_pc. /\ pc' \in [Procs -> Labels] /\ pc'[p] = "put" /\ \A q \in Procs : q # p => pc'[q] = pc[q]
  BY Parts, <1>t, Kinds, <1>g, <1>a, <1>n, <1>m DEF wake_done, Return, Goto, Labels
<1>e_ref. /\ ref' \in [Procs -> Int] /\ ref'[p] = refcount[a] /\ \A q \in Procs : q # p => ref'[q] = ref[q]
  BY Parts, <1>t, Kinds, <1>g, <1>a, <1>n, <1>m DEF wake_done, Return, Goto
<1>e_used_sems. used_sems' = FreedSems /\ used_sems' \in Int
  <2>1. used_sems' = FreedSems
    BY DEF wake_done
  <2>2. Cardinality(Sems) \in Nat
    BY SemConstants, FS_CardinalityType
  <2> QED BY <1>t, <2>1, <2>2 DEF FreedSems
<1>T. TypeInv'
  BY Parts, <1>u, <1>e_pc, <1>e_ref, <1>e_used_sems DEF TypeInv, Uns, UnRecs
<1>f. /\ SetLife' /\ InTable' /\ HasUndos' /\ TableSets' /\ RefNat' /\ UserCount' /\ FreshList'
      /\ OnceLinked' /\ LinkedLive' /\ BothLists'
  BY Parts, <1>u, Frames
<1>H. /\ Holders(a)' = Holders(a) \cup {p} /\ Cardinality(Holders(a)') = Cardinality(Holders(a)) + 1
      /\ \A b \in Arrays : b # a => Holders(b)' = Holders(b)
  BY <1>a, <1>g, <1>u, <1>e_pc, HoldersJoin
<1>O. /\ ~(Counted(a)') /\ Counted(a)
      /\ \A b \in Arrays : b # a => Counted(b)' = Counted(b)
  <2>1. ~(Counted(a)')
    BY Kinds, <1>n, <1>m, <1>g, <1>u, <1>e_pc DEF Counted
  <2>2. ASSUME NEW b \in Arrays, b # a PROVE Counted(b)' = Counted(b)
    BY Kinds, <1>a, <1>n, <1>g, <1>u, <1>e_pc, <2>2 DEF Counted
  <2> QED BY <1>m, <2>1, <2>2
<1>SetLocks. SetLocks'
  BY Parts, Kinds, <1>u, <1>e_pc, <1>g, <1>a, <1>n, <1>m DEF SetLocks
<1>ListLocks. ListLocks'
  BY Parts, Kinds, <1>u, <1>e_pc, <1>g, <1>a, <1>n, <1>m DEF ListLocks
<1>Unlinking. Unlinking'
  BY Parts, <1>u, <1>e_pc, <1>g, <1>a, <1>n, <1>m DEF Unlinking
<1>Removing. Removing'
  BY Parts, Calls, Kinds, <1>u, <1>e_pc, <1>g, <1>a, <1>n, <1>m DEF Removing
<1>HeldSets. HeldSets'
  BY Parts, Sites, <1>u, <1>e_pc, <1>g, <1>a, <1>n, <1>m DEF HeldSets
<1>GoneSets. GoneSets'
  BY Parts, Sites, Calls, <1>u, <1>e_pc, <1>g, <1>a, <1>n, <1>m DEF GoneSets
<1>ReferencesCovered. ReferencesCovered'
  <2>1. refcount[a] \in Int /\ refcount[a] >= Cardinality(Holders(a)) + 1
    BY Parts, <1>t, <1>m DEF ReferencesCovered
  <2>2. refcount'[a] >= Cardinality(Holders(a)') /\ mem'[a] = "live"
    BY <1>H, <1>u, <1>m, <2>1, HoldersFinite
  <2>3. \A b \in Arrays : b # a /\ (Holders(b)' # {} \/ Counted(b)') =>
          mem'[b] = "live" /\ refcount'[b] >= Cardinality(Holders(b)') + (IF Counted(b)' THEN 1 ELSE 0)
    BY Parts, <1>H, <1>O, <1>u DEF ReferencesCovered
  <2>4. refcount'[a] \in Int /\ Cardinality(Holders(a)') \in Nat
    <3>1. Cardinality(Holders(a)) \in Nat
        BY HoldersFinite
    <3> QED BY <1>H, <1>u, <2>1, <3>1
  <2>5. refcount'[a] >= Cardinality(Holders(a)') + (IF Counted(a)' THEN 1 ELSE 0)
    BY <1>O, <2>2, <2>4
  <2> QED BY <2>2, <2>3, <2>5 DEF ReferencesCovered
<1>Loaded. Loaded'
  <2> SUFFICES ASSUME NEW q \in Procs, pc'[q] = "put" PROVE (ref[q] >= Cardinality(Holders(sma[q])))'
    BY DEF Loaded
  <2>1. q = p
    BY Calls, <1>n, <1>u, <1>e_pc
  <2>2. refcount[a] \in Int /\ refcount[a] >= Cardinality(Holders(a)) + 1
    BY Parts, <1>t, <1>m DEF ReferencesCovered
  <2>3. Holders(sma[q])' = Holders(a)'
    BY <1>a, <1>u, <2>1 DEF Holders
  <2>4. ref'[p] >= Cardinality(Holders(a)')
    BY <1>H, <1>e_ref, <2>2, HoldersFinite
  <2> QED BY <2>1, <2>3, <2>4
<1>KeptSets. KeptSets'
  BY Parts, Sites, <1>u, <1>e_pc, <1>g, <1>a, <1>n, <1>m DEF KeptSets, Kept
<1>KeptUndo. KeptUndo'
  BY Parts, Undos, <1>u, <1>e_pc, <1>g, <1>a, <1>n, <1>m DEF KeptUndo, Kept
<1>ExitList. ExitList'
  BY Parts, Kinds, Calls, <1>u, <1>e_pc, <1>g, <1>a, <1>n, <1>m DEF ExitList, Users
<1>OwnList. OwnList'
  BY Parts, Kinds, Calls, <1>u, <1>e_pc, <1>g, <1>a, <1>n, <1>m DEF OwnList
<1>OneList. OneList'
  BY Parts, Kinds, <1>u, <1>e_pc, <1>g, <1>a, <1>n, <1>m DEF OneList
<1>Unlinked. Unlinked'
  BY Parts, Undos, <1>u, <1>e_pc, <1>g, <1>a, <1>n, <1>m DEF Unlinked
<1>OwnUndo. OwnUndo'
  BY Parts, Undos, Sites, <1>u, <1>e_pc, <1>g, <1>a, <1>n, <1>m DEF OwnUndo
<1>UsedSems. UsedSems'
  BY Parts, <1>O, <1>e_used_sems, UsedDrop
<1> QED BY <1>T, <1>c, <1>f, <1>SetLocks, <1>ListLocks, <1>Unlinking, <1>Removing, <1>HeldSets,
  <1>GoneSets, <1>ReferencesCovered, <1>Loaded, <1>KeptSets, <1>KeptUndo, <1>ExitList, <1>OwnList,
  <1>OneList, <1>Unlinked, <1>OwnUndo, <1>UsedSems DEF IInv, LockInv, SetInv, RefInv, RcuInv,
  ListInv, LinkInv

(* semctl() fails with the lock held.                                      *)
LEMMA IInv_ctl_fail ==
    ASSUME IInv, NEW p \in Procs, ctl_fail(p)
    PROVE  IInv'
<1> USE DEF Holding, Waiting, Referring, WakingUp
<1>t. /\ grace \in [Arrays -> SUBSET Procs] /\ lock \in [Arrays -> Procs \cup {NoProc}]
      /\ rw_mutex \in Ctls \cup {NoProc} /\ readers \subseteq Procs /\ un \in Uns
      /\ pc \in [Procs -> Labels] /\ cmd \in [Procs -> Cmds \cup {"none", "SEMOP", "EXIT"}]
      /\ sma \in [Procs -> Arrays \cup {NoArr}]
      /\ undo \in [Procs -> [list : Tasks \cup {NoProc}, set : Arrays \cup {NoArr}]]
      /\ sig \subseteq Tasks
  BY Parts, UnType DEF TypeInv
<1>c. CallInv'
  <2>1. Next
    BY Kinds DEF Next, Step
  <2> QED BY Parts, <2>1, CallStep
<1>g. /\ pc[p] = "clock" /\ sma[p] \in Arrays /\ lock[sma[p]] = NoProc /\ p \in readers
      /\ ~deleted[sma[p]] /\ mem[sma[p]] = "live" /\ Counted(sma[p]) /\ IdOf[sma[p]] = semid[p]
  <2>1. Found(p, "clock")
    BY DEF ctl_fail
  <2> QED BY Parts, <2>1, FoundSet
<1>a. PICK a \in Arrays : a = sma[p]
  BY Parts, <1>g, Locals
<1>u. /\ UNCHANGED <<semval, sem_pending, complex_count, mem, refcount, deleted, lock, idr, used_sems,
                     list_id, list_proc, undo_list, ulp, refcnt, ulp_lock, cmd, sops, semid, sma, undo,
                     status, outcome, state, timedout, tasks, idx, semnum, walk, ref>>
  BY <1>t, <1>g, <1>a DEF ctl_fail, Return, Goto, args, arrayv, lists, queue, scanv, ulpv
<1>e_pc. /\ pc' \in [Procs -> Labels] /\ pc'[p] = "ret" /\ \A q \in Procs : q # p => pc'[q] = pc[q]
  BY Parts, <1>t, Kinds, <1>g, <1>a DEF ctl_fail, Return, Goto, Labels
<1>e_leave. /\ readers' = readers \ {p} /\ readers' \subseteq Procs
            /\ grace' \in [Arrays -> SUBSET Procs] /\ un' \in Uns
            /\ \A b \in Arrays : grace'[b] = grace[b] \ {p}
            /\ \A v \in Tasks, b \in Arrays :
                 /\ un'[v][b].mem = un[v][b].mem /\ un'[v][b].valid = un[v][b].valid
                 /\ un'[v][b].grace = un[v][b].grace \ {p}
  <2>1. Leave(p)
    BY <1>t, <1>g, <1>a DEF ctl_fail
  <2> QED BY Parts, <2>1, LeaveEffect
<1>e_sig. sig' = (sig \ {p}) /\ sig' \subseteq Tasks
  BY Parts, <1>t, Kinds, <1>g, <1>a DEF ctl_fail, Return, Goto
<1>e_rw_mutex. rw_mutex' = (IF cmd[p] = "RMID" THEN NoProc ELSE rw_mutex) /\ rw_mutex' \in Ctls \cup {NoProc}
  BY Parts, <1>t, Kinds, <1>g, <1>a DEF ctl_fail, Return, Goto
<1>T. TypeInv'
  BY Parts, <1>u, <1>e_pc, <1>e_leave, <1>e_sig, <1>e_rw_mutex DEF TypeInv, Uns, UnRecs
<1>f. /\ SetLife' /\ InTable' /\ HasUndos' /\ TableSets' /\ RefNat' /\ UserCount' /\ FreshList'
      /\ OnceLinked'
  BY Parts, <1>u, Frames
<1>H. \A b \in Arrays : Holders(b)' = Holders(b)
  BY Kinds, <1>u, <1>e_pc, <1>g, <1>a, HoldersSame
<1>O. \A b \in Arrays : Counted(b)' = Counted(b)
  BY Kinds, Calls, <1>u, <1>e_pc, <1>g, <1>a, CountedSame
<1>SetLocks. SetLocks'
  BY Parts, Kinds, <1>u, <1>e_pc, <1>g, <1>a DEF SetLocks
<1>ListLocks. ListLocks'
  BY Parts, Kinds, <1>u, <1>e_pc, <1>g, <1>a DEF ListLocks
<1>Unlinking. Unlinking'
  BY Parts, <1>u, <1>e_pc, <1>g, <1>a DEF Unlinking
<1>Removing. Removing'
  BY Parts, Calls, Kinds, <1>u, <1>e_rw_mutex, <1>e_pc, <1>g, <1>a DEF Removing
<1>HeldSets. HeldSets'
  BY Parts, Sites, <1>u, <1>e_pc, <1>g, <1>a DEF HeldSets
<1>GoneSets. GoneSets'
  BY Parts, Sites, Calls, <1>u, <1>e_pc, <1>g, <1>a DEF GoneSets
<1>ReferencesCovered. ReferencesCovered'
  BY Parts, <1>H, <1>O, <1>t, <1>u, <1>e_pc, <1>g, <1>a, HoldersFinite DEF ReferencesCovered
<1>Loaded. Loaded'
  BY Parts, Sites, <1>H, Calls, <1>t, <1>u, <1>e_pc, <1>g, <1>a, HoldersFinite DEF Loaded
<1>KeptSets. KeptSets'
  BY Parts, Sites, <1>u, <1>e_leave, <1>e_pc, <1>g, <1>a DEF KeptSets, Kept
<1>KeptUndo. KeptUndo'
  BY Parts, Undos, <1>u, <1>e_leave, <1>e_pc, <1>g, <1>a DEF KeptUndo, Kept
<1>ExitList. ExitList'
  BY Parts, Kinds, Calls, <1>u, <1>e_pc, <1>g, <1>a DEF ExitList, Users
<1>OwnList. OwnList'
  BY Parts, Kinds, Calls, <1>u, <1>e_pc, <1>g, <1>a DEF OwnList
<1>LinkedLive. LinkedLive'
  BY Parts, <1>u, <1>e_leave, <1>g, <1>a DEF LinkedLive
<1>BothLists. BothLists'
  BY Parts, <1>u, <1>e_leave, <1>g, <1>a DEF BothLists
<1>OneList. OneList'
  BY Parts, Kinds, <1>u, <1>e_pc, <1>g, <1>a DEF OneList
<1>Unlinked. Unlinked'
  BY Parts, Undos, <1>u, <1>e_leave, <1>e_pc, <1>g, <1>a DEF Unlinked
<1>OwnUndo. OwnUndo'
  BY Parts, Undos, Sites, <1>u, <1>e_leave, <1>e_pc, <1>g, <1>a DEF OwnUndo
<1>UsedSems. UsedSems'
  BY Parts, <1>O, <1>u, <1>e_pc DEF UsedSems
<1> QED BY <1>T, <1>c, <1>f, <1>SetLocks, <1>ListLocks, <1>Unlinking, <1>Removing, <1>HeldSets,
  <1>GoneSets, <1>ReferencesCovered, <1>Loaded, <1>KeptSets, <1>KeptUndo, <1>ExitList, <1>OwnList,
  <1>LinkedLive, <1>BothLists, <1>OneList, <1>Unlinked, <1>OwnUndo, <1>UsedSems DEF IInv, LockInv,
  SetInv, RefInv, RcuInv, ListInv, LinkInv

(* SETVAL stores the value and clears the adjustments.                     *)
LEMMA IInv_setval ==
    ASSUME IInv, NEW p \in Procs, setval(p)
    PROVE  IInv'
<1> USE DEF Holding, Waiting, Referring, WakingUp
<1>t. /\ semval \in [Arrays -> Values] /\ lock \in [Arrays -> Procs \cup {NoProc}] /\ un \in Uns
      /\ pc \in [Procs -> Labels] /\ cmd \in [Procs -> Cmds \cup {"none", "SEMOP", "EXIT"}]
      /\ sma \in [Procs -> Arrays \cup {NoArr}]
      /\ undo \in [Procs -> [list : Tasks \cup {NoProc}, set : Arrays \cup {NoArr}]]
      /\ idx \in [Procs -> Nat]
  BY Parts, UnType DEF TypeInv
<1>c. CallInv'
  <2>1. Next
    BY Kinds DEF Next, Step
  <2> QED BY Parts, <2>1, CallStep
<1>g. /\ pc[p] = "clock" /\ sma[p] \in Arrays /\ lock[sma[p]] = NoProc /\ p \in readers
      /\ ~deleted[sma[p]] /\ mem[sma[p]] = "live" /\ Counted(sma[p]) /\ IdOf[sma[p]] = semid[p]
  <2>1. Found(p, "clock")
    BY DEF setval
  <2> QED BY Parts, <2>1, FoundSet
<1>a. PICK a \in Arrays : a = sma[p]
  BY Parts, <1>g, Locals
<1>h. cmd[p] = "SETVAL"
  BY DEF setval
<1>d. PICK n \in Sems, w \in SetVals : semval' = [semval EXCEPT ![a][n] = w] /\ un' = ClearAdjs(a, {n})
  BY <1>a DEF setval
<1>u. /\ UNCHANGED <<sem_pending, complex_count, mem, refcount, deleted, grace, idr, used_sems,
                     rw_mutex, list_id, list_proc, readers, undo_list, ulp, refcnt, ulp_lock, cmd,
                     sops, semid, sma, undo, status, outcome, state, sig, timedout, tasks, semnum,
                     walk, ref, res>>
  BY <1>t, <1>g, <1>a, <1>h, <1>d DEF setval, Goto, args, life, lists, ns, queue, sched, ulpv
<1>e_semval. semval' \in [Arrays -> Values]
  <2>1. w \in 0 .. SEMVMX
    BY SemConstants
  <2>2. semval[a] \in Values
    BY <1>t
  <2>3. [semval[a] EXCEPT ![n] = w] \in Values
    BY <2>1, <2>2 DEF Values
  <2> QED BY <1>t, <1>d, <2>3
<1>e_un. /\ un' \in Uns
        /\ \A v \in Tasks, b \in Arrays :
             /\ un'[v][b].mem = un[v][b].mem /\ un'[v][b].valid = un[v][b].valid
             /\ un'[v][b].grace = un[v][b].grace
  <2>1. un' = ClearAdjs(a, {n})
    BY <1>d DEF setval
  <2> QED BY Parts, <2>1, ClearEffect
<1>e_lock. /\ lock' \in [Arrays -> Procs \cup {NoProc}] /\ lock'[a] = p /\ \A b \in Arrays : b # a => lock'[b] = lock[b]
  BY Parts, <1>t, Kinds, <1>g, <1>a, <1>h, <1>d DEF setval, Goto
<1>e_idx. /\ idx' \in [Procs -> Nat] /\ idx'[p] = 1 /\ \A q \in Procs : q # p => idx'[q] = idx[q]
  BY Parts, <1>t, Kinds, <1>g, <1>a, <1>h, <1>d DEF setval, Goto
<1>e_pc. /\ pc' \in [Procs -> Labels] /\ pc'[p] = "smart" /\ \A q \in Procs : q # p => pc'[q] = pc[q]
  BY Parts, <1>t, Kinds, <1>g, <1>a, <1>h, <1>d DEF setval, Goto, Labels
<1>T. TypeInv'
  BY Parts, <1>u, <1>e_semval, <1>e_un, <1>e_lock, <1>e_idx, <1>e_pc DEF TypeInv, Uns, UnRecs
<1>f. /\ SetLife' /\ InTable' /\ HasUndos' /\ TableSets' /\ RefNat' /\ UserCount' /\ FreshList'
      /\ OnceLinked'
  BY Parts, <1>u, Frames
<1>H. \A b \in Arrays : Holders(b)' = Holders(b)
  BY Kinds, <1>u, <1>e_pc, <1>g, <1>a, <1>h, HoldersSame
<1>O. \A b \in Arrays : Counted(b)' = Counted(b)
  BY Kinds, Calls, <1>u, <1>e_pc, <1>g, <1>a, <1>h, CountedSame
<1>SetLocks. SetLocks'
  BY Parts, Kinds, <1>u, <1>e_lock, <1>e_pc, <1>g, <1>a, <1>h DEF SetLocks
<1>ListLocks. ListLocks'
  BY Parts, Kinds, <1>u, <1>e_pc, <1>g, <1>a, <1>h DEF ListLocks
<1>Unlinking. Unlinking'
  BY Parts, <1>u, <1>e_pc, <1>g, <1>a, <1>h DEF Unlinking
<1>Removing. Removing'
  BY Parts, Calls, Kinds, <1>u, <1>e_pc, <1>g, <1>a, <1>h DEF Removing
<1>HeldSets. HeldSets'
  BY Parts, Sites, <1>u, <1>e_pc, <1>g, <1>a, <1>h DEF HeldSets
<1>GoneSets. GoneSets'
  BY Parts, Sites, Calls, <1>u, <1>e_pc, <1>g, <1>a, <1>h DEF GoneSets
<1>ReferencesCovered. ReferencesCovered'
  BY Parts, <1>H, <1>O, <1>t, <1>u, <1>e_pc, <1>g, <1>a, <1>h, HoldersFinite DEF ReferencesCovered
<1>Loaded. Loaded'
  BY Parts, Sites, <1>H, Calls, <1>t, <1>u, <1>e_pc, <1>g, <1>a, <1>h, HoldersFinite DEF Loaded
<1>KeptSets. KeptSets'
  BY Parts, Sites, <1>u, <1>e_pc, <1>g, <1>a, <1>h DEF KeptSets, Kept
<1>KeptUndo. KeptUndo'
  BY Parts, Undos, <1>u, <1>e_un, <1>e_pc, <1>g, <1>a, <1>h DEF KeptUndo, Kept
<1>ExitList. ExitList'
  BY Parts, Kinds, Calls, <1>u, <1>e_pc, <1>g, <1>a, <1>h DEF ExitList, Users
<1>OwnList. OwnList'
  BY Parts, Kinds, Calls, <1>u, <1>e_pc, <1>g, <1>a, <1>h DEF OwnList
<1>LinkedLive. LinkedLive'
  BY Parts, <1>u, <1>e_un, <1>g, <1>a, <1>h DEF LinkedLive
<1>BothLists. BothLists'
  BY Parts, <1>u, <1>e_un, <1>g, <1>a, <1>h DEF BothLists
<1>OneList. OneList'
  BY Parts, Kinds, <1>u, <1>e_pc, <1>g, <1>a, <1>h DEF OneList
<1>Unlinked. Unlinked'
  BY Parts, Undos, <1>u, <1>e_un, <1>e_pc, <1>g, <1>a, <1>h DEF Unlinked
<1>OwnUndo. OwnUndo'
  BY Parts, Undos, Sites, <1>u, <1>e_un, <1>e_pc, <1>g, <1>a, <1>h DEF OwnUndo
<1>UsedSems. UsedSems'
  BY Parts, <1>O, <1>u, <1>e_pc DEF UsedSems
<1> QED BY <1>T, <1>c, <1>f, <1>SetLocks, <1>ListLocks, <1>Unlinking, <1>Removing, <1>HeldSets,
  <1>GoneSets, <1>ReferencesCovered, <1>Loaded, <1>KeptSets, <1>KeptUndo, <1>ExitList, <1>OwnList,
  <1>LinkedLive, <1>BothLists, <1>OneList, <1>Unlinked, <1>OwnUndo, <1>UsedSems DEF IInv, LockInv,
  SetInv, RefInv, RcuInv, ListInv, LinkInv

(* GETALL or SETALL takes a reference and unlocks.                         *)
LEMMA IInv_all_getref ==
    ASSUME IInv, NEW p \in Procs, all_getref(p)
    PROVE  IInv'
<1> USE DEF Holding, Waiting, Referring, WakingUp
<1>t. /\ refcount \in [Arrays -> Int] /\ grace \in [Arrays -> SUBSET Procs]
      /\ lock \in [Arrays -> Procs \cup {NoProc}] /\ readers \subseteq Procs /\ un \in Uns
      /\ pc \in [Procs -> Labels] /\ cmd \in [Procs -> Cmds \cup {"none", "SEMOP", "EXIT"}]
      /\ sma \in [Procs -> Arrays \cup {NoArr}]
      /\ undo \in [Procs -> [list : Tasks \cup {NoProc}, set : Arrays \cup {NoArr}]]
  BY Parts, UnType DEF TypeInv
<1>c. CallInv'
  <2>1. Next
    BY Kinds DEF Next, Step
  <2> QED BY Parts, <2>1, CallStep
<1>g. /\ pc[p] = "clock" /\ sma[p] \in Arrays /\ lock[sma[p]] = NoProc /\ p \in readers
      /\ ~deleted[sma[p]] /\ mem[sma[p]] = "live" /\ Counted(sma[p]) /\ IdOf[sma[p]] = semid[p]
  <2>1. Found(p, "clock")
    BY DEF all_getref
  <2> QED BY Parts, <2>1, FoundSet
<1>a. PICK a \in Arrays : a = sma[p]
  BY Parts, <1>g, Locals
<1>u. /\ UNCHANGED <<semval, sem_pending, complex_count, mem, deleted, lock, idr, used_sems, rw_mutex,
                     list_id, list_proc, undo_list, ulp, refcnt, ulp_lock, cmd, sops, semid, sma, undo,
                     status, outcome, state, sig, timedout, tasks, idx, semnum, walk, ref, res>>
  BY <1>t, <1>g, <1>a DEF all_getref, Goto, args, arrayv, lists, ns, queue, scanv, sched, ulpv
<1>e_refcount. /\ refcount' \in [Arrays -> Int] /\ refcount'[a] = refcount[a] + 1 /\ \A b \in Arrays : b # a => refcount'[b] = refcount[b]
  BY Parts, <1>t, Kinds, <1>g, <1>a DEF all_getref, Getref, Goto
<1>e_leave. /\ readers' = readers \ {p} /\ readers' \subseteq Procs
            /\ grace' \in [Arrays -> SUBSET Procs] /\ un' \in Uns
            /\ \A b \in Arrays : grace'[b] = grace[b] \ {p}
            /\ \A v \in Tasks, b \in Arrays :
                 /\ un'[v][b].mem = un[v][b].mem /\ un'[v][b].valid = un[v][b].valid
                 /\ un'[v][b].grace = un[v][b].grace \ {p}
  <2>1. Leave(p)
    BY <1>t, <1>g, <1>a DEF all_getref
  <2> QED BY Parts, <2>1, LeaveEffect
<1>e_pc. /\ pc' \in [Procs -> Labels] /\ pc'[p] = "copyin" /\ \A q \in Procs : q # p => pc'[q] = pc[q]
  BY Parts, <1>t, Kinds, <1>g, <1>a DEF all_getref, Getref, Goto, Labels
<1>T. TypeInv'
  BY Parts, <1>u, <1>e_refcount, <1>e_leave, <1>e_pc DEF TypeInv, Uns, UnRecs
<1>f. /\ SetLife' /\ InTable' /\ HasUndos' /\ TableSets' /\ UserCount' /\ FreshList' /\ OnceLinked'
  BY Parts, <1>u, Frames
<1>H. /\ Holders(a)' = Holders(a) \cup {p} /\ Cardinality(Holders(a)') = Cardinality(Holders(a)) + 1
      /\ \A b \in Arrays : b # a => Holders(b)' = Holders(b)
  BY <1>a, <1>g, <1>u, <1>e_pc, HoldersJoin
<1>O. \A b \in Arrays : Counted(b)' = Counted(b)
  BY Kinds, Calls, <1>u, <1>e_pc, <1>g, <1>a, CountedSame
<1>SetLocks. SetLocks'
  BY Parts, Kinds, <1>u, <1>e_pc, <1>g, <1>a DEF SetLocks
<1>ListLocks. ListLocks'
  BY Parts, Kinds, <1>u, <1>e_pc, <1>g, <1>a DEF ListLocks
<1>Unlinking. Unlinking'
  BY Parts, <1>u, <1>e_pc, <1>g, <1>a DEF Unlinking
<1>Removing. Removing'
  BY Parts, Calls, Kinds, <1>u, <1>e_pc, <1>g, <1>a DEF Removing
<1>HeldSets. HeldSets'
  BY Parts, Sites, <1>u, <1>e_pc, <1>g, <1>a DEF HeldSets
<1>GoneSets. GoneSets'
  BY Parts, Sites, Calls, <1>u, <1>e_pc, <1>g, <1>a DEF GoneSets
<1>ReferencesCovered. ReferencesCovered'
  <2>1. refcount[a] \in Int /\ refcount[a] >= Cardinality(Holders(a)) + 1 /\ mem[a] = "live"
    BY Parts, <1>t, <1>g, <1>a DEF ReferencesCovered
  <2>2. refcount'[a] >= Cardinality(Holders(a)') + 1 /\ mem'[a] = "live"
    BY <1>H, <1>u, <1>e_refcount, <2>1, HoldersFinite
  <2>3. \A b \in Arrays : b # a /\ (Holders(b)' # {} \/ Counted(b)') =>
          mem'[b] = "live" /\ refcount'[b] >= Cardinality(Holders(b)') + (IF Counted(b)' THEN 1 ELSE 0)
    BY Parts, <1>H, <1>O, <1>u, <1>e_refcount DEF ReferencesCovered
  <2>4. Counted(a)'
    BY <1>O, <1>a, <1>g
  <2> QED BY <2>2, <2>3, <2>4 DEF ReferencesCovered
<1>RefNat. RefNat'
  BY Parts, <1>t, <1>u, <1>e_refcount, <1>g, <1>a DEF RefNat
<1>Loaded. Loaded'
  BY Parts, Sites, <1>H, Calls, <1>t, <1>u, <1>e_pc, <1>g, <1>a, HoldersFinite DEF Loaded, GoneSets
<1>KeptSets. KeptSets'
  BY Parts, Sites, <1>u, <1>e_leave, <1>e_pc, <1>g, <1>a DEF KeptSets, Kept
<1>KeptUndo. KeptUndo'
  BY Parts, Undos, <1>u, <1>e_leave, <1>e_pc, <1>g, <1>a DEF KeptUndo, Kept
<1>ExitList. ExitList'
  BY Parts, Kinds, Calls, <1>u, <1>e_pc, <1>g, <1>a DEF ExitList, Users
<1>OwnList. OwnList'
  BY Parts, Kinds, Calls, <1>u, <1>e_pc, <1>g, <1>a DEF OwnList
<1>LinkedLive. LinkedLive'
  BY Parts, <1>u, <1>e_leave, <1>g, <1>a DEF LinkedLive
<1>BothLists. BothLists'
  BY Parts, <1>u, <1>e_leave, <1>g, <1>a DEF BothLists
<1>OneList. OneList'
  BY Parts, Kinds, <1>u, <1>e_pc, <1>g, <1>a DEF OneList
<1>Unlinked. Unlinked'
  BY Parts, Undos, <1>u, <1>e_leave, <1>e_pc, <1>g, <1>a DEF Unlinked
<1>OwnUndo. OwnUndo'
  BY Parts, Undos, Sites, <1>u, <1>e_leave, <1>e_pc, <1>g, <1>a DEF OwnUndo
<1>UsedSems. UsedSems'
  BY Parts, <1>O, <1>u, <1>e_pc DEF UsedSems
<1> QED BY <1>T, <1>c, <1>f, <1>SetLocks, <1>ListLocks, <1>Unlinking, <1>Removing, <1>HeldSets,
  <1>GoneSets, <1>ReferencesCovered, <1>RefNat, <1>Loaded, <1>KeptSets, <1>KeptUndo, <1>ExitList,
  <1>OwnList, <1>LinkedLive, <1>BothLists, <1>OneList, <1>Unlinked, <1>OwnUndo, <1>UsedSems DEF
  IInv, LockInv, SetInv, RefInv, RcuInv, ListInv, LinkInv

(* SETALL stores the values and clears the adjustments.                    *)
LEMMA IInv_setall ==
    ASSUME IInv, NEW p \in Procs, setall(p), ~deleted[sma[p]]
    PROVE  IInv'
<1> USE DEF Holding, Waiting, Referring, WakingUp
<1>t. /\ semval \in [Arrays -> Values] /\ mem \in [Arrays -> Mems] /\ refcount \in [Arrays -> Int]
      /\ grace \in [Arrays -> SUBSET Procs] /\ lock \in [Arrays -> Procs \cup {NoProc}]
      /\ idr \in [Slots -> Arrays \cup {NoArr}] /\ readers \subseteq Procs /\ un \in Uns
      /\ pc \in [Procs -> Labels] /\ cmd \in [Procs -> Cmds \cup {"none", "SEMOP", "EXIT"}]
      /\ sma \in [Procs -> Arrays \cup {NoArr}]
      /\ undo \in [Procs -> [list : Tasks \cup {NoProc}, set : Arrays \cup {NoArr}]]
      /\ idx \in [Procs -> Nat]
  BY Parts, UnType DEF TypeInv
<1>c. CallInv'
  <2>1. Next
    BY Kinds DEF Next, Step
  <2> QED BY Parts, <2>1, CallStep
<1>g. pc[p] = "copyin"
  BY DEF setall
<1>a. PICK a \in Arrays : a = sma[p]
  BY Parts, <1>g, Locals
<1>e. Counted(a) /\ mem[a] = "live"
  <2>1. p \in Holders(a)
    BY <1>g, <1>a DEF Holders
  <2>2. mem[a] = "live"
    BY Parts, <2>1 DEF ReferencesCovered
  <2> QED BY <1>a, <2>2 DEF Counted
<1>d. PICK w \in [Sems -> SetVals] : semval' = [semval EXCEPT ![a] = w]
  BY <1>a DEF setall
<1>j. lock[a] = NoProc /\ cmd[p] = "SETALL"
  BY <1>a DEF setall
<1>u. /\ UNCHANGED <<sem_pending, complex_count, deleted, idr, used_sems, rw_mutex, list_id, list_proc,
                     undo_list, ulp, refcnt, ulp_lock, cmd, sops, semid, sma, undo, status, outcome,
                     state, sig, timedout, tasks, semnum, walk, ref>>
  BY <1>t, <1>g, <1>a, <1>e, <1>d, <1>j DEF setall, Return, Goto, args, lists, ns, queue, ulpv
<1>e_put. /\ mem' \in [Arrays -> Mems] /\ refcount' \in [Arrays -> Int]
          /\ grace' \in [Arrays -> SUBSET Procs]
          /\ \A b \in Arrays : b # a =>
               mem'[b] = mem[b] /\ refcount'[b] = refcount[b] /\ grace'[b] = grace[b]
          /\ mem[a] = "live" /\ refcount[a] >= 1 /\ refcount'[a] = refcount[a] - 1
          /\ Counted(a) => mem'[a] = "live"
          /\ (mem'[a] = "live" /\ grace'[a] = grace[a]) \/ (mem'[a] = "rcu" /\ grace'[a] = readers)
          /\ mem'[a] = "rcu" => ~Counted(a) /\ Holders(a) \ {p} = {}
          /\ refcount[a] >= Cardinality(Holders(a)) + (IF Counted(a) THEN 1 ELSE 0)
  <2>1. p \in Holders(a)
    BY <1>a, <1>g DEF Holders
  <2>2. Putref(a, refcount[a])
    BY <1>a DEF setall
  <2>3. /\ mem' \in [Arrays -> Mems] /\ refcount' \in [Arrays -> Int]
        /\ grace' \in [Arrays -> SUBSET Procs]
        /\ \A b \in Arrays : b # a =>
             mem'[b] = mem[b] /\ refcount'[b] = refcount[b] /\ grace'[b] = grace[b]
        /\ mem[a] = "live" /\ refcount[a] >= 1 /\ refcount'[a] = refcount[a] - 1
        /\ refcount[a] >= Cardinality(Holders(a)) + (IF Counted(a) THEN 1 ELSE 0)
        /\ Cardinality(Holders(a)) >= 1
        /\ \/ refcount[a] > 1 /\ mem'[a] = mem[a] /\ grace'[a] = grace[a]
           \/ /\ refcount[a] = 1 /\ mem'[a] = "rcu" /\ grace'[a] = readers
              /\ ~Counted(a) /\ Holders(a) \ {p} = {}
    BY Parts, <2>1, <2>2, PutEffect
  <2> QED BY <2>3
<1>e_semval. semval' \in [Arrays -> Values]
  <2>1. w \in Values
    BY <1>d, SemConstants DEF Values
  <2> QED BY <1>t, <1>d, <2>1
<1>e_un. /\ un' \in Uns
        /\ \A v \in Tasks, b \in Arrays :
             /\ un'[v][b].mem = un[v][b].mem /\ un'[v][b].valid = un[v][b].valid
             /\ un'[v][b].grace = un[v][b].grace
  <2>1. un' = ClearAdjs(a, Sems)
    BY <1>a DEF setall
  <2> QED BY Parts, <2>1, ClearEffect
<1>e_lock. /\ lock' \in [Arrays -> Procs \cup {NoProc}] /\ lock'[a] = p /\ \A b \in Arrays : b # a => lock'[b] = lock[b]
  BY Parts, <1>t, Kinds, <1>g, <1>a, <1>e, <1>d, <1>j DEF setall, Return, Goto
<1>e_readers. readers' = (readers \cup {p}) /\ readers' \subseteq Procs
  BY Parts, <1>t, Kinds, <1>g, <1>a, <1>e, <1>d, <1>j DEF setall, Return, Goto
<1>e_idx. /\ idx' \in [Procs -> Nat] /\ idx'[p] = 1 /\ \A q \in Procs : q # p => idx'[q] = idx[q]
  BY Parts, <1>t, Kinds, <1>g, <1>a, <1>e, <1>d, <1>j DEF setall, Return, Goto
<1>e_pc. /\ pc' \in [Procs -> Labels] /\ pc'[p] = "smart" /\ \A q \in Procs : q # p => pc'[q] = pc[q]
  BY Parts, <1>t, Kinds, <1>g, <1>a, <1>e, <1>d, <1>j DEF setall, Return, Goto, Labels
<1>T. TypeInv'
  BY Parts, <1>u, <1>e_put, <1>e_semval, <1>e_un, <1>e_lock, <1>e_readers, <1>e_idx, <1>e_pc DEF
    TypeInv, Uns, UnRecs
<1>f. /\ UserCount' /\ FreshList' /\ OnceLinked'
  BY Parts, <1>u, Frames
<1>H. /\ Holders(a)' = Holders(a) \ {p} /\ Cardinality(Holders(a)') = Cardinality(Holders(a)) - 1
      /\ \A b \in Arrays : b # a => Holders(b)' = Holders(b)
  BY <1>a, <1>g, <1>u, <1>e_pc, HoldersDrop
<1>O. \A b \in Arrays : Counted(b)' = Counted(b)
  BY Kinds, Calls, <1>a, <1>g, <1>u, <1>e_pc, <1>e_put, CountedMem
<1>SetLocks. SetLocks'
  BY Parts, Kinds, <1>u, <1>e_lock, <1>e_pc, <1>g, <1>a, <1>e, <1>j DEF SetLocks
<1>ListLocks. ListLocks'
  BY Parts, Kinds, <1>u, <1>e_pc, <1>g, <1>a, <1>e, <1>j DEF ListLocks
<1>Unlinking. Unlinking'
  BY Parts, <1>u, <1>e_pc, <1>g, <1>a, <1>e, <1>j DEF Unlinking
<1>Removing. Removing'
  BY Parts, Calls, Kinds, <1>u, <1>e_pc, <1>g, <1>a, <1>e, <1>j DEF Removing
<1>SetLife. SetLife'
  BY Parts, <1>a, Kinds, <1>u, <1>e_put, <1>g, <1>e, <1>j DEF SetLife, Counted
<1>InTable. InTable'
  BY Parts, <1>u, <1>e_put, <1>g, <1>a, <1>e, <1>j DEF InTable
<1>HasUndos. HasUndos'
  BY Parts, <1>u, <1>e_put, <1>g, <1>a, <1>e, <1>j DEF HasUndos, Counted
<1>TableSets. TableSets'
  BY Parts, <1>t, <1>u, <1>e_put, <1>g, <1>a, <1>e, <1>j DEF TableSets, Counted
<1>HeldSets. HeldSets'
  BY Parts, Sites, <1>u, <1>e_pc, <1>g, <1>a, <1>e, <1>j DEF HeldSets
<1>GoneSets. GoneSets'
  BY Parts, Sites, Calls, Kinds, <1>u, <1>e_put, <1>e_pc, <1>g, <1>a, <1>e, <1>j DEF GoneSets, Counted
<1>ReferencesCovered. ReferencesCovered'
  <2>1. \A b \in Arrays : b # a /\ (Holders(b)' # {} \/ Counted(b)') =>
          mem'[b] = "live" /\ refcount'[b] >= Cardinality(Holders(b)') + (IF Counted(b)' THEN 1 ELSE 0)
    BY Parts, <1>H, <1>O, <1>e_put DEF ReferencesCovered
  <2>2. Holders(a)' # {} \/ Counted(a)' => mem'[a] = "live"
    BY <1>H, <1>O, <1>e_put
  <2>3. refcount[a] \in Int /\ Cardinality(Holders(a)) \in Nat
    BY <1>t, HoldersFinite
  <2>4. refcount'[a] >= Cardinality(Holders(a)') + (IF Counted(a)' THEN 1 ELSE 0)
    BY <1>H, <1>O, <1>e_put, <2>3
  <2> QED BY <2>1, <2>2, <2>4 DEF ReferencesCovered
<1>RefNat. RefNat'
  <2>1. refcount \in [Arrays -> Int] /\ \A b \in Arrays : refcount[b] >= 0
    BY Parts, <1>t DEF RefNat
  <2> QED BY <1>e_put, <2>1 DEF RefNat
<1>Loaded. Loaded'
  <2> SUFFICES ASSUME NEW q \in Procs, pc'[q] = "put" PROVE (ref[q] >= Cardinality(Holders(sma[q])))'
    BY DEF Loaded
  <2>1. q # p /\ pc[q] = "put" /\ sma'[q] = sma[q] /\ ref'[q] = ref[q] /\ sma[q] \in Arrays
    BY <1>u, Sites, <1>e_pc
  <2>2. PICK b \in Arrays : b = sma[q]
    BY <2>1
  <2>3. ref[q] >= Cardinality(Holders(b)) /\ ref[q] \in Int
    BY Parts, <2>1, <2>2 DEF Loaded, TypeInv
  <2>4. Holders(sma[q])' = Holders(b)'
    BY <2>1, <2>2 DEF Holders
  <2>5. Cardinality(Holders(b)') = Cardinality(Holders(b)) \/ Cardinality(Holders(b)') = Cardinality(Holders(b)) - 1
    BY <1>H
  <2>6. Cardinality(Holders(b)) \in Nat
    BY HoldersFinite
  <2> QED BY <2>1, <2>3, <2>4, <2>5, <2>6
<1>KeptSets. KeptSets'
  BY Parts, Sites, <1>u, <1>e_put, <1>e_readers, <1>e_pc, <1>g, <1>a, <1>e, <1>j DEF KeptSets, Kept
<1>KeptUndo. KeptUndo'
  BY Parts, Undos, <1>u, <1>e_readers, <1>e_un, <1>e_pc, <1>g, <1>a, <1>e, <1>j DEF KeptUndo, Kept
<1>ExitList. ExitList'
  BY Parts, Kinds, Calls, <1>u, <1>e_pc, <1>g, <1>a, <1>e, <1>j DEF ExitList, Users
<1>OwnList. OwnList'
  BY Parts, Kinds, Calls, <1>u, <1>e_pc, <1>g, <1>a, <1>e, <1>j DEF OwnList
<1>LinkedLive. LinkedLive'
  BY Parts, <1>u, <1>e_un, <1>g, <1>a, <1>e, <1>j DEF LinkedLive
<1>BothLists. BothLists'
  BY Parts, <1>u, <1>e_un, <1>g, <1>a, <1>e, <1>j DEF BothLists
<1>OneList. OneList'
  BY Parts, Kinds, <1>u, <1>e_pc, <1>g, <1>a, <1>e, <1>j DEF OneList
<1>Unlinked. Unlinked'
  BY Parts, Undos, <1>u, <1>e_un, <1>e_pc, <1>g, <1>a, <1>e, <1>j DEF Unlinked
<1>OwnUndo. OwnUndo'
  BY Parts, Undos, Sites, <1>u, <1>e_un, <1>e_pc, <1>g, <1>a, <1>e, <1>j DEF OwnUndo
<1>UsedSems. UsedSems'
  BY Parts, <1>O, <1>u, <1>e_put, <1>e_pc DEF UsedSems
<1> QED BY <1>T, <1>c, <1>f, <1>SetLocks, <1>ListLocks, <1>Unlinking, <1>Removing, <1>SetLife,
  <1>InTable, <1>HasUndos, <1>TableSets, <1>HeldSets, <1>GoneSets, <1>ReferencesCovered, <1>RefNat,
  <1>Loaded, <1>KeptSets, <1>KeptUndo, <1>ExitList, <1>OwnList, <1>LinkedLive, <1>BothLists,
  <1>OneList, <1>Unlinked, <1>OwnUndo, <1>UsedSems DEF IInv, LockInv, SetInv, RefInv, RcuInv,
  ListInv, LinkInv

(* freeary() takes the set.                                                *)
LEMMA IInv_freeary ==
    ASSUME IInv, NEW p \in Procs, freeary(p)
    PROVE  IInv'
<1> USE DEF Holding, Waiting, Referring, WakingUp
<1>t. /\ lock \in [Arrays -> Procs \cup {NoProc}] /\ pc \in [Procs -> Labels]
      /\ cmd \in [Procs -> Cmds \cup {"none", "SEMOP", "EXIT"}]
      /\ sma \in [Procs -> Arrays \cup {NoArr}]
      /\ undo \in [Procs -> [list : Tasks \cup {NoProc}, set : Arrays \cup {NoArr}]]
  BY Parts, UnType DEF TypeInv
<1>c. CallInv'
  <2>1. Next
    BY Kinds DEF Next, Step
  <2> QED BY Parts, <2>1, CallStep
<1>g. /\ pc[p] = "clock" /\ sma[p] \in Arrays /\ lock[sma[p]] = NoProc /\ p \in readers
      /\ ~deleted[sma[p]] /\ mem[sma[p]] = "live" /\ Counted(sma[p]) /\ IdOf[sma[p]] = semid[p]
  <2>1. Found(p, "clock")
    BY DEF freeary
  <2> QED BY Parts, <2>1, FoundSet
<1>a. PICK a \in Arrays : a = sma[p]
  BY Parts, <1>g, Locals
<1>u. /\ UNCHANGED <<semval, sem_pending, complex_count, mem, refcount, deleted, grace, idr, used_sems,
                     rw_mutex, list_id, list_proc, readers, undo_list, ulp, refcnt, ulp_lock, un, cmd,
                     sops, semid, sma, undo, status, outcome, state, sig, timedout, tasks, idx, semnum,
                     walk, ref, res>>
  BY <1>t, <1>g, <1>a DEF freeary, Goto, args, arrayv, life, lists, ns, queue, scanv, sched, ulpv
<1>e_lock. /\ lock' \in [Arrays -> Procs \cup {NoProc}] /\ lock'[a] = p /\ \A b \in Arrays : b # a => lock'[b] = lock[b]
  BY Parts, <1>t, Kinds, <1>g, <1>a DEF freeary, Goto
<1>e_pc. /\ pc' \in [Procs -> Labels] /\ pc'[p] = "fundo" /\ \A q \in Procs : q # p => pc'[q] = pc[q]
  BY Parts, <1>t, Kinds, <1>g, <1>a DEF freeary, Goto, Labels
<1>T. TypeInv'
  BY Parts, <1>u, <1>e_lock, <1>e_pc DEF TypeInv, Uns, UnRecs
<1>f. /\ SetLife' /\ InTable' /\ HasUndos' /\ TableSets' /\ RefNat' /\ UserCount' /\ FreshList'
      /\ OnceLinked' /\ LinkedLive' /\ BothLists'
  BY Parts, <1>u, Frames
<1>H. \A b \in Arrays : Holders(b)' = Holders(b)
  BY Kinds, <1>u, <1>e_pc, <1>g, <1>a, HoldersSame
<1>O. \A b \in Arrays : Counted(b)' = Counted(b)
  BY Kinds, Calls, <1>u, <1>e_pc, <1>g, <1>a, CountedSame
<1>SetLocks. SetLocks'
  BY Parts, Kinds, <1>u, <1>e_lock, <1>e_pc, <1>g, <1>a DEF SetLocks
<1>ListLocks. ListLocks'
  BY Parts, Kinds, <1>u, <1>e_pc, <1>g, <1>a DEF ListLocks
<1>Unlinking. Unlinking'
  BY Parts, <1>u, <1>e_pc, <1>g, <1>a DEF Unlinking
<1>Removing. Removing'
  BY Parts, Calls, Kinds, <1>u, <1>e_pc, <1>g, <1>a DEF Removing
<1>HeldSets. HeldSets'
  BY Parts, Sites, <1>u, <1>e_pc, <1>g, <1>a DEF HeldSets
<1>GoneSets. GoneSets'
  BY Parts, Sites, Calls, <1>u, <1>e_pc, <1>g, <1>a DEF GoneSets
<1>ReferencesCovered. ReferencesCovered'
  BY Parts, <1>H, <1>O, <1>t, <1>u, <1>e_pc, <1>g, <1>a, HoldersFinite DEF ReferencesCovered
<1>Loaded. Loaded'
  BY Parts, Sites, <1>H, Calls, <1>t, <1>u, <1>e_pc, <1>g, <1>a, HoldersFinite DEF Loaded
<1>KeptSets. KeptSets'
  BY Parts, Sites, <1>u, <1>e_pc, <1>g, <1>a DEF KeptSets, Kept
<1>KeptUndo. KeptUndo'
  BY Parts, Undos, <1>u, <1>e_pc, <1>g, <1>a DEF KeptUndo, Kept
<1>ExitList. ExitList'
  BY Parts, Kinds, Calls, <1>u, <1>e_pc, <1>g, <1>a DEF ExitList, Users
<1>OwnList. OwnList'
  BY Parts, Kinds, Calls, <1>u, <1>e_pc, <1>g, <1>a DEF OwnList
<1>OneList. OneList'
  BY Parts, Kinds, <1>u, <1>e_pc, <1>g, <1>a DEF OneList
<1>Unlinked. Unlinked'
  BY Parts, Undos, <1>u, <1>e_pc, <1>g, <1>a DEF Unlinked
<1>OwnUndo. OwnUndo'
  BY Parts, Undos, Sites, <1>u, <1>e_pc, <1>g, <1>a DEF OwnUndo
<1>UsedSems. UsedSems'
  BY Parts, <1>O, <1>u, <1>e_pc DEF UsedSems
<1> QED BY <1>T, <1>c, <1>f, <1>SetLocks, <1>ListLocks, <1>Unlinking, <1>Removing, <1>HeldSets,
  <1>GoneSets, <1>ReferencesCovered, <1>Loaded, <1>KeptSets, <1>KeptUndo, <1>ExitList, <1>OwnList,
  <1>OneList, <1>Unlinked, <1>OwnUndo, <1>UsedSems DEF IInv, LockInv, SetInv, RefInv, RcuInv,
  ListInv, LinkInv

-----------------------------------------------------------------------------
(* freeary() and exit_sem().                                               *)

(* freeary(), first half: off list_id, semid = -1, ulp->lock.              *)
LEMMA IInv_freeary_invalidate ==
    ASSUME IInv, NEW p \in Procs, freeary_invalidate(p)
    PROVE  IInv'
<1> USE DEF Holding, Waiting, Referring, WakingUp
<1>t. /\ lock \in [Arrays -> Procs \cup {NoProc}] /\ list_id \in [Arrays -> SUBSET Tasks]
      /\ ulp_lock \in [Tasks -> Ctls \cup {NoProc}] /\ un \in Uns /\ pc \in [Procs -> Labels]
      /\ cmd \in [Procs -> Cmds \cup {"none", "SEMOP", "EXIT"}]
      /\ sma \in [Procs -> Arrays \cup {NoArr}]
      /\ undo \in [Procs -> [list : Tasks \cup {NoProc}, set : Arrays \cup {NoArr}]]
  BY Parts, UnType DEF TypeInv
<1>c. CallInv'
  <2>1. Next
    BY Kinds DEF Next, Step
  <2> QED BY Parts, <2>1, CallStep
<1>g. pc[p] = "fundo"
  BY DEF freeary_invalidate
<1>a. PICK a \in Arrays : a = sma[p]
  BY Parts, <1>g, Locals
<1>b. cmd[p] = "RMID" /\ p \in Ctls /\ lock[a] = p
  BY Parts, <1>g, <1>a, Locals DEF SetLocks
<1>d. PICK u \in list_id[a] :
        /\ ulp_lock[u] = NoProc /\ list_id' = [list_id EXCEPT ![a] = @ \ {u}]
        /\ ulp_lock' = [ulp_lock EXCEPT ![u] = p] /\ un' = [un EXCEPT ![u][a].valid = FALSE]
        /\ undo' = [undo EXCEPT ![p] = [list |-> u, set |-> a]]
  BY <1>a DEF freeary_invalidate
<1>e. u \in Tasks /\ u \in list_id[a] /\ ulp_lock[u] = NoProc
  BY <1>t, <1>d
<1>u. /\ UNCHANGED <<semval, sem_pending, complex_count, mem, refcount, deleted, grace, lock, idr,
                     used_sems, rw_mutex, list_proc, readers, undo_list, ulp, refcnt, cmd, sops, semid,
                     sma, status, outcome, state, sig, timedout, tasks, idx, semnum, walk, ref, res>>
  BY <1>t, <1>d DEF freeary_invalidate, Goto, args, arrayv, life, ns, queue, scanv, sched
<1>e_pc. /\ pc' \in [Procs -> Labels] /\ pc'[p] = "funlink" /\ \A q \in Procs : q # p => pc'[q] = pc[q]
  BY Parts, <1>t, Kinds, <1>g, <1>a, <1>b, <1>d, <1>e DEF freeary_invalidate, Goto, Labels
<1>e_list_id. /\ list_id' \in [Arrays -> SUBSET Tasks] /\ list_id'[a] = list_id[a] \ {u} /\ \A b \in Arrays : b # a => list_id'[b] = list_id[b]
  BY <1>t, <1>d
<1>e_ulp_lock. /\ ulp_lock' \in [Tasks -> Ctls \cup {NoProc}] /\ ulp_lock'[u] = p /\ \A v \in Tasks : v # u => ulp_lock'[v] = ulp_lock[v]
  BY <1>t, <1>b, <1>d, <1>e
<1>e_undo. /\ undo' \in [Procs -> [list : Tasks \cup {NoProc}, set : Arrays \cup {NoArr}]] /\ undo'[p] = [list |-> u, set |-> a] /\ \A q \in Procs : q # p => undo'[q] = undo[q]
  BY <1>t, <1>d, <1>e
<1>e_un. /\ un' \in Uns /\ un'[u][a].valid = FALSE
         /\ \A v \in Tasks, b \in Arrays :
              /\ un'[v][b].mem = un[v][b].mem /\ un'[v][b].grace = un[v][b].grace
              /\ v # u \/ b # a => un'[v][b].valid = un[v][b].valid
  BY Parts, <1>d, <1>e, InvalidEffect
<1>T. TypeInv'
  BY Parts, <1>u, <1>e_pc, <1>e_list_id, <1>e_ulp_lock, <1>e_undo, <1>e_un DEF TypeInv, Uns, UnRecs
<1>f. /\ SetLife' /\ InTable' /\ TableSets' /\ RefNat' /\ UserCount' /\ OnceLinked'
  BY Parts, <1>u, Frames
<1>H. \A b \in Arrays : Holders(b)' = Holders(b)
  BY Kinds, <1>u, <1>e_pc, <1>g, <1>a, <1>b, <1>e, HoldersSame
<1>O. \A b \in Arrays : Counted(b)' = Counted(b)
  BY Kinds, Calls, <1>u, <1>e_pc, <1>g, <1>a, <1>b, <1>e, CountedSame
<1>SetLocks. SetLocks'
  BY Parts, Kinds, <1>u, <1>e_pc, <1>g, <1>a, <1>b, <1>e DEF SetLocks
<1>ListLocks. ListLocks'
  BY Parts, Kinds, <1>u, <1>e_ulp_lock, <1>e_pc, <1>e_undo, <1>g, <1>a, <1>b, <1>e DEF ListLocks
<1>Unlinking. Unlinking'
  BY Parts, <1>u, <1>e_pc, <1>e_undo, <1>g, <1>a, <1>b, <1>e DEF Unlinking
<1>Removing. Removing'
  BY Parts, Calls, Kinds, <1>u, <1>e_pc, <1>g, <1>a, <1>b, <1>e DEF Removing
<1>HasUndos. HasUndos'
  BY Parts, <1>u, <1>e_list_id, <1>g, <1>a, <1>b, <1>e DEF HasUndos
<1>HeldSets. HeldSets'
  BY Parts, Sites, <1>u, <1>e_pc, <1>g, <1>a, <1>b, <1>e DEF HeldSets
<1>GoneSets. GoneSets'
  BY Parts, Sites, Calls, <1>u, <1>e_pc, <1>g, <1>a, <1>b, <1>e DEF GoneSets
<1>ReferencesCovered. ReferencesCovered'
  BY Parts, <1>H, <1>O, <1>t, <1>u, <1>e_pc, <1>g, <1>a, <1>b, <1>e, HoldersFinite DEF
    ReferencesCovered
<1>Loaded. Loaded'
  BY Parts, Sites, <1>H, Calls, <1>t, <1>u, <1>e_pc, <1>g, <1>a, <1>b, <1>e, HoldersFinite DEF Loaded
<1>KeptSets. KeptSets'
  BY Parts, Sites, <1>u, <1>e_pc, <1>g, <1>a, <1>b, <1>e DEF KeptSets, Kept
<1>KeptUndo. KeptUndo'
  BY Parts, Undos, <1>u, <1>e_un, <1>e_pc, <1>e_undo, <1>g, <1>a, <1>b, <1>e DEF KeptUndo, Kept
<1>ExitList. ExitList'
  BY Parts, Kinds, Calls, <1>u, <1>e_pc, <1>e_undo, <1>g, <1>a, <1>b, <1>e DEF ExitList, Users
<1>FreshList. FreshList'
  BY Parts, Kinds, Calls, <1>u, <1>e_undo, <1>g, <1>a, <1>b, <1>e DEF FreshList, Users
<1>OwnList. OwnList'
  BY Parts, Kinds, Calls, <1>u, <1>e_pc, <1>e_undo, <1>g, <1>a, <1>b, <1>e DEF OwnList
<1>LinkedLive. LinkedLive'
  BY Parts, <1>u, <1>e_un, <1>g, <1>a, <1>b, <1>e DEF LinkedLive
<1>BothLists. BothLists'
  BY Parts, <1>u, <1>e_list_id, <1>e_un, <1>g, <1>a, <1>b, <1>e DEF BothLists
<1>OneList. OneList'
  <2> SUFFICES ASSUME NEW v \in Tasks, NEW b \in Arrays, b \in ToSet(list_proc'[v]), v \notin list_id'[b]
               PROVE  (\E c \in Ctls : pc[c] = "funlink" /\ undo[c] = [list |-> v, set |-> b])'
    BY DEF OneList
  <2>1. CASE v = u /\ b = a
    BY <1>b, <1>e_pc, <1>e_undo, <2>1
  <2>2. CASE v # u \/ b # a
    <3>1. b \in ToSet(list_proc[v]) /\ v \notin list_id[b]
        BY <1>u, <1>e_list_id, <2>2
    <3>2. PICK c \in Ctls : pc[c] = "funlink" /\ undo[c] = [list |-> v, set |-> b]
        BY Parts, <3>1 DEF OneList
    <3>3. pc'[c] = pc[c] /\ undo'[c] = undo[c]
        BY Kinds, <3>2, <1>g, <1>e_pc, <1>e_undo
    <3> QED BY <3>2, <3>3
  <2> QED BY <2>1, <2>2
<1>Unlinked. Unlinked'
  BY Parts, Undos, <1>u, <1>e_list_id, <1>e_un, <1>e_pc, <1>e_undo, <1>g, <1>a, <1>b, <1>e DEF
    Unlinked
<1>OwnUndo. OwnUndo'
  <2> SUFFICES ASSUME NEW q \in Procs
               PROVE  /\ (cmd[q] = "SEMOP" /\ undo[q].set # NoArr =>
                            /\ IdOf[undo[q].set] = semid[q]
                            /\ un[undo[q].list][undo[q].set].valid => undo[q].list \in list_id[undo[q].set]
                            /\ pc[q] \in {"smart", "scan"} =>
                                 undo[q].set = sma[q] /\ un[undo[q].list][undo[q].set].valid)'
                      /\ (pc[q] = "ualloc" => IdOf[sma[q]] = semid[q])'
    BY DEF OwnUndo
  <2>1. CASE q = p
    BY <1>u, <1>b, <1>e_pc, <2>1
  <2>2. CASE q # p
    <3>1. pc'[q] = pc[q] /\ undo'[q] = undo[q]
        BY <1>e_pc, <1>e_undo, <2>2
    <3>2. pc[q] = "ualloc" => IdOf[sma[q]] = semid[q]
        BY Parts DEF OwnUndo
    <3>3. CASE ~(cmd[q] = "SEMOP" /\ undo[q].set # NoArr)
        BY <1>u, <3>1, <3>2, <3>3
    <3>4. CASE cmd[q] = "SEMOP" /\ undo[q].set # NoArr
      <4>1. PICK r \in Tasks, y \in Arrays : r = undo[q].list /\ y = undo[q].set
        BY Undos, <3>4
      <4>2. /\ IdOf[y] = semid[q] /\ (un[r][y].valid => r \in list_id[y])
            /\ pc[q] \in {"smart", "scan"} => y = sma[q] /\ un[r][y].valid
        BY Parts, <3>4, <4>1 DEF OwnUndo
      <4>3. pc[q] \in {"smart", "scan"} => lock[sma[q]] = q
        BY Parts, Sites DEF SetLocks
      <4>4. pc[q] \in {"smart", "scan"} => y # a
        BY <1>b, <2>2, <4>2, <4>3
      <4>5. /\ r # u \/ y # a => un'[r][y].valid = un[r][y].valid /\ (r \in list_id'[y] <=> r \in list_id[y])
            /\ r = u /\ y = a => ~un'[r][y].valid
        BY <1>e_un, <1>e_list_id
      <4> QED BY <1>u, <3>1, <3>2, <4>1, <4>2, <4>4, <4>5
    <3> QED BY <3>3, <3>4
  <2> QED BY <2>1, <2>2
<1>UsedSems. UsedSems'
  BY Parts, <1>O, <1>u, <1>e_pc DEF UsedSems
<1> QED BY <1>T, <1>c, <1>f, <1>SetLocks, <1>ListLocks, <1>Unlinking, <1>Removing, <1>HasUndos,
  <1>HeldSets, <1>GoneSets, <1>ReferencesCovered, <1>Loaded, <1>KeptSets, <1>KeptUndo, <1>ExitList,
  <1>FreshList, <1>OwnList, <1>LinkedLive, <1>BothLists, <1>OneList, <1>Unlinked, <1>OwnUndo,
  <1>UsedSems DEF IInv, LockInv, SetInv, RefInv, RcuInv, ListInv, LinkInv

(* freeary(), second half: off list_proc, to RCU.                          *)
LEMMA IInv_freeary_unlink ==
    ASSUME IInv, NEW p \in Procs, freeary_unlink(p)
    PROVE  IInv'
<1> USE DEF Holding, Waiting, Referring, WakingUp
<1>t. /\ lock \in [Arrays -> Procs \cup {NoProc}] /\ list_proc \in [Tasks -> Seq(Arrays)]
      /\ ulp_lock \in [Tasks -> Ctls \cup {NoProc}] /\ un \in Uns /\ pc \in [Procs -> Labels]
      /\ cmd \in [Procs -> Cmds \cup {"none", "SEMOP", "EXIT"}]
      /\ sma \in [Procs -> Arrays \cup {NoArr}]
      /\ undo \in [Procs -> [list : Tasks \cup {NoProc}, set : Arrays \cup {NoArr}]]
  BY Parts, UnType DEF TypeInv
<1>c. CallInv'
  <2>1. Next
    BY Kinds DEF Next, Step
  <2> QED BY Parts, <2>1, CallStep
<1>g. pc[p] = "funlink"
  BY DEF freeary_unlink
<1>a. PICK a \in Arrays : a = sma[p]
  BY Parts, <1>g, Locals
<1>b. PICK u \in Tasks : u = undo[p].list /\ a = undo[p].set
  BY Parts, <1>a, <1>g DEF Unlinking
<1>e. /\ cmd[p] = "RMID" /\ p \in Ctls /\ ulp_lock[u] = p /\ u \notin list_id[a]
      /\ undo[p] = [list |-> u, set |-> a]
  <2>1. undo[p] \in [list : Tasks \cup {NoProc}, set : Arrays \cup {NoArr}]
    BY <1>t
  <2>2. undo[p] = [list |-> u, set |-> a]
    BY <1>b, <2>1
  <2>3. ulp_lock[u] = p /\ u \notin list_id[a]
    BY Parts, <1>g, <1>b DEF ListLocks, Unlinked
  <2> QED BY Parts, <1>g, <2>2, <2>3, Locals
<1>u. /\ UNCHANGED <<semval, sem_pending, complex_count, mem, refcount, deleted, grace, lock, idr,
                     used_sems, rw_mutex, list_id, readers, undo_list, ulp, refcnt, cmd, sops, semid,
                     sma, undo, status, outcome, state, sig, timedout, tasks, idx, semnum, walk, ref,
                     res>>
  BY <1>t, <1>g, <1>a, <1>b, <1>e DEF freeary_unlink, Goto, args, arrayv, life, ns, queue, scanv,
    sched
<1>e_pc. /\ pc' \in [Procs -> Labels] /\ pc'[p] = "fundo" /\ \A q \in Procs : q # p => pc'[q] = pc[q]
  BY Parts, <1>t, Kinds, <1>g, <1>a, <1>b, <1>e DEF freeary_unlink, Goto, Labels
<1>e_ulp_lock. /\ ulp_lock' \in [Tasks -> Ctls \cup {NoProc}] /\ ulp_lock'[u] = NoProc /\ \A v \in Tasks : v # u => ulp_lock'[v] = ulp_lock[v]
  BY Parts, <1>t, Kinds, <1>g, <1>a, <1>b, <1>e DEF freeary_unlink, Goto
<1>e_un. /\ un' \in Uns /\ un'[u][a].mem = "rcu" /\ un'[u][a].grace = readers /\ un'[u][a].valid = un[u][a].valid
         /\ \A v \in Tasks, b \in Arrays : un'[v][b].valid = un[v][b].valid /\ (v # u \/ b # a => un'[v][b] = un[v][b])
  <2>1. call_rcu(u, a)
    BY <1>a, <1>b DEF freeary_unlink
  <2>2. /\ un' \in Uns /\ un'[u][a].mem = "rcu" /\ un'[u][a].grace = readers /\ un'[u][a].valid = un[u][a].valid
        /\ \A v \in Tasks, b \in Arrays : v # u \/ b # a => un'[v][b] = un[v][b]
    BY Parts, <2>1, RcuEffect
  <2> QED BY <2>2
<1>e_list_proc. /\ list_proc' \in [Tasks -> Seq(Arrays)] /\ IsInjective(list_proc'[u])
                /\ \A v \in Tasks : v # u => list_proc'[v] = list_proc[v]
                /\ ToSet(list_proc'[u]) = ToSet(list_proc[u]) \ {a}
  <2>1. unlink_proc(u, a)
    BY <1>a, <1>b DEF freeary_unlink
  <2> QED BY Parts, <2>1, UnlinkEffect
<1>T. TypeInv'
  BY Parts, <1>u, <1>e_pc, <1>e_ulp_lock, <1>e_un, <1>e_list_proc DEF TypeInv, Uns, UnRecs
<1>f. /\ SetLife' /\ InTable' /\ HasUndos' /\ TableSets' /\ RefNat' /\ UserCount' /\ FreshList'
  BY Parts, <1>u, Frames
<1>H. \A b \in Arrays : Holders(b)' = Holders(b)
  BY Kinds, <1>u, <1>e_pc, <1>g, <1>a, <1>b, <1>e, HoldersSame
<1>O. \A b \in Arrays : Counted(b)' = Counted(b)
  BY Kinds, Calls, <1>u, <1>e_pc, <1>g, <1>a, <1>b, <1>e, CountedSame
<1>SetLocks. SetLocks'
  BY Parts, Kinds, <1>u, <1>e_pc, <1>g, <1>a, <1>b, <1>e DEF SetLocks
<1>ListLocks. ListLocks'
  BY Parts, Kinds, <1>u, <1>e_ulp_lock, <1>e_pc, <1>g, <1>a, <1>b, <1>e DEF ListLocks
<1>Unlinking. Unlinking'
  BY Parts, <1>u, <1>e_pc, <1>g, <1>a, <1>b, <1>e DEF Unlinking
<1>Removing. Removing'
  BY Parts, Calls, Kinds, <1>u, <1>e_pc, <1>g, <1>a, <1>b, <1>e DEF Removing
<1>HeldSets. HeldSets'
  BY Parts, Sites, <1>u, <1>e_pc, <1>g, <1>a, <1>b, <1>e DEF HeldSets
<1>GoneSets. GoneSets'
  BY Parts, Sites, Calls, <1>u, <1>e_pc, <1>g, <1>a, <1>b, <1>e DEF GoneSets
<1>ReferencesCovered. ReferencesCovered'
  BY Parts, <1>H, <1>O, <1>t, <1>u, <1>e_pc, <1>g, <1>a, <1>b, <1>e, HoldersFinite DEF
    ReferencesCovered
<1>Loaded. Loaded'
  BY Parts, Sites, <1>H, Calls, <1>t, <1>u, <1>e_pc, <1>g, <1>a, <1>b, <1>e, HoldersFinite DEF Loaded
<1>KeptSets. KeptSets'
  BY Parts, Sites, <1>u, <1>e_pc, <1>g, <1>a, <1>b, <1>e DEF KeptSets, Kept
<1>KeptUndo. KeptUndo'
  BY Parts, Undos, <1>u, <1>e_un, <1>e_pc, <1>g, <1>a, <1>b, <1>e DEF KeptUndo, Kept
<1>ExitList. ExitList'
  BY Parts, Kinds, Calls, <1>u, <1>e_pc, <1>g, <1>a, <1>b, <1>e DEF ExitList, Users
<1>OwnList. OwnList'
  BY Parts, Kinds, Calls, <1>u, <1>e_pc, <1>g, <1>a, <1>b, <1>e DEF OwnList
<1>OnceLinked. OnceLinked'
  BY Parts, <1>u, <1>e_list_proc, <1>g, <1>a, <1>b, <1>e DEF OnceLinked
<1>LinkedLive. LinkedLive'
  BY Parts, <1>u, <1>e_list_proc, <1>e_un, <1>g, <1>a, <1>b, <1>e DEF LinkedLive
<1>BothLists. BothLists'
  BY Parts, <1>u, <1>e_list_proc, <1>e_un, <1>g, <1>a, <1>b, <1>e DEF BothLists
<1>OneList. OneList'
  <2> SUFFICES ASSUME NEW v \in Tasks, NEW b \in Arrays, b \in ToSet(list_proc'[v]), v \notin list_id'[b]
               PROVE  (\E c \in Ctls : pc[c] = "funlink" /\ undo[c] = [list |-> v, set |-> b])'
    BY DEF OneList
  <2>1. b \in ToSet(list_proc[v]) /\ v \notin list_id[b] /\ (v # u \/ b # a)
    BY <1>u, <1>e_list_proc
  <2>2. PICK c \in Ctls : pc[c] = "funlink" /\ undo[c] = [list |-> v, set |-> b]
    BY Parts, <2>1 DEF OneList
  <2>3. c # p
    BY <1>e, <2>1, <2>2
  <2>4. pc'[c] = pc[c] /\ undo'[c] = undo[c]
    BY Kinds, <1>u, <1>e_pc, <2>3
  <2> QED BY <2>2, <2>4
<1>Unlinked. Unlinked'
  BY Parts, Undos, <1>u, <1>e_list_proc, <1>e_un, <1>e_pc, <1>g, <1>a, <1>b, <1>e DEF Unlinked
<1>OwnUndo. OwnUndo'
  BY Parts, Undos, Sites, <1>u, <1>e_un, <1>e_pc, <1>g, <1>a, <1>b, <1>e DEF OwnUndo
<1>UsedSems. UsedSems'
  BY Parts, <1>O, <1>u, <1>e_pc DEF UsedSems
<1> QED BY <1>T, <1>c, <1>f, <1>SetLocks, <1>ListLocks, <1>Unlinking, <1>Removing, <1>HeldSets,
  <1>GoneSets, <1>ReferencesCovered, <1>Loaded, <1>KeptSets, <1>KeptUndo, <1>ExitList, <1>OwnList,
  <1>OnceLinked, <1>LinkedLive, <1>BothLists, <1>OneList, <1>Unlinked, <1>OwnUndo, <1>UsedSems DEF
  IInv, LockInv, SetInv, RefInv, RcuInv, ListInv, LinkInv

(* freeary() takes the set out of the table and releases everybody.        *)
LEMMA IInv_freeary_rmid ==
    ASSUME IInv, NEW p \in Procs, freeary_rmid(p)
    PROVE  IInv'
<1> USE DEF Holding, Waiting, Referring, WakingUp
<1>t. /\ sem_pending \in [Arrays -> Seq(Tasks)] /\ complex_count \in [Arrays -> Int]
      /\ deleted \in [Arrays -> BOOLEAN] /\ grace \in [Arrays -> SUBSET Procs]
      /\ lock \in [Arrays -> Procs \cup {NoProc}] /\ idr \in [Slots -> Arrays \cup {NoArr}]
      /\ readers \subseteq Procs /\ un \in Uns /\ pc \in [Procs -> Labels]
      /\ cmd \in [Procs -> Cmds \cup {"none", "SEMOP", "EXIT"}]
      /\ sma \in [Procs -> Arrays \cup {NoArr}]
      /\ undo \in [Procs -> [list : Tasks \cup {NoProc}, set : Arrays \cup {NoArr}]]
      /\ status \in [Procs -> Errors \cup {"IN_WAKEUP"}] /\ outcome \in [Procs -> Errors]
      /\ tasks \in [Procs -> Seq(Tasks)]
  BY Parts, UnType DEF TypeInv
<1>c. CallInv'
  <2>1. Next
    BY Kinds DEF Next, Step
  <2> QED BY Parts, <2>1, CallStep
<1>g. pc[p] = "fundo"
  BY DEF freeary_rmid
<1>a. PICK a \in Arrays : a = sma[p]
  BY Parts, <1>g, Locals
<1>b. /\ cmd[p] = "RMID" /\ p \in Ctls /\ lock[a] = p /\ IdOf[a][1] \in Slots
      /\ ~deleted[a] /\ mem[a] = "live" /\ idr[IdOf[a][1]] = a /\ list_id[a] = {}
  <2>1. cmd[p] = "RMID" /\ p \in Ctls /\ lock[a] = p
    BY Parts, <1>g, <1>a, Locals DEF SetLocks
  <2>2. ~deleted[a] /\ mem[a] = "live"
    <3>1. ~deleted[a] /\ mem[a] \in {"live", "rcu"}
        BY Parts, <1>g, <1>a DEF HeldSets, KeptSets, Kept
    <3> QED BY Parts, <3>1 DEF SetLife
  <2>3. idr[IdOf[a][1]] = a
    BY Parts, <2>2 DEF InTable
  <2>4. IdOf[a][1] \in Slots
    BY DEF Slots, Ids
  <2> QED BY <1>a, <2>1, <2>2, <2>3, <2>4 DEF freeary_rmid
<1>e. \A b \in Arrays : IdOf[b][1] \in Slots
  BY DEF Slots, Ids
<1>d. PICK s1 \in Slots : s1 = IdOf[a][1]
  BY <1>b
<1>u. /\ UNCHANGED <<semval, mem, refcount, used_sems, rw_mutex, list_id, list_proc, undo_list, ulp,
                     refcnt, ulp_lock, cmd, sops, semid, sma, undo, state, sig, timedout, idx, semnum,
                     walk, ref, res>>
  BY <1>t, <1>g, <1>a, <1>b, <1>e, <1>d DEF freeary_rmid, Goto, args, lists, sched, ulpv
<1>e_pc. /\ pc' \in [Procs -> Labels] /\ pc'[p] = "wake" /\ \A q \in Procs : q # p => pc'[q] = pc[q]
  BY Parts, <1>t, Kinds, <1>g, <1>a, <1>b, <1>e, <1>d DEF freeary_rmid, Goto, Labels
<1>e_leave. /\ readers' = readers \ {p} /\ readers' \subseteq Procs
            /\ grace' \in [Arrays -> SUBSET Procs] /\ un' \in Uns
            /\ \A b \in Arrays : grace'[b] = grace[b] \ {p}
            /\ \A v \in Tasks, b \in Arrays :
                 /\ un'[v][b].mem = un[v][b].mem /\ un'[v][b].valid = un[v][b].valid
                 /\ un'[v][b].grace = un[v][b].grace \ {p}
  <2>1. Leave(p)
    BY <1>t, <1>g, <1>a, <1>b, <1>e, <1>d DEF freeary_rmid
  <2> QED BY Parts, <2>1, LeaveEffect
<1>e_lock. /\ lock' \in [Arrays -> Procs \cup {NoProc}] /\ lock'[a] = NoProc /\ \A b \in Arrays : b # a => lock'[b] = lock[b]
  BY Parts, <1>t, Kinds, <1>g, <1>a, <1>b, <1>e, <1>d DEF freeary_rmid, Goto
<1>e_deleted. /\ deleted' \in [Arrays -> BOOLEAN] /\ deleted'[a] = TRUE /\ \A b \in Arrays : b # a => deleted'[b] = deleted[b]
  BY Parts, <1>t, Kinds, <1>g, <1>a, <1>b, <1>e, <1>d DEF freeary_rmid, Goto
<1>e_idr. /\ idr' \in [Slots -> Arrays \cup {NoArr}] /\ idr'[s1] = NoArr /\ \A s \in Slots : s # s1 => idr'[s] = idr[s]
  BY Parts, <1>t, Kinds, <1>g, <1>a, <1>b, <1>e, <1>d DEF freeary_rmid, Goto
<1>e_sem_pending. /\ sem_pending' \in [Arrays -> Seq(Tasks)] /\ sem_pending'[a] = <<>> /\ \A b \in Arrays : b # a => sem_pending'[b] = sem_pending[b]
  BY Parts, <1>t, Kinds, <1>g, <1>a, <1>b, <1>e, <1>d DEF freeary_rmid, Goto
<1>e_complex_count. /\ complex_count' \in [Arrays -> Int] /\ complex_count'[a] = 0 /\ \A b \in Arrays : b # a => complex_count'[b] = complex_count[b]
  BY Parts, <1>t, Kinds, <1>g, <1>a, <1>b, <1>e, <1>d DEF freeary_rmid, Goto
<1>e_status. status' \in [Procs -> Errors \cup {"IN_WAKEUP"}] /\ outcome' \in [Procs -> Errors]
  BY <1>t DEF freeary_rmid, Errors
<1>e_tasks. /\ tasks' \in [Procs -> Seq(Tasks)] /\ tasks'[p] = sem_pending[a] /\ \A q \in Procs : q # p => tasks'[q] = tasks[q]
  BY Parts, <1>t, Kinds, <1>g, <1>a, <1>b, <1>e, <1>d DEF freeary_rmid, Goto
<1>T. TypeInv'
  BY Parts, <1>u, <1>e_pc, <1>e_leave, <1>e_lock, <1>e_deleted, <1>e_idr, <1>e_sem_pending,
    <1>e_complex_count, <1>e_status, <1>e_tasks DEF TypeInv, Uns, UnRecs
<1>f. /\ RefNat' /\ UserCount' /\ FreshList' /\ OnceLinked'
  BY Parts, <1>u, Frames
<1>H. \A b \in Arrays : Holders(b)' = Holders(b)
  BY Kinds, <1>u, <1>e_pc, <1>g, <1>a, <1>b, <1>e, <1>d, HoldersSame
<1>O. \A b \in Arrays : Counted(b)' = Counted(b)
  <2>1. Counted(a)' = Counted(a)
    BY <1>a, <1>b, <1>u, <1>e_pc DEF Counted
  <2>2. ASSUME NEW b \in Arrays, b # a PROVE Counted(b)' = Counted(b)
    BY Kinds, <1>a, <1>g, <1>u, <1>e_pc, <1>e_deleted, <2>2 DEF Counted
  <2> QED BY <2>1, <2>2
<1>SetLocks. SetLocks'
  BY Parts, Kinds, <1>u, <1>e_lock, <1>e_pc, <1>g, <1>a, <1>b, <1>e, <1>d DEF SetLocks
<1>ListLocks. ListLocks'
  BY Parts, Kinds, <1>u, <1>e_pc, <1>g, <1>a, <1>b, <1>e, <1>d DEF ListLocks
<1>Unlinking. Unlinking'
  BY Parts, <1>u, <1>e_pc, <1>g, <1>a, <1>b, <1>e, <1>d DEF Unlinking
<1>Removing. Removing'
  BY Parts, Calls, Kinds, <1>u, <1>e_pc, <1>g, <1>a, <1>b, <1>e, <1>d DEF Removing
<1>SetLife. SetLife'
  BY Parts, <1>u, <1>e_deleted, <1>g, <1>a, <1>b, <1>e, <1>d DEF SetLife
<1>InTable. InTable'
  BY Parts, <1>u, <1>e_deleted, <1>e_idr, <1>g, <1>a, <1>b, <1>e, <1>d DEF InTable
<1>HasUndos. HasUndos'
  BY Parts, <1>u, <1>e_deleted, <1>g, <1>a, <1>b, <1>e, <1>d DEF HasUndos
<1>TableSets. TableSets'
  BY Parts, <1>u, <1>e_deleted, <1>e_idr, <1>g, <1>a, <1>b, <1>e, <1>d DEF TableSets
<1>HeldSets. HeldSets'
  BY Parts, Sites, <1>u, <1>e_deleted, <1>e_pc, <1>g, <1>a, <1>b, <1>e, <1>d DEF HeldSets, SetLocks
<1>GoneSets. GoneSets'
  BY Parts, Sites, Calls, <1>u, <1>e_deleted, <1>e_pc, <1>g, <1>a, <1>b, <1>e, <1>d DEF GoneSets
<1>ReferencesCovered. ReferencesCovered'
  BY Parts, <1>H, <1>O, <1>t, <1>u, <1>e_deleted, <1>e_pc, <1>g, <1>a, <1>b, <1>e, <1>d,
    HoldersFinite DEF ReferencesCovered
<1>Loaded. Loaded'
  BY Parts, Sites, <1>H, Calls, <1>t, <1>u, <1>e_pc, <1>g, <1>a, <1>b, <1>e, <1>d, HoldersFinite
    DEF Loaded
<1>KeptSets. KeptSets'
  BY Parts, Sites, <1>u, <1>e_leave, <1>e_pc, <1>g, <1>a, <1>b, <1>e, <1>d DEF KeptSets, Kept
<1>KeptUndo. KeptUndo'
  BY Parts, Undos, <1>u, <1>e_leave, <1>e_pc, <1>g, <1>a, <1>b, <1>e, <1>d DEF KeptUndo, Kept
<1>ExitList. ExitList'
  BY Parts, Kinds, Calls, <1>u, <1>e_pc, <1>g, <1>a, <1>b, <1>e, <1>d DEF ExitList, Users
<1>OwnList. OwnList'
  BY Parts, Kinds, Calls, <1>u, <1>e_pc, <1>g, <1>a, <1>b, <1>e, <1>d DEF OwnList
<1>LinkedLive. LinkedLive'
  BY Parts, <1>u, <1>e_leave, <1>g, <1>a, <1>b, <1>e, <1>d DEF LinkedLive
<1>BothLists. BothLists'
  BY Parts, <1>u, <1>e_leave, <1>g, <1>a, <1>b, <1>e, <1>d DEF BothLists
<1>OneList. OneList'
  BY Parts, Kinds, <1>u, <1>e_pc, <1>g, <1>a, <1>b, <1>e, <1>d DEF OneList
<1>Unlinked. Unlinked'
  BY Parts, Undos, <1>u, <1>e_leave, <1>e_pc, <1>g, <1>a, <1>b, <1>e, <1>d DEF Unlinked
<1>OwnUndo. OwnUndo'
  BY Parts, Undos, Sites, <1>u, <1>e_leave, <1>e_pc, <1>g, <1>a, <1>b, <1>e, <1>d DEF OwnUndo
<1>UsedSems. UsedSems'
  BY Parts, <1>O, <1>u, <1>e_deleted, <1>e_pc DEF UsedSems
<1> QED BY <1>T, <1>c, <1>f, <1>SetLocks, <1>ListLocks, <1>Unlinking, <1>Removing, <1>SetLife,
  <1>InTable, <1>HasUndos, <1>TableSets, <1>HeldSets, <1>GoneSets, <1>ReferencesCovered, <1>Loaded,
  <1>KeptSets, <1>KeptUndo, <1>ExitList, <1>OwnList, <1>LinkedLive, <1>BothLists, <1>OneList,
  <1>Unlinked, <1>OwnUndo, <1>UsedSems DEF IInv, LockInv, SetInv, RefInv, RcuInv, ListInv, LinkInv

(* freeary() drops its reference without the lock.                         *)
LEMMA IInv_freeary_putref ==
    ASSUME IInv, NEW p \in Procs, freeary_putref(p)
    PROVE  IInv'
<1> USE DEF Holding, Waiting, Referring, WakingUp
<1>t. /\ mem \in [Arrays -> Mems] /\ refcount \in [Arrays -> Int]
      /\ grace \in [Arrays -> SUBSET Procs] /\ lock \in [Arrays -> Procs \cup {NoProc}]
      /\ idr \in [Slots -> Arrays \cup {NoArr}] /\ rw_mutex \in Ctls \cup {NoProc}
      /\ pc \in [Procs -> Labels] /\ cmd \in [Procs -> Cmds \cup {"none", "SEMOP", "EXIT"}]
      /\ sma \in [Procs -> Arrays \cup {NoArr}]
      /\ undo \in [Procs -> [list : Tasks \cup {NoProc}, set : Arrays \cup {NoArr}]]
      /\ sig \subseteq Tasks
  BY Parts, UnType DEF TypeInv
<1>c. CallInv'
  <2>1. Next
    BY Kinds DEF Next, Step
  <2> QED BY Parts, <2>1, CallStep
<1>g. pc[p] = "put"
  BY DEF freeary_putref
<1>a. PICK a \in Arrays : a = sma[p]
  BY Parts, <1>g, Locals
<1>n. \A q \in Procs : cmd[q] = "RMID" /\ pc[q] # "ret" => q = p
  BY Parts, <1>g, Locals DEF Removing
<1>m. p \in Holders(a) /\ ~Counted(a) /\ deleted[a] /\ cmd[p] = "RMID"
  <2>1. cmd[p] = "RMID"
    BY Parts, <1>g, Locals
  <2>2. deleted[a]
    BY Parts, <1>g, <1>a, <2>1 DEF GoneSets
  <2>3. ~ \E r \in Ctls : cmd[r] = "RMID" /\ sma[r] = a /\ pc[r] \in WakingUp
    BY Kinds, <1>n, <1>g
  <2> QED BY <1>g, <1>a, <2>1, <2>2, <2>3 DEF Counted, Holders
<1>u. /\ UNCHANGED <<semval, sem_pending, complex_count, deleted, lock, idr, used_sems, list_id,
                     list_proc, readers, undo_list, ulp, refcnt, ulp_lock, un, cmd, sops, semid, sma,
                     undo, status, outcome, state, timedout, tasks, idx, semnum, walk, ref>>
  BY <1>t, <1>g, <1>a, <1>n, <1>m DEF freeary_putref, Return, Goto, args, arrayv, lists, queue,
    scanv, ulpv
<1>e_pc. /\ pc' \in [Procs -> Labels] /\ pc'[p] = "ret" /\ \A q \in Procs : q # p => pc'[q] = pc[q]
  BY Parts, <1>t, Kinds, <1>g, <1>a, <1>n, <1>m DEF freeary_putref, Return, Goto, Labels
<1>e_sig. sig' = (sig \ {p}) /\ sig' \subseteq Tasks
  BY Parts, <1>t, Kinds, <1>g, <1>a, <1>n, <1>m DEF freeary_putref, Return, Goto
<1>e_rw_mutex. rw_mutex' = (NoProc) /\ rw_mutex' \in Ctls \cup {NoProc}
  BY Parts, <1>t, Kinds, <1>g, <1>a, <1>n, <1>m DEF freeary_putref, Return, Goto
<1>e_put. /\ mem' \in [Arrays -> Mems] /\ refcount' \in [Arrays -> Int]
          /\ grace' \in [Arrays -> SUBSET Procs]
          /\ \A b \in Arrays : b # a =>
               mem'[b] = mem[b] /\ refcount'[b] = refcount[b] /\ grace'[b] = grace[b]
          /\ mem[a] = "live" /\ refcount'[a] >= 0
          /\ Counted(a) => mem'[a] = "live"
          /\ (mem'[a] = "live" /\ grace'[a] = grace[a]) \/ (mem'[a] = "rcu" /\ grace'[a] = readers)
          /\ mem'[a] = "rcu" => ~Counted(a) /\ Holders(a) \ {p} = {}
          /\ refcount'[a] >= Cardinality(Holders(a)) - 1
  <2>1. Putref(a, ref[p])
    BY <1>a DEF freeary_putref
  <2>2. ref[p] \in Int /\ ref[p] >= Cardinality(Holders(a)) /\ Cardinality(Holders(a)) \in Nat
    BY Parts, <1>g, <1>a, HoldersFinite DEF Loaded, TypeInv
  <2>3. mem[a] = "live"
    BY Parts, <1>m DEF ReferencesCovered
  <2>4. Cardinality(Holders(a) \ {p}) = Cardinality(Holders(a)) - 1 /\ Cardinality(Holders(a) \ {p}) \in Nat
    BY <1>m, HoldersFinite, FS_RemoveElement, FS_CardinalityType
  <2>5. ref[p] - 1 >= 0 /\ ref[p] - 1 \in Int /\ ref[p] - 1 >= Cardinality(Holders(a)) - 1
    BY <2>2, <2>4
  <2>6. readers \subseteq Procs
    BY Parts DEF TypeInv
  <2>7. PICK w \in Int : w = ref[p] - 1
    BY <2>5
  <2>8. /\ mem' \in [Arrays -> Mems] /\ refcount' \in [Arrays -> Int]
        /\ grace' \in [Arrays -> SUBSET Procs] /\ refcount'[a] = w
        /\ \A b \in Arrays : b # a =>
             mem'[b] = mem[b] /\ refcount'[b] = refcount[b] /\ grace'[b] = grace[b]
        /\ w > 0 => mem'[a] = mem[a] /\ grace'[a] = grace[a]
        /\ ~(w > 0) => mem'[a] = "rcu" /\ grace'[a] = readers
    BY <1>t, <2>1, <2>6, <2>7 DEF Putref, Mems
  <2>9. ~(w > 0) => Holders(a) \ {p} = {}
    <3>1. ASSUME ~(w > 0) PROVE Cardinality(Holders(a) \ {p}) = 0
        BY <2>2, <2>4, <2>5, <2>7, <3>1
    <3>2. IsFiniteSet(Holders(a) \ {p})
        BY HoldersFinite, FS_RemoveElement
    <3> QED BY <3>1, <3>2, FS_EmptySet
  <2> QED BY <1>m, <2>3, <2>5, <2>7, <2>8, <2>9
<1>T. TypeInv'
  BY Parts, <1>u, <1>e_pc, <1>e_sig, <1>e_rw_mutex, <1>e_put DEF TypeInv, Uns, UnRecs
<1>f. /\ UserCount' /\ FreshList' /\ OnceLinked' /\ LinkedLive' /\ BothLists'
  BY Parts, <1>u, Frames
<1>H. /\ Holders(a)' = Holders(a) \ {p} /\ Cardinality(Holders(a)') = Cardinality(Holders(a)) - 1
      /\ \A b \in Arrays : b # a => Holders(b)' = Holders(b)
  BY <1>a, <1>g, <1>u, <1>e_pc, HoldersDrop
<1>O. \A b \in Arrays : Counted(b)' = Counted(b)
  BY Kinds, Calls, <1>a, <1>g, <1>u, <1>e_pc, <1>e_put, CountedMem
<1>SetLocks. SetLocks'
  BY Parts, Kinds, <1>u, <1>e_pc, <1>g, <1>a, <1>n, <1>m DEF SetLocks
<1>ListLocks. ListLocks'
  BY Parts, Kinds, <1>u, <1>e_pc, <1>g, <1>a, <1>n, <1>m DEF ListLocks
<1>Unlinking. Unlinking'
  BY Parts, <1>u, <1>e_pc, <1>g, <1>a, <1>n, <1>m DEF Unlinking
<1>Removing. Removing'
  BY Parts, Calls, Kinds, <1>u, <1>e_rw_mutex, <1>e_pc, <1>g, <1>a, <1>n, <1>m DEF Removing
<1>SetLife. SetLife'
  BY Parts, <1>a, Kinds, <1>u, <1>e_put, <1>g, <1>n, <1>m DEF SetLife, Counted
<1>InTable. InTable'
  BY Parts, <1>u, <1>e_put, <1>g, <1>a, <1>n, <1>m DEF InTable
<1>HasUndos. HasUndos'
  BY Parts, <1>u, <1>e_put, <1>g, <1>a, <1>n, <1>m DEF HasUndos, Counted
<1>TableSets. TableSets'
  BY Parts, <1>t, <1>u, <1>e_put, <1>g, <1>a, <1>n, <1>m DEF TableSets, Counted
<1>HeldSets. HeldSets'
  BY Parts, Sites, <1>u, <1>e_pc, <1>g, <1>a, <1>n, <1>m DEF HeldSets
<1>GoneSets. GoneSets'
  BY Parts, Sites, Calls, Kinds, <1>u, <1>e_put, <1>e_pc, <1>g, <1>a, <1>n, <1>m DEF GoneSets, Counted
<1>ReferencesCovered. ReferencesCovered'
  <2>1. \A b \in Arrays : b # a /\ (Holders(b)' # {} \/ Counted(b)') =>
          mem'[b] = "live" /\ refcount'[b] >= Cardinality(Holders(b)') + (IF Counted(b)' THEN 1 ELSE 0)
    BY Parts, <1>H, <1>O, <1>e_put DEF ReferencesCovered
  <2>2. Holders(a)' # {} \/ Counted(a)' => mem'[a] = "live"
    BY <1>H, <1>O, <1>e_put
  <2>3. refcount'[a] \in Int /\ Cardinality(Holders(a)) \in Nat
    BY <1>a, <1>e_put, HoldersFinite
  <2>4. refcount'[a] >= Cardinality(Holders(a)') + (IF Counted(a)' THEN 1 ELSE 0)
    BY <1>H, <1>O, <1>m, <1>e_put, <2>3
  <2> QED BY <2>1, <2>2, <2>4 DEF ReferencesCovered
<1>RefNat. RefNat'
  <2>1. refcount \in [Arrays -> Int] /\ \A b \in Arrays : refcount[b] >= 0
    BY Parts, <1>t DEF RefNat
  <2> QED BY <1>e_put, <2>1 DEF RefNat
<1>Loaded. Loaded'
  <2> SUFFICES ASSUME NEW q \in Procs, pc'[q] = "put" PROVE (ref[q] >= Cardinality(Holders(sma[q])))'
    BY DEF Loaded
  <2>1. q # p /\ pc[q] = "put" /\ sma'[q] = sma[q] /\ ref'[q] = ref[q] /\ sma[q] \in Arrays
    BY <1>u, Sites, <1>e_pc
  <2>2. PICK b \in Arrays : b = sma[q]
    BY <2>1
  <2>3. ref[q] >= Cardinality(Holders(b)) /\ ref[q] \in Int
    BY Parts, <2>1, <2>2 DEF Loaded, TypeInv
  <2>4. Holders(sma[q])' = Holders(b)'
    BY <2>1, <2>2 DEF Holders
  <2>5. Cardinality(Holders(b)') = Cardinality(Holders(b)) \/ Cardinality(Holders(b)') = Cardinality(Holders(b)) - 1
    BY <1>H
  <2>6. Cardinality(Holders(b)) \in Nat
    BY HoldersFinite
  <2> QED BY <2>1, <2>3, <2>4, <2>5, <2>6
<1>KeptSets. KeptSets'
  BY Parts, Sites, <1>u, <1>e_put, <1>e_pc, <1>g, <1>a, <1>n, <1>m DEF KeptSets, Kept
<1>KeptUndo. KeptUndo'
  BY Parts, Undos, <1>u, <1>e_pc, <1>g, <1>a, <1>n, <1>m DEF KeptUndo, Kept
<1>ExitList. ExitList'
  BY Parts, Kinds, Calls, <1>u, <1>e_pc, <1>g, <1>a, <1>n, <1>m DEF ExitList, Users
<1>OwnList. OwnList'
  BY Parts, Kinds, Calls, <1>u, <1>e_pc, <1>g, <1>a, <1>n, <1>m DEF OwnList
<1>OneList. OneList'
  BY Parts, Kinds, <1>u, <1>e_pc, <1>g, <1>a, <1>n, <1>m DEF OneList
<1>Unlinked. Unlinked'
  BY Parts, Undos, <1>u, <1>e_pc, <1>g, <1>a, <1>n, <1>m DEF Unlinked
<1>OwnUndo. OwnUndo'
  BY Parts, Undos, Sites, <1>u, <1>e_pc, <1>g, <1>a, <1>n, <1>m DEF OwnUndo
<1>UsedSems. UsedSems'
  BY Parts, <1>O, <1>u, <1>e_put, <1>e_pc DEF UsedSems
<1> QED BY <1>T, <1>c, <1>f, <1>SetLocks, <1>ListLocks, <1>Unlinking, <1>Removing, <1>SetLife,
  <1>InTable, <1>HasUndos, <1>TableSets, <1>HeldSets, <1>GoneSets, <1>ReferencesCovered, <1>RefNat,
  <1>Loaded, <1>KeptSets, <1>KeptUndo, <1>ExitList, <1>OwnList, <1>OneList, <1>Unlinked,
  <1>OwnUndo, <1>UsedSems DEF IInv, LockInv, SetInv, RefInv, RcuInv, ListInv, LinkInv

(* exit_sem() reads the id of the next structure.                          *)
LEMMA IInv_exit_read ==
    ASSUME IInv, NEW p \in Procs, exit_read(p)
    PROVE  IInv'
<1> USE DEF Holding, Waiting, Referring, WakingUp
<1>t. /\ lock \in [Arrays -> Procs \cup {NoProc}] /\ pc \in [Procs -> Labels]
      /\ cmd \in [Procs -> Cmds \cup {"none", "SEMOP", "EXIT"}] /\ semid \in [Procs -> Ids]
      /\ sma \in [Procs -> Arrays \cup {NoArr}]
      /\ undo \in [Procs -> [list : Tasks \cup {NoProc}, set : Arrays \cup {NoArr}]]
  BY Parts, UnType DEF TypeInv
<1>c. CallInv'
  <2>1. Next
    BY Kinds DEF Next, Step
  <2> QED BY Parts, <2>1, CallStep
<1>g. pc[p] = "xread"
  BY DEF exit_read
<1>z. p \in Tasks /\ cmd[p] = "EXIT"
  BY Parts, <1>g, Locals DEF QueuePcs
<1>b. PICK u \in Tasks : u = undo[p].list /\ Users(u) = {}
  BY Parts, <1>g, <1>z DEF ExitList
<1>a. PICK a \in Arrays : a = Head(list_proc[u])
  <2>1. list_proc[u] \in Seq(Arrays) /\ list_proc[u] # <<>>
    BY Parts, <1>b DEF TypeInv, exit_read
  <2> QED BY <2>1
<1>u. /\ UNCHANGED <<semval, sem_pending, complex_count, mem, refcount, deleted, grace, lock, idr,
                     used_sems, rw_mutex, list_id, list_proc, readers, undo_list, ulp, refcnt,
                     ulp_lock, un, cmd, sops, sma, status, outcome, state, sig, timedout, tasks, idx,
                     semnum, walk, ref, res>>
  BY <1>t, <1>g, <1>z, <1>b, <1>a DEF exit_read, Goto, arrayv, life, lists, ns, queue, scanv,
    sched, ulpv
<1>e_undo. /\ undo' \in [Procs -> [list : Tasks \cup {NoProc}, set : Arrays \cup {NoArr}]] /\ undo'[p] = [undo[p] EXCEPT !.set = a] /\ undo'[p].list = u /\ undo'[p].set = a /\ \A q \in Procs : q # p => undo'[q] = undo[q]
  <2>1. undo[p] \in [list : Tasks \cup {NoProc}, set : Arrays \cup {NoArr}]
    BY <1>t
  <2>2. undo' = [undo EXCEPT ![p] = [undo[p] EXCEPT !.set = a]]
    BY <1>a, <1>b DEF exit_read
  <2> QED BY <1>t, <1>b, <2>1, <2>2
<1>e_semid. /\ semid' \in [Procs -> Ids] /\ semid'[p] = IdOf[a] /\ \A q \in Procs : q # p => semid'[q] = semid[q]
  <2>1. IdOf[a] \in Ids
    BY DEF Ids
  <2> QED BY <1>t, <1>a, <1>b, <2>1 DEF exit_read
<1>e_pc. /\ pc' \in [Procs -> Labels] /\ pc'[p] = "xfind" /\ \A q \in Procs : q # p => pc'[q] = pc[q]
  BY Parts, <1>t, Kinds, <1>g, <1>z, <1>b, <1>a DEF exit_read, Goto, Labels
<1>T. TypeInv'
  BY Parts, <1>u, <1>e_undo, <1>e_semid, <1>e_pc DEF TypeInv, Uns, UnRecs
<1>f. /\ SetLife' /\ InTable' /\ HasUndos' /\ TableSets' /\ RefNat' /\ UserCount' /\ OnceLinked'
      /\ LinkedLive' /\ BothLists'
  BY Parts, <1>u, Frames
<1>H. \A b \in Arrays : Holders(b)' = Holders(b)
  BY Kinds, <1>u, <1>e_pc, <1>g, <1>z, <1>b, <1>a, HoldersSame
<1>O. \A b \in Arrays : Counted(b)' = Counted(b)
  BY Kinds, Calls, <1>u, <1>e_pc, <1>g, <1>z, <1>b, <1>a, CountedSame
<1>SetLocks. SetLocks'
  BY Parts, Kinds, <1>u, <1>e_pc, <1>g, <1>z, <1>b, <1>a DEF SetLocks
<1>ListLocks. ListLocks'
  BY Parts, Kinds, <1>u, <1>e_pc, <1>e_undo, <1>g, <1>z, <1>b, <1>a DEF ListLocks
<1>Unlinking. Unlinking'
  BY Parts, <1>u, <1>e_pc, <1>e_undo, <1>g, <1>z, <1>b, <1>a DEF Unlinking
<1>Removing. Removing'
  BY Parts, Calls, Kinds, <1>u, <1>e_pc, <1>g, <1>z, <1>b, <1>a DEF Removing
<1>HeldSets. HeldSets'
  BY Parts, Sites, <1>u, <1>e_pc, <1>g, <1>z, <1>b, <1>a DEF HeldSets
<1>GoneSets. GoneSets'
  BY Parts, Sites, Calls, <1>u, <1>e_pc, <1>g, <1>z, <1>b, <1>a DEF GoneSets
<1>ReferencesCovered. ReferencesCovered'
  BY Parts, <1>H, <1>O, <1>t, <1>u, <1>e_pc, <1>g, <1>z, <1>b, <1>a, HoldersFinite DEF
    ReferencesCovered
<1>Loaded. Loaded'
  BY Parts, Sites, <1>H, Calls, <1>t, <1>u, <1>e_pc, <1>g, <1>z, <1>b, <1>a, HoldersFinite DEF Loaded
<1>KeptSets. KeptSets'
  BY Parts, Sites, <1>u, <1>e_pc, <1>g, <1>z, <1>b, <1>a DEF KeptSets, Kept
<1>KeptUndo. KeptUndo'
  BY Parts, Undos, <1>u, <1>e_pc, <1>e_undo, <1>g, <1>z, <1>b, <1>a DEF KeptUndo, Kept
<1>ExitList. ExitList'
  BY Parts, Kinds, Calls, <1>u, <1>e_pc, <1>e_undo, <1>g, <1>z, <1>b, <1>a DEF ExitList, Users
<1>FreshList. FreshList'
  BY Parts, Kinds, Calls, <1>u, <1>e_undo, <1>g, <1>z, <1>b, <1>a DEF FreshList, Users
<1>OwnList. OwnList'
  BY Parts, Kinds, Calls, <1>u, <1>e_pc, <1>e_undo, <1>g, <1>z, <1>b, <1>a DEF OwnList
<1>OneList. OneList'
  BY Parts, Kinds, <1>u, <1>e_pc, <1>e_undo, <1>g, <1>z, <1>b, <1>a DEF OneList
<1>Unlinked. Unlinked'
  BY Parts, Undos, <1>u, <1>e_pc, <1>e_undo, <1>g, <1>z, <1>b, <1>a DEF Unlinked
<1>OwnUndo. OwnUndo'
  BY Parts, Undos, Sites, <1>u, <1>e_pc, <1>e_semid, <1>e_undo, <1>g, <1>z, <1>b, <1>a DEF OwnUndo
<1>UsedSems. UsedSems'
  BY Parts, <1>O, <1>u, <1>e_pc DEF UsedSems
<1> QED BY <1>T, <1>c, <1>f, <1>SetLocks, <1>ListLocks, <1>Unlinking, <1>Removing, <1>HeldSets,
  <1>GoneSets, <1>ReferencesCovered, <1>Loaded, <1>KeptSets, <1>KeptUndo, <1>ExitList,
  <1>FreshList, <1>OwnList, <1>OneList, <1>Unlinked, <1>OwnUndo, <1>UsedSems DEF IInv, LockInv,
  SetInv, RefInv, RcuInv, ListInv, LinkInv

(* exit_sem() has worked its list off.                                     *)
LEMMA IInv_exit_done ==
    ASSUME IInv, NEW p \in Procs, exit_done(p)
    PROVE  IInv'
<1> USE DEF Holding, Waiting, Referring, WakingUp
<1>t. /\ lock \in [Arrays -> Procs \cup {NoProc}] /\ ulp \in [Tasks -> {"none", "live", "freed"}]
      /\ pc \in [Procs -> Labels] /\ cmd \in [Procs -> Cmds \cup {"none", "SEMOP", "EXIT"}]
      /\ sma \in [Procs -> Arrays \cup {NoArr}]
      /\ undo \in [Procs -> [list : Tasks \cup {NoProc}, set : Arrays \cup {NoArr}]]
  BY Parts, UnType DEF TypeInv
<1>c. CallInv'
  <2>1. Next
    BY Kinds DEF Next, Step
  <2> QED BY Parts, <2>1, CallStep
<1>g. pc[p] = "xread"
  BY DEF exit_done
<1>z. p \in Tasks /\ cmd[p] = "EXIT"
  BY Parts, <1>g, Locals DEF QueuePcs
<1>u. /\ UNCHANGED <<semval, sem_pending, complex_count, mem, refcount, deleted, grace, lock, idr,
                     used_sems, rw_mutex, list_id, list_proc, readers, undo_list, refcnt, ulp_lock, un,
                     cmd, sops, semid, sma, undo, status, outcome, state, sig, timedout, tasks, idx,
                     semnum, walk, ref, res>>
  BY <1>t, <1>g, <1>z DEF exit_done, Goto, args, arrayv, life, lists, ns, queue, scanv, sched
<1>e_pc. /\ pc' \in [Procs -> Labels] /\ pc'[p] = "dead" /\ \A q \in Procs : q # p => pc'[q] = pc[q]
  BY Parts, <1>t, Kinds, <1>g, <1>z DEF exit_done, Goto, Labels
<1>e_ulp. ulp' \in [Tasks -> {"none", "live", "freed"}]
  BY <1>t DEF exit_done
<1>T. TypeInv'
  BY Parts, <1>u, <1>e_pc, <1>e_ulp DEF TypeInv, Uns, UnRecs
<1>f. /\ SetLife' /\ InTable' /\ HasUndos' /\ TableSets' /\ RefNat' /\ UserCount' /\ FreshList'
      /\ OnceLinked' /\ LinkedLive' /\ BothLists'
  BY Parts, <1>u, Frames
<1>H. \A b \in Arrays : Holders(b)' = Holders(b)
  BY Kinds, <1>u, <1>e_pc, <1>g, <1>z, HoldersSame
<1>O. \A b \in Arrays : Counted(b)' = Counted(b)
  BY Kinds, Calls, <1>u, <1>e_pc, <1>g, <1>z, CountedSame
<1>SetLocks. SetLocks'
  BY Parts, Kinds, <1>u, <1>e_pc, <1>g, <1>z DEF SetLocks
<1>ListLocks. ListLocks'
  BY Parts, Kinds, <1>u, <1>e_pc, <1>g, <1>z DEF ListLocks
<1>Unlinking. Unlinking'
  BY Parts, <1>u, <1>e_pc, <1>g, <1>z DEF Unlinking
<1>Removing. Removing'
  BY Parts, Calls, Kinds, <1>u, <1>e_pc, <1>g, <1>z DEF Removing
<1>HeldSets. HeldSets'
  BY Parts, Sites, <1>u, <1>e_pc, <1>g, <1>z DEF HeldSets
<1>GoneSets. GoneSets'
  BY Parts, Sites, Calls, <1>u, <1>e_pc, <1>g, <1>z DEF GoneSets
<1>ReferencesCovered. ReferencesCovered'
  BY Parts, <1>H, <1>O, <1>t, <1>u, <1>e_pc, <1>g, <1>z, HoldersFinite DEF ReferencesCovered
<1>Loaded. Loaded'
  BY Parts, Sites, <1>H, Calls, <1>t, <1>u, <1>e_pc, <1>g, <1>z, HoldersFinite DEF Loaded
<1>KeptSets. KeptSets'
  BY Parts, Sites, <1>u, <1>e_pc, <1>g, <1>z DEF KeptSets, Kept
<1>KeptUndo. KeptUndo'
  BY Parts, Undos, <1>u, <1>e_pc, <1>g, <1>z DEF KeptUndo, Kept
<1>ExitList. ExitList'
  BY Parts, Kinds, Calls, <1>u, <1>e_pc, <1>g, <1>z DEF ExitList, Users
<1>OwnList. OwnList'
  BY Parts, Kinds, Calls, <1>u, <1>e_pc, <1>g, <1>z DEF OwnList
<1>OneList. OneList'
  BY Parts, Kinds, <1>u, <1>e_pc, <1>g, <1>z DEF OneList
<1>Unlinked. Unlinked'
  BY Parts, Undos, <1>u, <1>e_pc, <1>g, <1>z DEF Unlinked
<1>OwnUndo. OwnUndo'
  BY Parts, Undos, Sites, <1>u, <1>e_pc, <1>g, <1>z DEF OwnUndo
<1>UsedSems. UsedSems'
  BY Parts, <1>O, <1>u, <1>e_pc DEF UsedSems
<1> QED BY <1>T, <1>c, <1>f, <1>SetLocks, <1>ListLocks, <1>Unlinking, <1>Removing, <1>HeldSets,
  <1>GoneSets, <1>ReferencesCovered, <1>Loaded, <1>KeptSets, <1>KeptUndo, <1>ExitList, <1>OwnList,
  <1>OneList, <1>Unlinked, <1>OwnUndo, <1>UsedSems DEF IInv, LockInv, SetInv, RefInv, RcuInv,
  ListInv, LinkInv

(* exit_sem() locked a set whose structure was invalidated.                *)
LEMMA IInv_exit_reread ==
    ASSUME IInv, NEW p \in Procs, exit_reread(p)
    PROVE  IInv'
<1> USE DEF Holding, Waiting, Referring, WakingUp
<1>t. /\ lock \in [Arrays -> Procs \cup {NoProc}] /\ pc \in [Procs -> Labels]
      /\ cmd \in [Procs -> Cmds \cup {"none", "SEMOP", "EXIT"}]
      /\ sma \in [Procs -> Arrays \cup {NoArr}]
      /\ undo \in [Procs -> [list : Tasks \cup {NoProc}, set : Arrays \cup {NoArr}]]
  BY Parts, UnType DEF TypeInv
<1>c. CallInv'
  <2>1. Next
    BY Kinds DEF Next, Step
  <2> QED BY Parts, <2>1, CallStep
<1>g. pc[p] = "xfind"
  BY DEF exit_reread
<1>z. p \in Tasks /\ cmd[p] = "EXIT"
  BY Parts, <1>g, Locals DEF QueuePcs
<1>u. /\ UNCHANGED <<semval, sem_pending, complex_count, mem, refcount, deleted, grace, lock, idr,
                     used_sems, rw_mutex, list_id, list_proc, readers, undo_list, ulp, refcnt,
                     ulp_lock, un, cmd, sops, semid, sma, undo, status, outcome, state, sig, timedout,
                     tasks, idx, semnum, walk, ref, res>>
  BY <1>t, <1>g, <1>z DEF exit_reread, Goto, args, arrayv, life, lists, ns, queue, scanv, sched,
    ulpv
<1>e_pc. /\ pc' \in [Procs -> Labels] /\ pc'[p] = "xread" /\ \A q \in Procs : q # p => pc'[q] = pc[q]
  BY Parts, <1>t, Kinds, <1>g, <1>z DEF exit_reread, Goto, Labels
<1>T. TypeInv'
  BY Parts, <1>u, <1>e_pc DEF TypeInv, Uns, UnRecs
<1>f. /\ SetLife' /\ InTable' /\ HasUndos' /\ TableSets' /\ RefNat' /\ UserCount' /\ FreshList'
      /\ OnceLinked' /\ LinkedLive' /\ BothLists'
  BY Parts, <1>u, Frames
<1>H. \A b \in Arrays : Holders(b)' = Holders(b)
  BY Kinds, <1>u, <1>e_pc, <1>g, <1>z, HoldersSame
<1>O. \A b \in Arrays : Counted(b)' = Counted(b)
  BY Kinds, Calls, <1>u, <1>e_pc, <1>g, <1>z, CountedSame
<1>SetLocks. SetLocks'
  BY Parts, Kinds, <1>u, <1>e_pc, <1>g, <1>z DEF SetLocks
<1>ListLocks. ListLocks'
  BY Parts, Kinds, <1>u, <1>e_pc, <1>g, <1>z DEF ListLocks
<1>Unlinking. Unlinking'
  BY Parts, <1>u, <1>e_pc, <1>g, <1>z DEF Unlinking
<1>Removing. Removing'
  BY Parts, Calls, Kinds, <1>u, <1>e_pc, <1>g, <1>z DEF Removing
<1>HeldSets. HeldSets'
  BY Parts, Sites, <1>u, <1>e_pc, <1>g, <1>z DEF HeldSets
<1>GoneSets. GoneSets'
  BY Parts, Sites, Calls, <1>u, <1>e_pc, <1>g, <1>z DEF GoneSets
<1>ReferencesCovered. ReferencesCovered'
  BY Parts, <1>H, <1>O, <1>t, <1>u, <1>e_pc, <1>g, <1>z, HoldersFinite DEF ReferencesCovered
<1>Loaded. Loaded'
  BY Parts, Sites, <1>H, Calls, <1>t, <1>u, <1>e_pc, <1>g, <1>z, HoldersFinite DEF Loaded
<1>KeptSets. KeptSets'
  BY Parts, Sites, <1>u, <1>e_pc, <1>g, <1>z DEF KeptSets, Kept
<1>KeptUndo. KeptUndo'
  BY Parts, Undos, <1>u, <1>e_pc, <1>g, <1>z DEF KeptUndo, Kept
<1>ExitList. ExitList'
  BY Parts, Kinds, Calls, <1>u, <1>e_pc, <1>g, <1>z DEF ExitList, Users
<1>OwnList. OwnList'
  BY Parts, Kinds, Calls, <1>u, <1>e_pc, <1>g, <1>z DEF OwnList
<1>OneList. OneList'
  BY Parts, Kinds, <1>u, <1>e_pc, <1>g, <1>z DEF OneList
<1>Unlinked. Unlinked'
  BY Parts, Undos, <1>u, <1>e_pc, <1>g, <1>z DEF Unlinked
<1>OwnUndo. OwnUndo'
  BY Parts, Undos, Sites, <1>u, <1>e_pc, <1>g, <1>z DEF OwnUndo
<1>UsedSems. UsedSems'
  BY Parts, <1>O, <1>u, <1>e_pc DEF UsedSems
<1> QED BY <1>T, <1>c, <1>f, <1>SetLocks, <1>ListLocks, <1>Unlinking, <1>Removing, <1>HeldSets,
  <1>GoneSets, <1>ReferencesCovered, <1>Loaded, <1>KeptSets, <1>KeptUndo, <1>ExitList, <1>OwnList,
  <1>OneList, <1>Unlinked, <1>OwnUndo, <1>UsedSems DEF IInv, LockInv, SetInv, RefInv, RcuInv,
  ListInv, LinkInv

(* exit_sem() finds that freeary() came first.                             *)
LEMMA IInv_exit_raced ==
    ASSUME IInv, NEW p \in Procs, exit_raced(p)
    PROVE  IInv'
<1> USE DEF Holding, Waiting, Referring, WakingUp
<1>t. /\ grace \in [Arrays -> SUBSET Procs] /\ lock \in [Arrays -> Procs \cup {NoProc}]
      /\ readers \subseteq Procs /\ un \in Uns /\ pc \in [Procs -> Labels]
      /\ cmd \in [Procs -> Cmds \cup {"none", "SEMOP", "EXIT"}]
      /\ sma \in [Procs -> Arrays \cup {NoArr}]
      /\ undo \in [Procs -> [list : Tasks \cup {NoProc}, set : Arrays \cup {NoArr}]]
  BY Parts, UnType DEF TypeInv
<1>c. CallInv'
  <2>1. Next
    BY Kinds DEF Next, Step
  <2> QED BY Parts, <2>1, CallStep
<1>g. /\ pc[p] = "xlock" /\ sma[p] \in Arrays /\ lock[sma[p]] = NoProc /\ p \in readers
      /\ ~deleted[sma[p]] /\ mem[sma[p]] = "live" /\ Counted(sma[p]) /\ IdOf[sma[p]] = semid[p]
  <2>1. Found(p, "xlock")
    BY DEF exit_raced
  <2> QED BY Parts, <2>1, FoundSet
<1>a. PICK a \in Arrays : a = sma[p]
  BY Parts, <1>g, Locals
<1>z. p \in Tasks /\ cmd[p] = "EXIT"
  BY Parts, <1>g, Locals DEF QueuePcs
<1>u. /\ UNCHANGED <<semval, sem_pending, complex_count, mem, refcount, deleted, lock, idr, used_sems,
                     rw_mutex, list_id, list_proc, undo_list, ulp, refcnt, ulp_lock, cmd, sops, semid,
                     sma, undo, status, outcome, state, sig, timedout, tasks, idx, semnum, walk, ref,
                     res>>
  BY <1>t, <1>g, <1>a, <1>z DEF exit_raced, Goto, args, arrayv, lists, ns, queue, scanv, sched,
    ulpv
<1>e_pc. /\ pc' \in [Procs -> Labels] /\ pc'[p] = "xread" /\ \A q \in Procs : q # p => pc'[q] = pc[q]
  BY Parts, <1>t, Kinds, <1>g, <1>a, <1>z DEF exit_raced, Goto, Labels
<1>e_leave. /\ readers' = readers \ {p} /\ readers' \subseteq Procs
            /\ grace' \in [Arrays -> SUBSET Procs] /\ un' \in Uns
            /\ \A b \in Arrays : grace'[b] = grace[b] \ {p}
            /\ \A v \in Tasks, b \in Arrays :
                 /\ un'[v][b].mem = un[v][b].mem /\ un'[v][b].valid = un[v][b].valid
                 /\ un'[v][b].grace = un[v][b].grace \ {p}
  <2>1. Leave(p)
    BY <1>t, <1>g, <1>a, <1>z DEF exit_raced
  <2> QED BY Parts, <2>1, LeaveEffect
<1>T. TypeInv'
  BY Parts, <1>u, <1>e_pc, <1>e_leave DEF TypeInv, Uns, UnRecs
<1>f. /\ SetLife' /\ InTable' /\ HasUndos' /\ TableSets' /\ RefNat' /\ UserCount' /\ FreshList'
      /\ OnceLinked'
  BY Parts, <1>u, Frames
<1>H. \A b \in Arrays : Holders(b)' = Holders(b)
  BY Kinds, <1>u, <1>e_pc, <1>g, <1>a, <1>z, HoldersSame
<1>O. \A b \in Arrays : Counted(b)' = Counted(b)
  BY Kinds, Calls, <1>u, <1>e_pc, <1>g, <1>a, <1>z, CountedSame
<1>SetLocks. SetLocks'
  BY Parts, Kinds, <1>u, <1>e_pc, <1>g, <1>a, <1>z DEF SetLocks
<1>ListLocks. ListLocks'
  BY Parts, Kinds, <1>u, <1>e_pc, <1>g, <1>a, <1>z DEF ListLocks
<1>Unlinking. Unlinking'
  BY Parts, <1>u, <1>e_pc, <1>g, <1>a, <1>z DEF Unlinking
<1>Removing. Removing'
  BY Parts, Calls, Kinds, <1>u, <1>e_pc, <1>g, <1>a, <1>z DEF Removing
<1>HeldSets. HeldSets'
  BY Parts, Sites, <1>u, <1>e_pc, <1>g, <1>a, <1>z DEF HeldSets
<1>GoneSets. GoneSets'
  BY Parts, Sites, Calls, <1>u, <1>e_pc, <1>g, <1>a, <1>z DEF GoneSets
<1>ReferencesCovered. ReferencesCovered'
  BY Parts, <1>H, <1>O, <1>t, <1>u, <1>e_pc, <1>g, <1>a, <1>z, HoldersFinite DEF ReferencesCovered
<1>Loaded. Loaded'
  BY Parts, Sites, <1>H, Calls, <1>t, <1>u, <1>e_pc, <1>g, <1>a, <1>z, HoldersFinite DEF Loaded
<1>KeptSets. KeptSets'
  BY Parts, Sites, <1>u, <1>e_leave, <1>e_pc, <1>g, <1>a, <1>z DEF KeptSets, Kept
<1>KeptUndo. KeptUndo'
  BY Parts, Undos, <1>u, <1>e_leave, <1>e_pc, <1>g, <1>a, <1>z DEF KeptUndo, Kept
<1>ExitList. ExitList'
  BY Parts, Kinds, Calls, <1>u, <1>e_pc, <1>g, <1>a, <1>z DEF ExitList, Users
<1>OwnList. OwnList'
  BY Parts, Kinds, Calls, <1>u, <1>e_pc, <1>g, <1>a, <1>z DEF OwnList
<1>LinkedLive. LinkedLive'
  BY Parts, <1>u, <1>e_leave, <1>g, <1>a, <1>z DEF LinkedLive
<1>BothLists. BothLists'
  BY Parts, <1>u, <1>e_leave, <1>g, <1>a, <1>z DEF BothLists
<1>OneList. OneList'
  BY Parts, Kinds, <1>u, <1>e_pc, <1>g, <1>a, <1>z DEF OneList
<1>Unlinked. Unlinked'
  BY Parts, Undos, <1>u, <1>e_leave, <1>e_pc, <1>g, <1>a, <1>z DEF Unlinked
<1>OwnUndo. OwnUndo'
  BY Parts, Undos, Sites, <1>u, <1>e_leave, <1>e_pc, <1>g, <1>a, <1>z DEF OwnUndo
<1>UsedSems. UsedSems'
  BY Parts, <1>O, <1>u, <1>e_pc DEF UsedSems
<1> QED BY <1>T, <1>c, <1>f, <1>SetLocks, <1>ListLocks, <1>Unlinking, <1>Removing, <1>HeldSets,
  <1>GoneSets, <1>ReferencesCovered, <1>Loaded, <1>KeptSets, <1>KeptUndo, <1>ExitList, <1>OwnList,
  <1>LinkedLive, <1>BothLists, <1>OneList, <1>Unlinked, <1>OwnUndo, <1>UsedSems DEF IInv, LockInv,
  SetInv, RefInv, RcuInv, ListInv, LinkInv

(* exit_sem() unlinks the structure and adjusts the values.                *)
LEMMA IInv_exit_adjust ==
    ASSUME IInv, NEW p \in Procs, exit_adjust(p)
    PROVE  IInv'
<1> USE DEF Holding, Waiting, Referring, WakingUp
<1>t. /\ semval \in [Arrays -> Values] /\ lock \in [Arrays -> Procs \cup {NoProc}]
      /\ list_id \in [Arrays -> SUBSET Tasks] /\ list_proc \in [Tasks -> Seq(Arrays)]
      /\ undo_list \in [Tasks -> Tasks \cup {NoProc}] /\ pc \in [Procs -> Labels]
      /\ cmd \in [Procs -> Cmds \cup {"none", "SEMOP", "EXIT"}]
      /\ sma \in [Procs -> Arrays \cup {NoArr}]
      /\ undo \in [Procs -> [list : Tasks \cup {NoProc}, set : Arrays \cup {NoArr}]]
      /\ idx \in [Procs -> Nat]
  BY Parts, UnType DEF TypeInv
<1>c. CallInv'
  <2>1. Next
    BY Kinds DEF Next, Step
  <2> QED BY Parts, <2>1, CallStep
<1>g. /\ pc[p] = "xlock" /\ sma[p] \in Arrays /\ lock[sma[p]] = NoProc /\ p \in readers
      /\ ~deleted[sma[p]] /\ mem[sma[p]] = "live" /\ Counted(sma[p]) /\ IdOf[sma[p]] = semid[p]
  <2>1. Found(p, "xlock")
    BY DEF exit_adjust
  <2> QED BY Parts, <2>1, FoundSet
<1>a. PICK a \in Arrays : a = sma[p]
  BY Parts, <1>g, Locals
<1>z. p \in Tasks /\ cmd[p] = "EXIT"
  BY Parts, <1>g, Locals DEF QueuePcs
<1>b. PICK u \in Tasks : u = undo[p].list /\ Users(u) = {}
  BY Parts, <1>g, <1>z DEF ExitList
<1>d. PICK c \in lookup_undo(u, semid[p]) :
        /\ undo' = [undo EXCEPT ![p].set = c] /\ list_id' = [list_id EXCEPT ![c] = @ \ {u}]
        /\ unlink_proc(u, c) /\ semval' = [semval EXCEPT ![a] = Adjust(@, un[u][c].semadj)]
  BY <1>a, <1>b DEF exit_adjust
<1>e. c \in Arrays
  BY <1>b, <1>d, <1>t DEF lookup_undo, ToSet
<1>x. \A q \in Procs : cmd[q] = "SEMOP" /\ undo[q].set # NoArr => undo[q].list # u
  BY Parts, <1>b, Locals DEF OwnList, Users
<1>u. /\ UNCHANGED <<sem_pending, complex_count, mem, refcount, deleted, grace, idr, used_sems,
                     rw_mutex, readers, undo_list, ulp, refcnt, ulp_lock, un, cmd, sops, semid, sma,
                     status, outcome, state, sig, timedout, tasks, semnum, walk, ref, res>>
  BY <1>t, <1>d DEF exit_adjust, Goto, args, life, ns, queue, sched, ulpv
<1>e_undo. /\ undo' \in [Procs -> [list : Tasks \cup {NoProc}, set : Arrays \cup {NoArr}]] /\ undo'[p] = [undo[p] EXCEPT !.set = c] /\ undo'[p].list = u /\ undo'[p].set = c /\ \A q \in Procs : q # p => undo'[q] = undo[q]
  <2>1. undo[p] \in [list : Tasks \cup {NoProc}, set : Arrays \cup {NoArr}]
    BY <1>t
  <2>2. undo' = [undo EXCEPT ![p] = [undo[p] EXCEPT !.set = c]]
    BY <1>d
  <2> QED BY <1>t, <1>b, <1>e, <2>1, <2>2
<1>e_list_id. /\ list_id' \in [Arrays -> SUBSET Tasks] /\ list_id'[c] = list_id[c] \ {u} /\ \A b \in Arrays : b # c => list_id'[b] = list_id[b]
  BY <1>t, <1>d, <1>e
<1>e_list_proc. /\ list_proc' \in [Tasks -> Seq(Arrays)] /\ IsInjective(list_proc'[u])
                /\ \A v \in Tasks : v # u => list_proc'[v] = list_proc[v]
                /\ ToSet(list_proc'[u]) = ToSet(list_proc[u]) \ {c}
  BY Parts, <1>d, <1>e, UnlinkEffect
<1>e_semval. semval' \in [Arrays -> Values]
  <2>1. semval[a] \in Values /\ un[u][c].semadj \in Adjs
    BY Parts, <1>e DEF TypeInv
  <2>2. PICK w \in Values : w = Adjust(semval[a], un[u][c].semadj)
    BY <2>1, AdjustType
  <2> QED BY <1>t, <1>d, <2>2
<1>e_lock. /\ lock' \in [Arrays -> Procs \cup {NoProc}] /\ lock'[a] = p /\ \A b \in Arrays : b # a => lock'[b] = lock[b]
  BY Parts, <1>t, Kinds, <1>g, <1>a, <1>z, <1>b, <1>d, <1>e, <1>x DEF exit_adjust, Goto
<1>e_idx. /\ idx' \in [Procs -> Nat] /\ idx'[p] = 1 /\ \A q \in Procs : q # p => idx'[q] = idx[q]
  BY Parts, <1>t, Kinds, <1>g, <1>a, <1>z, <1>b, <1>d, <1>e, <1>x DEF exit_adjust, Goto
<1>e_pc. /\ pc' \in [Procs -> Labels] /\ pc'[p] = "smart" /\ \A q \in Procs : q # p => pc'[q] = pc[q]
  BY Parts, <1>t, Kinds, <1>g, <1>a, <1>z, <1>b, <1>d, <1>e, <1>x DEF exit_adjust, Goto, Labels
<1>T. TypeInv'
  BY Parts, <1>u, <1>e_undo, <1>e_list_id, <1>e_list_proc, <1>e_semval, <1>e_lock, <1>e_idx,
    <1>e_pc DEF TypeInv, Uns, UnRecs
<1>f. /\ SetLife' /\ InTable' /\ TableSets' /\ RefNat' /\ UserCount'
  BY Parts, <1>u, Frames
<1>H. \A b \in Arrays : Holders(b)' = Holders(b)
  BY Kinds, <1>u, <1>e_pc, <1>g, <1>a, <1>z, <1>b, <1>e, <1>x, HoldersSame
<1>O. \A b \in Arrays : Counted(b)' = Counted(b)
  BY Kinds, Calls, <1>u, <1>e_pc, <1>g, <1>a, <1>z, <1>b, <1>e, <1>x, CountedSame
<1>SetLocks. SetLocks'
  BY Parts, Kinds, <1>u, <1>e_lock, <1>e_pc, <1>g, <1>a, <1>z, <1>b, <1>e, <1>x DEF SetLocks
<1>ListLocks. ListLocks'
  BY Parts, Kinds, <1>u, <1>e_pc, <1>e_undo, <1>g, <1>a, <1>z, <1>b, <1>e, <1>x DEF ListLocks
<1>Unlinking. Unlinking'
  BY Parts, <1>u, <1>e_pc, <1>e_undo, <1>g, <1>a, <1>z, <1>b, <1>e, <1>x DEF Unlinking
<1>Removing. Removing'
  BY Parts, Calls, Kinds, <1>u, <1>e_pc, <1>g, <1>a, <1>z, <1>b, <1>e, <1>x DEF Removing
<1>HasUndos. HasUndos'
  BY Parts, <1>u, <1>e_list_id, <1>g, <1>a, <1>z, <1>b, <1>e, <1>x DEF HasUndos
<1>HeldSets. HeldSets'
  BY Parts, Sites, <1>u, <1>e_pc, <1>g, <1>a, <1>z, <1>b, <1>e, <1>x DEF HeldSets
<1>GoneSets. GoneSets'
  BY Parts, Sites, Calls, <1>u, <1>e_pc, <1>g, <1>a, <1>z, <1>b, <1>e, <1>x DEF GoneSets
<1>ReferencesCovered. ReferencesCovered'
  BY Parts, <1>H, <1>O, <1>t, <1>u, <1>e_pc, <1>g, <1>a, <1>z, <1>b, <1>e, <1>x, HoldersFinite DEF
    ReferencesCovered
<1>Loaded. Loaded'
  BY Parts, Sites, <1>H, Calls, <1>t, <1>u, <1>e_pc, <1>g, <1>a, <1>z, <1>b, <1>e, <1>x,
    HoldersFinite DEF Loaded
<1>KeptSets. KeptSets'
  BY Parts, Sites, <1>u, <1>e_pc, <1>g, <1>a, <1>z, <1>b, <1>e, <1>x DEF KeptSets, Kept
<1>KeptUndo. KeptUndo'
  BY Parts, Undos, <1>u, <1>e_pc, <1>e_undo, <1>g, <1>a, <1>z, <1>b, <1>e, <1>x DEF KeptUndo, Kept
<1>ExitList. ExitList'
  BY Parts, Kinds, Calls, <1>u, <1>e_pc, <1>e_undo, <1>g, <1>a, <1>z, <1>b, <1>e, <1>x DEF
    ExitList, Users
<1>FreshList. FreshList'
  BY Parts, Kinds, Calls, <1>u, <1>e_undo, <1>g, <1>a, <1>z, <1>b, <1>e, <1>x DEF FreshList, Users
<1>OwnList. OwnList'
  BY Parts, Kinds, Calls, <1>u, <1>e_pc, <1>e_undo, <1>g, <1>a, <1>z, <1>b, <1>e, <1>x DEF OwnList
<1>OnceLinked. OnceLinked'
  BY Parts, <1>u, <1>e_list_proc, <1>g, <1>a, <1>z, <1>b, <1>e, <1>x DEF OnceLinked
<1>LinkedLive. LinkedLive'
  BY Parts, <1>u, <1>e_list_proc, <1>g, <1>a, <1>z, <1>b, <1>e, <1>x DEF LinkedLive
<1>BothLists. BothLists'
  BY Parts, <1>u, <1>e_list_id, <1>e_list_proc, <1>g, <1>a, <1>z, <1>b, <1>e, <1>x DEF BothLists
<1>OneList. OneList'
  <2> SUFFICES ASSUME NEW v \in Tasks, NEW b \in Arrays, b \in ToSet(list_proc'[v]), v \notin list_id'[b]
               PROVE  (\E d \in Ctls : pc[d] = "funlink" /\ undo[d] = [list |-> v, set |-> b])'
    BY DEF OneList
  <2>1. b \in ToSet(list_proc[v]) /\ v \notin list_id[b]
    BY <1>u, <1>e_list_proc, <1>e_list_id, <1>e
  <2>2. PICK d \in Ctls : pc[d] = "funlink" /\ undo[d] = [list |-> v, set |-> b]
    BY Parts, <2>1 DEF OneList
  <2>3. pc'[d] = pc[d] /\ undo'[d] = undo[d]
    BY Kinds, <2>2, <1>g, <1>z, <1>e_pc, <1>e_undo
  <2> QED BY <2>2, <2>3
<1>Unlinked. Unlinked'
  <2> SUFFICES ASSUME NEW q \in Procs
               PROVE  /\ (pc[q] = "funlink" => undo[q].list \notin list_id[undo[q].set] /\ ~un[undo[q].list][undo[q].set].valid)'
                      /\ (cmd[q] = "EXIT" /\ pc[q] \in {"smart", "scan"} \cup WakingUp =>
                            undo[q].set \in Arrays /\ undo[q].set \notin ToSet(list_proc[undo[q].list]))'
    BY DEF Unlinked
  <2>1. CASE q = p
    <3>1. undo'[p].list = u /\ undo'[p].set = c /\ c \notin ToSet(list_proc'[u])
        BY <1>e_list_proc, <1>e_undo
    <3> QED BY <1>e, <1>e_pc, <2>1, <3>1
  <2>2. CASE q # p
    <3>1. pc'[q] = pc[q] /\ cmd'[q] = cmd[q] /\ undo'[q] = undo[q] /\ un' = un
        BY <1>u, <1>e_pc, <1>e_undo, <2>2
    <3>2. /\ pc[q] = "funlink" => undo[q].list \notin list_id[undo[q].set] /\ ~un[undo[q].list][undo[q].set].valid
          /\ cmd[q] = "EXIT" /\ pc[q] \in {"smart", "scan"} \cup WakingUp =>
                undo[q].set \in Arrays /\ undo[q].set \notin ToSet(list_proc[undo[q].list])
        BY Parts DEF Unlinked
    <3>3. \A v \in Tasks, b \in Arrays :
            /\ v \in list_id'[b] => v \in list_id[b]
            /\ b \in ToSet(list_proc'[v]) => b \in ToSet(list_proc[v])
        BY <1>e, <1>e_list_id, <1>e_list_proc
    <3> QED BY Undos, <3>1, <3>2, <3>3
  <2> QED BY <2>1, <2>2
<1>OwnUndo. OwnUndo'
  BY Parts, Undos, Sites, <1>x, <1>u, <1>e_list_id, <1>e_pc, <1>e_undo, <1>g, <1>a, <1>z, <1>b,
    <1>e DEF OwnUndo
<1>UsedSems. UsedSems'
  BY Parts, <1>O, <1>u, <1>e_pc DEF UsedSems
<1> QED BY <1>T, <1>c, <1>f, <1>SetLocks, <1>ListLocks, <1>Unlinking, <1>Removing, <1>HasUndos,
  <1>HeldSets, <1>GoneSets, <1>ReferencesCovered, <1>Loaded, <1>KeptSets, <1>KeptUndo, <1>ExitList,
  <1>FreshList, <1>OwnList, <1>OnceLinked, <1>LinkedLive, <1>BothLists, <1>OneList, <1>Unlinked,
  <1>OwnUndo, <1>UsedSems DEF IInv, LockInv, SetInv, RefInv, RcuInv, ListInv, LinkInv

-----------------------------------------------------------------------------
(* Calls that begin, clone(), and the RCU callbacks.                       *)

(* newary().                                                               *)
LEMMA IInv_newary ==
    ASSUME IInv, NEW p \in Ctls, newary(p)
    PROVE  IInv'
<1> USE DEF Holding, Waiting, Referring, WakingUp
<1>t. /\ mem \in [Arrays -> Mems] /\ refcount \in [Arrays -> Int]
      /\ lock \in [Arrays -> Procs \cup {NoProc}] /\ idr \in [Slots -> Arrays \cup {NoArr}]
      /\ used_sems \in Int /\ pc \in [Procs -> Labels]
      /\ cmd \in [Procs -> Cmds \cup {"none", "SEMOP", "EXIT"}]
      /\ sma \in [Procs -> Arrays \cup {NoArr}]
      /\ undo \in [Procs -> [list : Tasks \cup {NoProc}, set : Arrays \cup {NoArr}]]
  BY Parts, UnType DEF TypeInv
<1>c. CallInv'
  <2>1. Next
    BY Kinds DEF Next, Step
  <2> QED BY Parts, <2>1, CallStep
<1>p. p \in Procs
  BY Kinds
<1>d. PICK a \in Arrays :
        /\ mem[a] = "none" /\ idr[IdOf[a][1]] = NoArr /\ mem' = [mem EXCEPT ![a] = "live"]
        /\ refcount' = [refcount EXCEPT ![a] = 1] /\ idr' = [idr EXCEPT ![IdOf[a][1]] = a]
  BY DEF newary
<1>e. \A b \in Arrays : IdOf[b][1] \in Slots
  BY DEF Slots, Ids
<1>a. mem[a] = "none" /\ ~deleted[a] /\ Holders(a) = {} /\ ~Counted(a) /\ idr[IdOf[a][1]] = NoArr
  <2>1. mem[a] = "none" /\ ~deleted[a]
    BY Parts, <1>d DEF SetLife
  <2> QED BY Parts, <1>d, <2>1 DEF ReferencesCovered
<1>b. PICK s1 \in Slots : s1 = IdOf[a][1]
  BY <1>e
<1>u. /\ UNCHANGED <<semval, sem_pending, complex_count, deleted, grace, lock, rw_mutex, list_id,
                     list_proc, readers, undo_list, ulp, refcnt, ulp_lock, un, pc, cmd, sops, semid,
                     sma, undo, status, outcome, state, sig, timedout, tasks, idx, semnum, walk, ref,
                     res>>
  BY <1>t, <1>p, <1>d, <1>e, <1>a, <1>b DEF newary, args, arrayv, lists, queue, scanv, sched, ulpv
<1>e_mem. /\ mem' \in [Arrays -> Mems] /\ mem'[a] = "live" /\ \A b \in Arrays : b # a => mem'[b] = mem[b]
  BY <1>t, <1>d DEF Mems
<1>e_refcount. /\ refcount' \in [Arrays -> Int] /\ refcount'[a] = 1 /\ \A b \in Arrays : b # a => refcount'[b] = refcount[b]
  BY <1>t, <1>d
<1>e_idr. /\ idr' \in [Slots -> Arrays \cup {NoArr}] /\ idr'[s1] = a /\ \A s \in Slots : s # s1 => idr'[s] = idr[s]
  BY <1>t, <1>b, <1>d
<1>e_used_sems. /\ used_sems' \in Int /\ used_sems' = used_sems + Cardinality(Sems)
                /\ used_sems + Cardinality(Sems) <= sc_semmns
  <2>1. Cardinality(Sems) \in Nat
    BY SemConstants, FS_CardinalityType
  <2> QED BY <1>t, <2>1 DEF newary
<1>T. TypeInv'
  BY Parts, <1>u, <1>e_mem, <1>e_refcount, <1>e_idr, <1>e_used_sems DEF TypeInv, Uns, UnRecs
<1>f. /\ SetLocks' /\ ListLocks' /\ Unlinking' /\ Removing' /\ HeldSets' /\ Loaded' /\ KeptUndo'
      /\ UserCount' /\ ExitList' /\ FreshList' /\ OwnList' /\ OnceLinked' /\ LinkedLive'
      /\ BothLists' /\ OneList' /\ Unlinked' /\ OwnUndo'
  BY Parts, <1>u, Frames
<1>H. \A b \in Arrays : Holders(b)' = Holders(b)
  BY Kinds, <1>u, <1>p, <1>e, <1>a, <1>b, HoldersSame
<1>O. /\ Counted(a)' /\ \A b \in Arrays : b # a => Counted(b)' = Counted(b)
  BY <1>a, <1>u, <1>e_mem DEF Counted
<1>SetLife. SetLife'
  BY Parts, <1>u, <1>e_mem, <1>p, <1>e, <1>a, <1>b DEF SetLife
<1>InTable. InTable'
  BY Parts, Kinds, <1>u, <1>e_mem, <1>e_idr, <1>p, <1>e, <1>a, <1>b DEF InTable
<1>HasUndos. HasUndos'
  BY Parts, <1>u, <1>e_mem, <1>p, <1>e, <1>a, <1>b DEF HasUndos
<1>TableSets. TableSets'
  BY Parts, <1>u, <1>e_mem, <1>e_idr, <1>p, <1>e, <1>a, <1>b DEF TableSets
<1>GoneSets. GoneSets'
  BY Parts, Sites, Calls, <1>u, <1>e_mem, <1>p, <1>e, <1>a, <1>b DEF GoneSets
<1>ReferencesCovered. ReferencesCovered'
  <2>1. refcount'[a] >= Cardinality(Holders(a)') + 1 /\ mem'[a] = "live"
    <3>1. Cardinality({}) = 0
        BY FS_EmptySet
    <3>2. Holders(a)' = {}
        BY <1>H, <1>a
    <3>3. refcount'[a] = 1 /\ mem'[a] = "live"
        BY <1>e_mem, <1>e_refcount
    <3>4. Cardinality(Holders(a)') = 0
        BY <3>1, <3>2
    <3> QED BY <3>3, <3>4
  <2>2. \A b \in Arrays : b # a /\ (Holders(b)' # {} \/ Counted(b)') =>
          mem'[b] = "live" /\ refcount'[b] >= Cardinality(Holders(b)') + (IF Counted(b)' THEN 1 ELSE 0)
    BY Parts, <1>H, <1>O, <1>e_mem, <1>e_refcount DEF ReferencesCovered
  <2> QED BY <1>O, <2>1, <2>2 DEF ReferencesCovered
<1>RefNat. RefNat'
  BY Parts, <1>t, <1>u, <1>e_refcount, <1>p, <1>e, <1>a, <1>b DEF RefNat
<1>KeptSets. KeptSets'
  BY Parts, Sites, <1>u, <1>e_mem, <1>p, <1>e, <1>a, <1>b DEF KeptSets, Kept
<1>UsedSems. UsedSems'
  BY Parts, <1>a, <1>O, <1>e_used_sems, UsedJoin
<1> QED BY <1>T, <1>c, <1>f, <1>SetLife, <1>InTable, <1>HasUndos, <1>TableSets, <1>GoneSets,
  <1>ReferencesCovered, <1>RefNat, <1>KeptSets, <1>UsedSems DEF IInv, LockInv, SetInv, RefInv,
  RcuInv, ListInv, LinkInv

(* semctl() is called.                                                     *)
LEMMA IInv_semctl ==
    ASSUME IInv, NEW p \in Ctls, semctl(p)
    PROVE  IInv'
<1> USE DEF Holding, Waiting, Referring, WakingUp
<1>t. /\ lock \in [Arrays -> Procs \cup {NoProc}] /\ rw_mutex \in Ctls \cup {NoProc}
      /\ pc \in [Procs -> Labels] /\ cmd \in [Procs -> Cmds \cup {"none", "SEMOP", "EXIT"}]
      /\ semid \in [Procs -> Ids] /\ sma \in [Procs -> Arrays \cup {NoArr}]
      /\ undo \in [Procs -> [list : Tasks \cup {NoProc}, set : Arrays \cup {NoArr}]]
  BY Parts, UnType DEF TypeInv
<1>c. CallInv'
  <2>1. Next
    BY Kinds DEF Next, Step
  <2> QED BY Parts, <2>1, CallStep
<1>p. p \in Procs
  BY Kinds
<1>g. pc[p] = "idle"
  BY DEF semctl
<1>d. PICK x \in Cmds, y \in Ids :
        /\ x = "RMID" => rw_mutex = NoProc
        /\ rw_mutex' = IF x = "RMID" THEN p ELSE rw_mutex
        /\ cmd' = [cmd EXCEPT ![p] = x] /\ semid' = [semid EXCEPT ![p] = y]
  BY DEF semctl
<1>a. x # "EXIT" /\ x # "SEMOP" /\ x # "none" /\ (x = "RMID" => rw_mutex = NoProc)
  BY <1>d, SemConstants
<1>b. cmd[p] = "none" /\ p \notin Tasks
  BY Parts, Kinds, <1>p, <1>g, Locals
<1>u. /\ UNCHANGED <<semval, sem_pending, complex_count, mem, refcount, deleted, grace, lock, idr,
                     used_sems, list_id, list_proc, readers, undo_list, ulp, refcnt, ulp_lock, un,
                     sops, sma, undo, status, outcome, state, sig, timedout, tasks, idx, semnum, walk,
                     ref, res>>
  BY <1>t, <1>p, <1>g, <1>d, <1>a, <1>b DEF semctl, Goto, arrayv, life, lists, queue, scanv, sched,
    ulpv
<1>e_pc. /\ pc' \in [Procs -> Labels] /\ pc'[p] = "cfind" /\ \A q \in Procs : q # p => pc'[q] = pc[q]
  BY Parts, <1>t, Kinds, <1>p, <1>g, <1>d, <1>a, <1>b DEF semctl, Goto, Labels
<1>e_cmd. /\ cmd' \in [Procs -> Cmds \cup {"none", "SEMOP", "EXIT"}] /\ cmd'[p] = x /\ \A q \in Procs : q # p => cmd'[q] = cmd[q]
  BY <1>t, <1>p, <1>d
<1>e_semid. /\ semid' \in [Procs -> Ids] /\ semid'[p] = y /\ \A q \in Procs : q # p => semid'[q] = semid[q]
  BY <1>t, <1>p, <1>d
<1>e_rw_mutex. /\ rw_mutex' \in Ctls \cup {NoProc}
               /\ rw_mutex' = IF x = "RMID" THEN p ELSE rw_mutex
  BY <1>t, <1>d
<1>T. TypeInv'
  BY Parts, <1>u, <1>e_pc, <1>e_cmd, <1>e_semid, <1>e_rw_mutex DEF TypeInv, Uns, UnRecs
<1>f. /\ SetLife' /\ InTable' /\ HasUndos' /\ TableSets' /\ RefNat' /\ UserCount' /\ OnceLinked'
      /\ LinkedLive' /\ BothLists'
  BY Parts, <1>u, Frames
<1>H. \A b \in Arrays : Holders(b)' = Holders(b)
  BY Kinds, <1>u, <1>e_pc, <1>p, <1>g, <1>a, <1>b, HoldersSame
<1>O. \A b \in Arrays : Counted(b)' = Counted(b)
  BY Kinds, Calls, <1>u, <1>e_cmd, <1>e_pc, <1>p, <1>g, <1>a, <1>b, CountedSame
<1>SetLocks. SetLocks'
  BY Parts, Kinds, <1>u, <1>e_pc, <1>p, <1>g, <1>a, <1>b DEF SetLocks
<1>ListLocks. ListLocks'
  BY Parts, Kinds, <1>u, <1>e_pc, <1>p, <1>g, <1>a, <1>b DEF ListLocks
<1>Unlinking. Unlinking'
  BY Parts, <1>u, <1>e_pc, <1>p, <1>g, <1>a, <1>b DEF Unlinking
<1>Removing. Removing'
  BY Parts, Calls, Kinds, <1>u, <1>e_rw_mutex, <1>e_pc, <1>e_cmd, <1>p, <1>g, <1>a, <1>b DEF Removing
<1>HeldSets. HeldSets'
  BY Parts, Sites, <1>u, <1>e_pc, <1>p, <1>g, <1>a, <1>b DEF HeldSets
<1>GoneSets. GoneSets'
  BY Parts, Sites, Calls, <1>u, <1>e_pc, <1>e_cmd, <1>p, <1>g, <1>a, <1>b DEF GoneSets
<1>ReferencesCovered. ReferencesCovered'
  BY Parts, <1>H, <1>O, <1>t, <1>u, <1>e_pc, <1>e_cmd, <1>p, <1>g, <1>a, <1>b, HoldersFinite DEF
    ReferencesCovered
<1>Loaded. Loaded'
  BY Parts, Sites, <1>H, Calls, <1>t, <1>u, <1>e_pc, <1>p, <1>g, <1>a, <1>b, HoldersFinite DEF Loaded
<1>KeptSets. KeptSets'
  BY Parts, Sites, <1>u, <1>e_pc, <1>p, <1>g, <1>a, <1>b DEF KeptSets, Kept
<1>KeptUndo. KeptUndo'
  BY Parts, Undos, <1>u, <1>e_pc, <1>p, <1>g, <1>a, <1>b DEF KeptUndo, Kept
<1>ExitList. ExitList'
  BY Parts, Kinds, Calls, <1>u, <1>e_pc, <1>e_cmd, <1>p, <1>g, <1>a, <1>b DEF ExitList, Users
<1>FreshList. FreshList'
  BY Parts, Kinds, Calls, <1>u, <1>e_cmd, <1>p, <1>g, <1>a, <1>b DEF FreshList, Users
<1>OwnList. OwnList'
  BY Parts, Kinds, Calls, <1>u, <1>e_pc, <1>e_cmd, <1>p, <1>g, <1>a, <1>b DEF OwnList
<1>OneList. OneList'
  BY Parts, Kinds, <1>u, <1>e_pc, <1>p, <1>g, <1>a, <1>b DEF OneList
<1>Unlinked. Unlinked'
  BY Parts, Undos, <1>u, <1>e_pc, <1>e_cmd, <1>p, <1>g, <1>a, <1>b DEF Unlinked
<1>OwnUndo. OwnUndo'
  BY Parts, Undos, Sites, <1>u, <1>e_pc, <1>e_cmd, <1>e_semid, <1>p, <1>g, <1>a, <1>b DEF OwnUndo
<1>UsedSems. UsedSems'
  BY Parts, <1>O, <1>u, <1>e_pc, <1>e_cmd DEF UsedSems
<1> QED BY <1>T, <1>c, <1>f, <1>SetLocks, <1>ListLocks, <1>Unlinking, <1>Removing, <1>HeldSets,
  <1>GoneSets, <1>ReferencesCovered, <1>Loaded, <1>KeptSets, <1>KeptUndo, <1>ExitList,
  <1>FreshList, <1>OwnList, <1>OneList, <1>Unlinked, <1>OwnUndo, <1>UsedSems DEF IInv, LockInv,
  SetInv, RefInv, RcuInv, ListInv, LinkInv

(* semtimedop() is called.                                                 *)
LEMMA IInv_semop ==
    ASSUME IInv, NEW p \in Tasks, semop(p)
    PROVE  IInv'
<1> USE DEF Holding, Waiting, Referring, WakingUp
<1>t. /\ lock \in [Arrays -> Procs \cup {NoProc}] /\ pc \in [Procs -> Labels]
      /\ cmd \in [Procs -> Cmds \cup {"none", "SEMOP", "EXIT"}]
      /\ sops \in [Procs -> SopSeqs \cup {<<>>}] /\ semid \in [Procs -> Ids]
      /\ sma \in [Procs -> Arrays \cup {NoArr}]
      /\ undo \in [Procs -> [list : Tasks \cup {NoProc}, set : Arrays \cup {NoArr}]]
  BY Parts, UnType DEF TypeInv
<1>c. CallInv'
  <2>1. Next
    BY Kinds DEF Next, Step
  <2> QED BY Parts, <2>1, CallStep
<1>p. p \in Procs
  BY Kinds
<1>g. pc[p] = "idle"
  BY DEF semop
<1>d. PICK x \in SopSeqs, y \in Ids :
        /\ sops' = [sops EXCEPT ![p] = x] /\ semid' = [semid EXCEPT ![p] = y]
        /\ Goto(p, IF Undoes(x) THEN "undo" ELSE "find")
  BY DEF semop
<1>a. PICK l1 \in {"undo", "find"} : pc' = [pc EXCEPT ![p] = l1]
  BY <1>d DEF Goto
<1>b. cmd[p] = "none" /\ undo[p].set = NoArr
  BY Parts, <1>p, <1>g, Locals DEF OwnList, NoUndo
<1>u. /\ UNCHANGED <<semval, sem_pending, complex_count, mem, refcount, deleted, grace, lock, idr,
                     used_sems, rw_mutex, list_id, list_proc, readers, undo_list, ulp, refcnt,
                     ulp_lock, un, sma, undo, status, outcome, state, sig, timedout, tasks, idx,
                     semnum, walk, ref, res>>
  BY <1>t, <1>p, <1>g, <1>d, <1>a, <1>b DEF semop, Goto, arrayv, life, lists, ns, queue, scanv,
    sched, ulpv
<1>e_pc. /\ pc' \in [Procs -> Labels] /\ pc'[p] = l1 /\ \A q \in Procs : q # p => pc'[q] = pc[q]
  BY <1>t, <1>p, <1>a DEF Labels
<1>e_cmd. /\ cmd' \in [Procs -> Cmds \cup {"none", "SEMOP", "EXIT"}] /\ cmd'[p] = "SEMOP" /\ \A q \in Procs : q # p => cmd'[q] = cmd[q]
  BY Parts, <1>t, Kinds, <1>p, <1>g, <1>d, <1>a, <1>b DEF semop, Goto
<1>e_semid. /\ semid' \in [Procs -> Ids] /\ semid'[p] = y /\ \A q \in Procs : q # p => semid'[q] = semid[q]
  BY <1>t, <1>p, <1>d
<1>e_sops. /\ sops' \in [Procs -> SopSeqs \cup {<<>>}] /\ sops'[p] = x /\ \A q \in Procs : q # p => sops'[q] = sops[q]
  BY <1>t, <1>p, <1>d
<1>T. TypeInv'
  BY Parts, <1>u, <1>e_pc, <1>e_cmd, <1>e_semid, <1>e_sops DEF TypeInv, Uns, UnRecs
<1>f. /\ SetLife' /\ InTable' /\ HasUndos' /\ TableSets' /\ RefNat' /\ UserCount' /\ OnceLinked'
      /\ LinkedLive' /\ BothLists'
  BY Parts, <1>u, Frames
<1>H. \A b \in Arrays : Holders(b)' = Holders(b)
  BY Kinds, <1>u, <1>e_pc, <1>p, <1>g, <1>a, <1>b, HoldersSame
<1>O. \A b \in Arrays : Counted(b)' = Counted(b)
  BY Kinds, Calls, <1>u, <1>e_cmd, <1>e_pc, <1>p, <1>g, <1>a, <1>b, CountedSame
<1>SetLocks. SetLocks'
  BY Parts, Kinds, <1>u, <1>e_pc, <1>p, <1>g, <1>a, <1>b DEF SetLocks
<1>ListLocks. ListLocks'
  BY Parts, Kinds, <1>u, <1>e_pc, <1>p, <1>g, <1>a, <1>b DEF ListLocks
<1>Unlinking. Unlinking'
  BY Parts, <1>u, <1>e_pc, <1>p, <1>g, <1>a, <1>b DEF Unlinking
<1>Removing. Removing'
  BY Parts, Calls, Kinds, <1>u, <1>e_pc, <1>e_cmd, <1>p, <1>g, <1>a, <1>b DEF Removing
<1>HeldSets. HeldSets'
  BY Parts, Sites, <1>u, <1>e_pc, <1>p, <1>g, <1>a, <1>b DEF HeldSets
<1>GoneSets. GoneSets'
  BY Parts, Sites, Calls, <1>u, <1>e_pc, <1>e_cmd, <1>p, <1>g, <1>a, <1>b DEF GoneSets
<1>ReferencesCovered. ReferencesCovered'
  BY Parts, <1>H, <1>O, <1>t, <1>u, <1>e_pc, <1>e_cmd, <1>p, <1>g, <1>a, <1>b, HoldersFinite DEF
    ReferencesCovered
<1>Loaded. Loaded'
  BY Parts, Sites, <1>H, Calls, <1>t, <1>u, <1>e_pc, <1>p, <1>g, <1>a, <1>b, HoldersFinite DEF Loaded
<1>KeptSets. KeptSets'
  BY Parts, Sites, <1>u, <1>e_pc, <1>p, <1>g, <1>a, <1>b DEF KeptSets, Kept
<1>KeptUndo. KeptUndo'
  BY Parts, Undos, <1>u, <1>e_pc, <1>p, <1>g, <1>a, <1>b DEF KeptUndo, Kept
<1>ExitList. ExitList'
  BY Parts, Kinds, Calls, <1>u, <1>e_pc, <1>e_cmd, <1>p, <1>g, <1>a, <1>b DEF ExitList, Users
<1>FreshList. FreshList'
  BY Parts, Kinds, Calls, <1>u, <1>e_cmd, <1>p, <1>g, <1>a, <1>b DEF FreshList, Users
<1>OwnList. OwnList'
  BY Parts, Kinds, Calls, <1>u, <1>e_pc, <1>e_cmd, <1>p, <1>g, <1>a, <1>b DEF OwnList
<1>OneList. OneList'
  BY Parts, Kinds, <1>u, <1>e_pc, <1>p, <1>g, <1>a, <1>b DEF OneList
<1>Unlinked. Unlinked'
  BY Parts, Undos, <1>u, <1>e_pc, <1>e_cmd, <1>p, <1>g, <1>a, <1>b DEF Unlinked
<1>OwnUndo. OwnUndo'
  BY Parts, Undos, Sites, <1>u, <1>e_pc, <1>e_cmd, <1>e_semid, <1>p, <1>g, <1>a, <1>b DEF OwnUndo
<1>UsedSems. UsedSems'
  BY Parts, <1>O, <1>u, <1>e_pc, <1>e_cmd DEF UsedSems
<1> QED BY <1>T, <1>c, <1>f, <1>SetLocks, <1>ListLocks, <1>Unlinking, <1>Removing, <1>HeldSets,
  <1>GoneSets, <1>ReferencesCovered, <1>Loaded, <1>KeptSets, <1>KeptUndo, <1>ExitList,
  <1>FreshList, <1>OwnList, <1>OneList, <1>Unlinked, <1>OwnUndo, <1>UsedSems DEF IInv, LockInv,
  SetInv, RefInv, RcuInv, ListInv, LinkInv

(* A signal arrives.                                                       *)
LEMMA IInv_Signal ==
    ASSUME IInv, NEW p \in Tasks, Signal(p)
    PROVE  IInv'
<1> USE DEF Holding, Waiting, Referring, WakingUp
<1>t. /\ lock \in [Arrays -> Procs \cup {NoProc}] /\ pc \in [Procs -> Labels]
      /\ cmd \in [Procs -> Cmds \cup {"none", "SEMOP", "EXIT"}]
      /\ sma \in [Procs -> Arrays \cup {NoArr}]
      /\ undo \in [Procs -> [list : Tasks \cup {NoProc}, set : Arrays \cup {NoArr}]]
      /\ sig \subseteq Tasks
  BY Parts, UnType DEF TypeInv
<1>c. CallInv'
  <2>1. Next
    BY Kinds DEF Next, Step
  <2> QED BY Parts, <2>1, CallStep
<1>u. /\ UNCHANGED <<semval, sem_pending, complex_count, mem, refcount, deleted, grace, lock, idr,
                     used_sems, rw_mutex, list_id, list_proc, readers, undo_list, ulp, refcnt,
                     ulp_lock, un, pc, cmd, sops, semid, sma, undo, status, outcome, state, timedout,
                     tasks, idx, semnum, walk, ref, res>>
  BY <1>t DEF Signal, args, arrayv, life, lists, ns, queue, scanv, ulpv
<1>e_sig. sig' = (sig \cup {p}) /\ sig' \subseteq Tasks
  BY Parts, <1>t, Kinds DEF Signal
<1>T. TypeInv'
  BY Parts, <1>u, <1>e_sig DEF TypeInv, Uns, UnRecs
<1>f. /\ SetLocks' /\ ListLocks' /\ Unlinking' /\ Removing' /\ SetLife' /\ InTable' /\ HasUndos'
      /\ TableSets' /\ HeldSets' /\ GoneSets' /\ ReferencesCovered' /\ RefNat' /\ Loaded'
      /\ KeptSets' /\ KeptUndo' /\ UserCount' /\ ExitList' /\ FreshList' /\ OwnList' /\ OnceLinked'
      /\ LinkedLive' /\ BothLists' /\ OneList' /\ Unlinked' /\ OwnUndo' /\ UsedSems'
  BY Parts, <1>u, Frames
<1> QED BY <1>T, <1>c, <1>f DEF IInv, LockInv, SetInv, RefInv, RcuInv, ListInv, LinkInv

(* exit_sem() of a task without an undo list.                              *)
LEMMA IInv_exit_sem_none ==
    ASSUME IInv, NEW p \in Tasks, exit_sem(p), undo_list[p] = NoProc
    PROVE  IInv'
<1> USE DEF Holding, Waiting, Referring, WakingUp
<1>t. /\ lock \in [Arrays -> Procs \cup {NoProc}] /\ undo_list \in [Tasks -> Tasks \cup {NoProc}]
      /\ pc \in [Procs -> Labels] /\ cmd \in [Procs -> Cmds \cup {"none", "SEMOP", "EXIT"}]
      /\ sops \in [Procs -> SopSeqs \cup {<<>>}] /\ sma \in [Procs -> Arrays \cup {NoArr}]
      /\ undo \in [Procs -> [list : Tasks \cup {NoProc}, set : Arrays \cup {NoArr}]]
  BY Parts, UnType DEF TypeInv
<1>c. CallInv'
  <2>1. Next
    BY Kinds DEF Next, Step
  <2> QED BY Parts, <2>1, CallStep
<1>p. p \in Procs
  BY Kinds
<1>g. pc[p] = "idle"
  BY DEF exit_sem
<1>b. cmd[p] = "none" /\ undo[p].set = NoArr /\ undo_list[p] \in Tasks \cup {NoProc}
  BY Parts, <1>t, <1>p, <1>g, Locals DEF OwnList, NoUndo
<1>u. /\ UNCHANGED <<semval, sem_pending, complex_count, mem, refcount, deleted, grace, lock, idr,
                     used_sems, rw_mutex, list_id, list_proc, readers, ulp, refcnt, ulp_lock, un,
                     semid, sma, status, outcome, state, sig, timedout, tasks, idx, semnum, walk, ref,
                     res>>
  BY <1>t, <1>p, <1>g, <1>b DEF exit_sem, Goto, arrayv, life, lists, ns, queue, scanv, sched
<1>e_pc. /\ pc' \in [Procs -> Labels] /\ pc'[p] = "dead" /\ \A q \in Procs : q # p => pc'[q] = pc[q]
  BY Parts, <1>t, Kinds, <1>p, <1>g, <1>b DEF exit_sem, Goto, Labels
<1>e_cmd. /\ cmd' \in [Procs -> Cmds \cup {"none", "SEMOP", "EXIT"}] /\ cmd'[p] = "EXIT" /\ \A q \in Procs : q # p => cmd'[q] = cmd[q]
  BY Parts, <1>t, Kinds, <1>p, <1>g, <1>b DEF exit_sem, Goto
<1>e_sops. /\ sops' \in [Procs -> SopSeqs \cup {<<>>}] /\ sops'[p] = <<>> /\ \A q \in Procs : q # p => sops'[q] = sops[q]
  BY Parts, <1>t, Kinds, <1>p, <1>g, <1>b DEF exit_sem, Goto
<1>e_undo_list. /\ undo_list' \in [Tasks -> Tasks \cup {NoProc}] /\ undo_list'[p] = NoProc /\ \A v \in Tasks : v # p => undo_list'[v] = undo_list[v]
  BY Parts, <1>t, Kinds, <1>p, <1>g, <1>b DEF exit_sem, Goto
<1>e_undo. /\ undo' \in [Procs -> [list : Tasks \cup {NoProc}, set : Arrays \cup {NoArr}]] /\ undo'[p] = [list |-> NoProc, set |-> NoArr] /\ \A q \in Procs : q # p => undo'[q] = undo[q]
  BY Parts, <1>t, Kinds, <1>p, <1>g, <1>b DEF exit_sem, Goto
<1>T. TypeInv'
  BY Parts, <1>u, <1>e_pc, <1>e_cmd, <1>e_sops, <1>e_undo_list, <1>e_undo DEF TypeInv, Uns, UnRecs
<1>f. /\ SetLife' /\ InTable' /\ HasUndos' /\ TableSets' /\ RefNat' /\ OnceLinked' /\ LinkedLive'
      /\ BothLists'
  BY Parts, <1>u, Frames
<1>H. \A b \in Arrays : Holders(b)' = Holders(b)
  BY Kinds, <1>u, <1>e_pc, <1>p, <1>g, <1>b, HoldersSame
<1>O. \A b \in Arrays : Counted(b)' = Counted(b)
  BY Kinds, Calls, <1>u, <1>e_cmd, <1>e_pc, <1>p, <1>g, <1>b, CountedSame
<1>SetLocks. SetLocks'
  BY Parts, Kinds, <1>u, <1>e_pc, <1>p, <1>g, <1>b DEF SetLocks
<1>ListLocks. ListLocks'
  BY Parts, Kinds, <1>u, <1>e_pc, <1>e_undo, <1>p, <1>g, <1>b DEF ListLocks
<1>Unlinking. Unlinking'
  BY Parts, <1>u, <1>e_pc, <1>e_undo, <1>p, <1>g, <1>b DEF Unlinking
<1>Removing. Removing'
  BY Parts, Calls, Kinds, <1>u, <1>e_pc, <1>e_cmd, <1>p, <1>g, <1>b DEF Removing
<1>HeldSets. HeldSets'
  BY Parts, Sites, <1>u, <1>e_pc, <1>p, <1>g, <1>b DEF HeldSets
<1>GoneSets. GoneSets'
  BY Parts, Sites, Calls, <1>u, <1>e_pc, <1>e_cmd, <1>p, <1>g, <1>b DEF GoneSets
<1>ReferencesCovered. ReferencesCovered'
  BY Parts, <1>H, <1>O, <1>t, <1>u, <1>e_pc, <1>e_cmd, <1>p, <1>g, <1>b, HoldersFinite DEF
    ReferencesCovered
<1>Loaded. Loaded'
  BY Parts, Sites, <1>H, Calls, <1>t, <1>u, <1>e_pc, <1>p, <1>g, <1>b, HoldersFinite DEF Loaded
<1>KeptSets. KeptSets'
  BY Parts, Sites, <1>u, <1>e_pc, <1>p, <1>g, <1>b DEF KeptSets, Kept
<1>KeptUndo. KeptUndo'
  BY Parts, Undos, <1>u, <1>e_pc, <1>e_undo, <1>p, <1>g, <1>b DEF KeptUndo, Kept
<1>UserCount. UserCount'
  BY Parts, <1>u, <1>e_undo_list, <1>p, <1>g, <1>b DEF UserCount, Users
<1>ExitList. ExitList'
  BY Parts, Kinds, Calls, <1>u, <1>e_undo_list, <1>e_pc, <1>e_cmd, <1>e_undo, <1>p, <1>g, <1>b DEF
    ExitList, Users
<1>FreshList. FreshList'
  <2> SUFFICES ASSUME NEW q \in Tasks, cmd'[q] # "EXIT", undo_list'[q] = NoProc
               PROVE  Users(q)' = {} /\ \A r \in Tasks : cmd'[r] = "EXIT" => undo'[r].list # q
    BY DEF FreshList
  <2>1. q # p /\ undo_list[q] = NoProc /\ cmd[q] # "EXIT"
    BY Kinds, <1>e_cmd, <1>e_undo_list
  <2>2. Users(q) = {} /\ \A r \in Tasks : cmd[r] = "EXIT" => undo[r].list # q
    BY Parts, <2>1 DEF FreshList
  <2>3. Users(q)' = Users(q)
    BY <1>e_undo_list DEF Users
  <2>4. undo'[p].list # q
    BY Kinds, <1>e_undo
  <2> QED BY Kinds, <1>e_cmd, <1>e_undo, <2>2, <2>3, <2>4
<1>OwnList. OwnList'
  BY Parts, Kinds, Calls, <1>u, <1>e_undo_list, <1>e_pc, <1>e_cmd, <1>e_undo, <1>p, <1>g, <1>b DEF
    OwnList
<1>OneList. OneList'
  BY Parts, Kinds, <1>u, <1>e_pc, <1>e_undo, <1>p, <1>g, <1>b DEF OneList
<1>Unlinked. Unlinked'
  BY Parts, Undos, <1>u, <1>e_pc, <1>e_cmd, <1>e_undo, <1>p, <1>g, <1>b DEF Unlinked
<1>OwnUndo. OwnUndo'
  BY Parts, Undos, Sites, <1>u, <1>e_pc, <1>e_cmd, <1>e_undo, <1>p, <1>g, <1>b DEF OwnUndo
<1>UsedSems. UsedSems'
  BY Parts, <1>O, <1>u, <1>e_pc, <1>e_cmd DEF UsedSems
<1> QED BY <1>T, <1>c, <1>f, <1>SetLocks, <1>ListLocks, <1>Unlinking, <1>Removing, <1>HeldSets,
  <1>GoneSets, <1>ReferencesCovered, <1>Loaded, <1>KeptSets, <1>KeptUndo, <1>UserCount,
  <1>ExitList, <1>FreshList, <1>OwnList, <1>OneList, <1>Unlinked, <1>OwnUndo, <1>UsedSems DEF IInv,
  LockInv, SetInv, RefInv, RcuInv, ListInv, LinkInv

(* exit_sem() of the last user of an undo list.                            *)
LEMMA IInv_exit_sem_last ==
    ASSUME IInv, NEW p \in Tasks, exit_sem(p), undo_list[p] # NoProc, refcnt[undo_list[p]] = 1
    PROVE  IInv'
<1> USE DEF Holding, Waiting, Referring, WakingUp
<1>t. /\ lock \in [Arrays -> Procs \cup {NoProc}] /\ undo_list \in [Tasks -> Tasks \cup {NoProc}]
      /\ refcnt \in [Tasks -> Int] /\ pc \in [Procs -> Labels]
      /\ cmd \in [Procs -> Cmds \cup {"none", "SEMOP", "EXIT"}]
      /\ sops \in [Procs -> SopSeqs \cup {<<>>}] /\ sma \in [Procs -> Arrays \cup {NoArr}]
      /\ undo \in [Procs -> [list : Tasks \cup {NoProc}, set : Arrays \cup {NoArr}]]
  BY Parts, UnType DEF TypeInv
<1>c. CallInv'
  <2>1. Next
    BY Kinds DEF Next, Step
  <2> QED BY Parts, <2>1, CallStep
<1>p. p \in Procs
  BY Kinds
<1>g. pc[p] = "idle"
  BY DEF exit_sem
<1>b. cmd[p] = "none" /\ undo[p].set = NoArr /\ undo_list[p] \in Tasks \cup {NoProc}
  BY Parts, <1>t, <1>p, <1>g, Locals DEF OwnList, NoUndo
<1>a. PICK u \in Tasks : u = undo_list[p]
  BY <1>b
<1>n. /\ p \in Users(u) /\ IsFiniteSet(Users(u)) /\ refcnt[u] = Cardinality(Users(u))
  <2>1. Users(u) \subseteq Procs
    BY Kinds DEF Users
  <2> QED BY Parts, <1>a, <2>1, Consts, FS_Subset DEF UserCount, Users
<1>u. /\ UNCHANGED <<semval, sem_pending, complex_count, mem, refcount, deleted, grace, lock, idr,
                     used_sems, rw_mutex, list_id, list_proc, readers, ulp, ulp_lock, un, semid, sma,
                     status, outcome, state, sig, timedout, tasks, idx, semnum, walk, ref, res>>
  BY <1>t, <1>p, <1>g, <1>b, <1>a, <1>n DEF exit_sem, Goto, arrayv, life, lists, ns, queue, scanv,
    sched
<1>e_pc. /\ pc' \in [Procs -> Labels] /\ pc'[p] = "xread" /\ \A q \in Procs : q # p => pc'[q] = pc[q]
  BY Parts, <1>t, Kinds, <1>p, <1>g, <1>b, <1>a, <1>n DEF exit_sem, Goto, Labels
<1>e_cmd. /\ cmd' \in [Procs -> Cmds \cup {"none", "SEMOP", "EXIT"}] /\ cmd'[p] = "EXIT" /\ \A q \in Procs : q # p => cmd'[q] = cmd[q]
  BY Parts, <1>t, Kinds, <1>p, <1>g, <1>b, <1>a, <1>n DEF exit_sem, Goto
<1>e_sops. /\ sops' \in [Procs -> SopSeqs \cup {<<>>}] /\ sops'[p] = <<>> /\ \A q \in Procs : q # p => sops'[q] = sops[q]
  BY Parts, <1>t, Kinds, <1>p, <1>g, <1>b, <1>a, <1>n DEF exit_sem, Goto
<1>e_undo_list. /\ undo_list' \in [Tasks -> Tasks \cup {NoProc}] /\ undo_list'[p] = NoProc /\ \A v \in Tasks : v # p => undo_list'[v] = undo_list[v]
  BY Parts, <1>t, Kinds, <1>p, <1>g, <1>b, <1>a, <1>n DEF exit_sem, Goto
<1>e_undo. /\ undo' \in [Procs -> [list : Tasks \cup {NoProc}, set : Arrays \cup {NoArr}]] /\ undo'[p] = [list |-> u, set |-> NoArr] /\ \A q \in Procs : q # p => undo'[q] = undo[q]
  BY Parts, <1>t, Kinds, <1>p, <1>g, <1>b, <1>a, <1>n DEF exit_sem, Goto
<1>e_refcnt. /\ refcnt' \in [Tasks -> Int] /\ refcnt'[u] = refcnt[u] - 1 /\ \A v \in Tasks : v # u => refcnt'[v] = refcnt[v]
  BY Parts, <1>t, Kinds, <1>p, <1>g, <1>b, <1>a, <1>n DEF exit_sem, Goto
<1>U.  Users(u)' = Users(u) \ {p} /\ \A v \in Tasks : v # u => Users(v)' = Users(v)
  BY <1>a, Kinds, <1>e_undo_list DEF Users
<1>T. TypeInv'
  BY Parts, <1>u, <1>e_pc, <1>e_cmd, <1>e_sops, <1>e_undo_list, <1>e_undo, <1>e_refcnt, <1>U DEF
    TypeInv, Uns, UnRecs
<1>f. /\ SetLife' /\ InTable' /\ HasUndos' /\ TableSets' /\ RefNat' /\ OnceLinked' /\ LinkedLive'
      /\ BothLists'
  BY Parts, <1>u, Frames
<1>H. \A b \in Arrays : Holders(b)' = Holders(b)
  BY Kinds, <1>u, <1>e_pc, <1>p, <1>g, <1>b, <1>a, <1>n, HoldersSame
<1>O. \A b \in Arrays : Counted(b)' = Counted(b)
  BY Kinds, Calls, <1>u, <1>e_cmd, <1>e_pc, <1>p, <1>g, <1>b, <1>a, <1>n, CountedSame
<1>SetLocks. SetLocks'
  BY Parts, Kinds, <1>u, <1>e_pc, <1>p, <1>g, <1>b, <1>a, <1>n DEF SetLocks
<1>ListLocks. ListLocks'
  BY Parts, Kinds, <1>u, <1>e_pc, <1>e_undo, <1>p, <1>g, <1>b, <1>a, <1>n DEF ListLocks
<1>Unlinking. Unlinking'
  BY Parts, <1>u, <1>e_pc, <1>e_undo, <1>p, <1>g, <1>b, <1>a, <1>n DEF Unlinking
<1>Removing. Removing'
  BY Parts, Calls, Kinds, <1>u, <1>e_pc, <1>e_cmd, <1>p, <1>g, <1>b, <1>a, <1>n DEF Removing
<1>HeldSets. HeldSets'
  BY Parts, Sites, <1>u, <1>e_pc, <1>p, <1>g, <1>b, <1>a, <1>n DEF HeldSets
<1>GoneSets. GoneSets'
  BY Parts, Sites, Calls, <1>u, <1>e_pc, <1>e_cmd, <1>p, <1>g, <1>b, <1>a, <1>n DEF GoneSets
<1>ReferencesCovered. ReferencesCovered'
  BY Parts, <1>H, <1>O, <1>t, <1>u, <1>e_pc, <1>e_cmd, <1>p, <1>g, <1>b, <1>a, <1>n, HoldersFinite
    DEF ReferencesCovered
<1>Loaded. Loaded'
  BY Parts, Sites, <1>H, Calls, <1>t, <1>u, <1>e_pc, <1>p, <1>g, <1>b, <1>a, <1>n, HoldersFinite
    DEF Loaded
<1>KeptSets. KeptSets'
  BY Parts, Sites, <1>u, <1>e_pc, <1>p, <1>g, <1>b, <1>a, <1>n DEF KeptSets, Kept
<1>KeptUndo. KeptUndo'
  BY Parts, Undos, <1>u, <1>e_pc, <1>e_undo, <1>p, <1>g, <1>b, <1>a, <1>n DEF KeptUndo, Kept
<1>UserCount. UserCount'
  <2>1. Cardinality(Users(u) \ {p}) = Cardinality(Users(u)) - 1
    BY <1>n, FS_RemoveElement
  <2> QED BY Parts, <1>n, <1>U, <1>e_refcnt, <2>1 DEF UserCount
<1>ExitList. ExitList'
  <2> SUFFICES ASSUME NEW q \in Tasks
               PROVE  /\ (cmd[q] = "EXIT" \/ pc[q] = "unborn" => undo_list[q] = NoProc)'
                      /\ (cmd[q] = "EXIT" /\ pc[q] # "dead" => undo[q].list \in Tasks /\ Users(undo[q].list) = {})'
    BY DEF ExitList
  <2>1. CASE q = p
    <3>1. Cardinality(Users(u) \ {p}) = 0 /\ IsFiniteSet(Users(u) \ {p})
        BY <1>a, <1>n, FS_RemoveElement
    <3>2. Users(u)' = {}
        BY <1>U, <3>1, FS_EmptySet
    <3> QED BY <1>e_pc, <1>e_cmd, <1>e_undo_list, <1>e_undo, <2>1, <3>2
  <2>2. CASE q # p
    <3>1. pc'[q] = pc[q] /\ cmd'[q] = cmd[q] /\ undo_list'[q] = undo_list[q] /\ undo'[q] = undo[q]
        BY Kinds, <1>e_pc, <1>e_cmd, <1>e_undo_list, <1>e_undo, <2>2
    <3>2. /\ cmd[q] = "EXIT" \/ pc[q] = "unborn" => undo_list[q] = NoProc
          /\ cmd[q] = "EXIT" /\ pc[q] # "dead" => undo[q].list \in Tasks /\ Users(undo[q].list) = {}
        BY Parts DEF ExitList
    <3>3. \A v \in Tasks : Users(v) = {} => Users(v)' = {}
        BY <1>n, <1>U
    <3> QED BY <3>1, <3>2, <3>3
  <2> QED BY <2>1, <2>2
<1>FreshList. FreshList'
  <2> SUFFICES ASSUME NEW q \in Tasks, cmd'[q] # "EXIT", undo_list'[q] = NoProc
               PROVE  Users(q)' = {} /\ \A r \in Tasks : cmd'[r] = "EXIT" => undo'[r].list # q
    BY DEF FreshList
  <2>1. q # p /\ undo_list[q] = NoProc /\ cmd[q] # "EXIT"
    BY Kinds, <1>e_cmd, <1>e_undo_list
  <2>2. Users(q) = {} /\ \A r \in Tasks : cmd[r] = "EXIT" => undo[r].list # q
    BY Parts, <2>1 DEF FreshList
  <2>3. q # u
    BY <1>n, <2>2
  <2>4. undo'[p].list # q
    BY <1>e_undo, <2>3
  <2> QED BY Kinds, <1>U, <1>e_cmd, <1>e_undo, <2>2, <2>3, <2>4
<1>OwnList. OwnList'
  BY Parts, Kinds, Calls, <1>u, <1>e_undo_list, <1>e_pc, <1>e_cmd, <1>e_undo, <1>p, <1>g, <1>b,
    <1>a, <1>n DEF OwnList
<1>OneList. OneList'
  BY Parts, Kinds, <1>u, <1>e_pc, <1>e_undo, <1>p, <1>g, <1>b, <1>a, <1>n DEF OneList
<1>Unlinked. Unlinked'
  BY Parts, Undos, <1>u, <1>e_pc, <1>e_cmd, <1>e_undo, <1>p, <1>g, <1>b, <1>a, <1>n DEF Unlinked
<1>OwnUndo. OwnUndo'
  BY Parts, Undos, Sites, <1>u, <1>e_pc, <1>e_cmd, <1>e_undo, <1>p, <1>g, <1>b, <1>a, <1>n DEF
    OwnUndo
<1>UsedSems. UsedSems'
  BY Parts, <1>O, <1>u, <1>e_pc, <1>e_cmd DEF UsedSems
<1> QED BY <1>T, <1>c, <1>f, <1>SetLocks, <1>ListLocks, <1>Unlinking, <1>Removing, <1>HeldSets,
  <1>GoneSets, <1>ReferencesCovered, <1>Loaded, <1>KeptSets, <1>KeptUndo, <1>UserCount,
  <1>ExitList, <1>FreshList, <1>OwnList, <1>OneList, <1>Unlinked, <1>OwnUndo, <1>UsedSems DEF IInv,
  LockInv, SetInv, RefInv, RcuInv, ListInv, LinkInv

(* exit_sem() of a task that shares its undo list.                         *)
LEMMA IInv_exit_sem_shared ==
    ASSUME IInv, NEW p \in Tasks, exit_sem(p), undo_list[p] # NoProc, refcnt[undo_list[p]] # 1
    PROVE  IInv'
<1> USE DEF Holding, Waiting, Referring, WakingUp
<1>t. /\ lock \in [Arrays -> Procs \cup {NoProc}] /\ undo_list \in [Tasks -> Tasks \cup {NoProc}]
      /\ refcnt \in [Tasks -> Int] /\ pc \in [Procs -> Labels]
      /\ cmd \in [Procs -> Cmds \cup {"none", "SEMOP", "EXIT"}]
      /\ sops \in [Procs -> SopSeqs \cup {<<>>}] /\ sma \in [Procs -> Arrays \cup {NoArr}]
      /\ undo \in [Procs -> [list : Tasks \cup {NoProc}, set : Arrays \cup {NoArr}]]
  BY Parts, UnType DEF TypeInv
<1>c. CallInv'
  <2>1. Next
    BY Kinds DEF Next, Step
  <2> QED BY Parts, <2>1, CallStep
<1>p. p \in Procs
  BY Kinds
<1>g. pc[p] = "idle"
  BY DEF exit_sem
<1>b. cmd[p] = "none" /\ undo[p].set = NoArr /\ undo_list[p] \in Tasks \cup {NoProc}
  BY Parts, <1>t, <1>p, <1>g, Locals DEF OwnList, NoUndo
<1>a. PICK u \in Tasks : u = undo_list[p]
  BY <1>b
<1>n. /\ p \in Users(u) /\ IsFiniteSet(Users(u)) /\ refcnt[u] = Cardinality(Users(u))
  <2>1. Users(u) \subseteq Procs
    BY Kinds DEF Users
  <2> QED BY Parts, <1>a, <2>1, Consts, FS_Subset DEF UserCount, Users
<1>u. /\ UNCHANGED <<semval, sem_pending, complex_count, mem, refcount, deleted, grace, lock, idr,
                     used_sems, rw_mutex, list_id, list_proc, readers, ulp, ulp_lock, un, semid, sma,
                     status, outcome, state, sig, timedout, tasks, idx, semnum, walk, ref, res>>
  BY <1>t, <1>p, <1>g, <1>b, <1>a, <1>n DEF exit_sem, Goto, arrayv, life, lists, ns, queue, scanv,
    sched
<1>e_pc. /\ pc' \in [Procs -> Labels] /\ pc'[p] = "dead" /\ \A q \in Procs : q # p => pc'[q] = pc[q]
  BY Parts, <1>t, Kinds, <1>p, <1>g, <1>b, <1>a, <1>n DEF exit_sem, Goto, Labels
<1>e_cmd. /\ cmd' \in [Procs -> Cmds \cup {"none", "SEMOP", "EXIT"}] /\ cmd'[p] = "EXIT" /\ \A q \in Procs : q # p => cmd'[q] = cmd[q]
  BY Parts, <1>t, Kinds, <1>p, <1>g, <1>b, <1>a, <1>n DEF exit_sem, Goto
<1>e_sops. /\ sops' \in [Procs -> SopSeqs \cup {<<>>}] /\ sops'[p] = <<>> /\ \A q \in Procs : q # p => sops'[q] = sops[q]
  BY Parts, <1>t, Kinds, <1>p, <1>g, <1>b, <1>a, <1>n DEF exit_sem, Goto
<1>e_undo_list. /\ undo_list' \in [Tasks -> Tasks \cup {NoProc}] /\ undo_list'[p] = NoProc /\ \A v \in Tasks : v # p => undo_list'[v] = undo_list[v]
  BY Parts, <1>t, Kinds, <1>p, <1>g, <1>b, <1>a, <1>n DEF exit_sem, Goto
<1>e_undo. /\ undo' \in [Procs -> [list : Tasks \cup {NoProc}, set : Arrays \cup {NoArr}]] /\ undo'[p] = [list |-> u, set |-> NoArr] /\ \A q \in Procs : q # p => undo'[q] = undo[q]
  BY Parts, <1>t, Kinds, <1>p, <1>g, <1>b, <1>a, <1>n DEF exit_sem, Goto
<1>e_refcnt. /\ refcnt' \in [Tasks -> Int] /\ refcnt'[u] = refcnt[u] - 1 /\ \A v \in Tasks : v # u => refcnt'[v] = refcnt[v]
  BY Parts, <1>t, Kinds, <1>p, <1>g, <1>b, <1>a, <1>n DEF exit_sem, Goto
<1>U.  Users(u)' = Users(u) \ {p} /\ \A v \in Tasks : v # u => Users(v)' = Users(v)
  BY <1>a, Kinds, <1>e_undo_list DEF Users
<1>T. TypeInv'
  BY Parts, <1>u, <1>e_pc, <1>e_cmd, <1>e_sops, <1>e_undo_list, <1>e_undo, <1>e_refcnt, <1>U DEF
    TypeInv, Uns, UnRecs
<1>f. /\ SetLife' /\ InTable' /\ HasUndos' /\ TableSets' /\ RefNat' /\ OnceLinked' /\ LinkedLive'
      /\ BothLists'
  BY Parts, <1>u, Frames
<1>H. \A b \in Arrays : Holders(b)' = Holders(b)
  BY Kinds, <1>u, <1>e_pc, <1>p, <1>g, <1>b, <1>a, <1>n, HoldersSame
<1>O. \A b \in Arrays : Counted(b)' = Counted(b)
  BY Kinds, Calls, <1>u, <1>e_cmd, <1>e_pc, <1>p, <1>g, <1>b, <1>a, <1>n, CountedSame
<1>SetLocks. SetLocks'
  BY Parts, Kinds, <1>u, <1>e_pc, <1>p, <1>g, <1>b, <1>a, <1>n DEF SetLocks
<1>ListLocks. ListLocks'
  BY Parts, Kinds, <1>u, <1>e_pc, <1>e_undo, <1>p, <1>g, <1>b, <1>a, <1>n DEF ListLocks
<1>Unlinking. Unlinking'
  BY Parts, <1>u, <1>e_pc, <1>e_undo, <1>p, <1>g, <1>b, <1>a, <1>n DEF Unlinking
<1>Removing. Removing'
  BY Parts, Calls, Kinds, <1>u, <1>e_pc, <1>e_cmd, <1>p, <1>g, <1>b, <1>a, <1>n DEF Removing
<1>HeldSets. HeldSets'
  BY Parts, Sites, <1>u, <1>e_pc, <1>p, <1>g, <1>b, <1>a, <1>n DEF HeldSets
<1>GoneSets. GoneSets'
  BY Parts, Sites, Calls, <1>u, <1>e_pc, <1>e_cmd, <1>p, <1>g, <1>b, <1>a, <1>n DEF GoneSets
<1>ReferencesCovered. ReferencesCovered'
  BY Parts, <1>H, <1>O, <1>t, <1>u, <1>e_pc, <1>e_cmd, <1>p, <1>g, <1>b, <1>a, <1>n, HoldersFinite
    DEF ReferencesCovered
<1>Loaded. Loaded'
  BY Parts, Sites, <1>H, Calls, <1>t, <1>u, <1>e_pc, <1>p, <1>g, <1>b, <1>a, <1>n, HoldersFinite
    DEF Loaded
<1>KeptSets. KeptSets'
  BY Parts, Sites, <1>u, <1>e_pc, <1>p, <1>g, <1>b, <1>a, <1>n DEF KeptSets, Kept
<1>KeptUndo. KeptUndo'
  BY Parts, Undos, <1>u, <1>e_pc, <1>e_undo, <1>p, <1>g, <1>b, <1>a, <1>n DEF KeptUndo, Kept
<1>UserCount. UserCount'
  <2>1. Cardinality(Users(u) \ {p}) = Cardinality(Users(u)) - 1
    BY <1>n, FS_RemoveElement
  <2> QED BY Parts, <1>n, <1>U, <1>e_refcnt, <2>1 DEF UserCount
<1>ExitList. ExitList'
  <2> SUFFICES ASSUME NEW q \in Tasks
               PROVE  /\ (cmd[q] = "EXIT" \/ pc[q] = "unborn" => undo_list[q] = NoProc)'
                      /\ (cmd[q] = "EXIT" /\ pc[q] # "dead" => undo[q].list \in Tasks /\ Users(undo[q].list) = {})'
    BY DEF ExitList
  <2>1. CASE q = p
    BY <1>e_pc, <1>e_cmd, <1>e_undo_list, <1>e_undo, <2>1
  <2>2. CASE q # p
    <3>1. pc'[q] = pc[q] /\ cmd'[q] = cmd[q] /\ undo_list'[q] = undo_list[q] /\ undo'[q] = undo[q]
        BY Kinds, <1>e_pc, <1>e_cmd, <1>e_undo_list, <1>e_undo, <2>2
    <3>2. /\ cmd[q] = "EXIT" \/ pc[q] = "unborn" => undo_list[q] = NoProc
          /\ cmd[q] = "EXIT" /\ pc[q] # "dead" => undo[q].list \in Tasks /\ Users(undo[q].list) = {}
        BY Parts DEF ExitList
    <3>3. \A v \in Tasks : Users(v) = {} => Users(v)' = {}
        BY <1>n, <1>U
    <3> QED BY <3>1, <3>2, <3>3
  <2> QED BY <2>1, <2>2
<1>FreshList. FreshList'
  <2> SUFFICES ASSUME NEW q \in Tasks, cmd'[q] # "EXIT", undo_list'[q] = NoProc
               PROVE  Users(q)' = {} /\ \A r \in Tasks : cmd'[r] = "EXIT" => undo'[r].list # q
    BY DEF FreshList
  <2>1. q # p /\ undo_list[q] = NoProc /\ cmd[q] # "EXIT"
    BY Kinds, <1>e_cmd, <1>e_undo_list
  <2>2. Users(q) = {} /\ \A r \in Tasks : cmd[r] = "EXIT" => undo[r].list # q
    BY Parts, <2>1 DEF FreshList
  <2>3. q # u
    BY <1>n, <2>2
  <2>4. undo'[p].list # q
    BY <1>e_undo, <2>3
  <2> QED BY Kinds, <1>U, <1>e_cmd, <1>e_undo, <2>2, <2>3, <2>4
<1>OwnList. OwnList'
  BY Parts, Kinds, Calls, <1>u, <1>e_undo_list, <1>e_pc, <1>e_cmd, <1>e_undo, <1>p, <1>g, <1>b,
    <1>a, <1>n DEF OwnList
<1>OneList. OneList'
  BY Parts, Kinds, <1>u, <1>e_pc, <1>e_undo, <1>p, <1>g, <1>b, <1>a, <1>n DEF OneList
<1>Unlinked. Unlinked'
  BY Parts, Undos, <1>u, <1>e_pc, <1>e_cmd, <1>e_undo, <1>p, <1>g, <1>b, <1>a, <1>n DEF Unlinked
<1>OwnUndo. OwnUndo'
  BY Parts, Undos, Sites, <1>u, <1>e_pc, <1>e_cmd, <1>e_undo, <1>p, <1>g, <1>b, <1>a, <1>n DEF
    OwnUndo
<1>UsedSems. UsedSems'
  BY Parts, <1>O, <1>u, <1>e_pc, <1>e_cmd DEF UsedSems
<1> QED BY <1>T, <1>c, <1>f, <1>SetLocks, <1>ListLocks, <1>Unlinking, <1>Removing, <1>HeldSets,
  <1>GoneSets, <1>ReferencesCovered, <1>Loaded, <1>KeptSets, <1>KeptUndo, <1>UserCount,
  <1>ExitList, <1>FreshList, <1>OwnList, <1>OneList, <1>Unlinked, <1>OwnUndo, <1>UsedSems DEF IInv,
  LockInv, SetInv, RefInv, RcuInv, ListInv, LinkInv

(* clone() with CLONE_SYSVSEM: a new list, or none at all.                 *)
LEMMA IInv_copy_fresh ==
    ASSUME IInv, NEW p \in Tasks, NEW c \in Children, copy_semundo(p, c), undo_list[p] = NoProc
    PROVE  IInv'
<1> USE DEF Holding, Waiting, Referring, WakingUp
<1>t. /\ lock \in [Arrays -> Procs \cup {NoProc}] /\ undo_list \in [Tasks -> Tasks \cup {NoProc}]
      /\ ulp \in [Tasks -> {"none", "live", "freed"}] /\ refcnt \in [Tasks -> Int]
      /\ pc \in [Procs -> Labels] /\ cmd \in [Procs -> Cmds \cup {"none", "SEMOP", "EXIT"}]
      /\ sma \in [Procs -> Arrays \cup {NoArr}]
      /\ undo \in [Procs -> [list : Tasks \cup {NoProc}, set : Arrays \cup {NoArr}]]
  BY Parts, UnType DEF TypeInv
<1>c. CallInv'
  <2>1. Next
    BY Kinds DEF Next, Step
  <2> QED BY Parts, <2>1, CallStep
<1>p. p \in Procs /\ c \in Tasks /\ c \in Procs
  BY Kinds, SemConstants
<1>g. pc[p] = "idle" /\ pc[c] = "unborn" /\ p # c
  BY DEF copy_semundo
<1>b. cmd[p] = "none" /\ cmd[c] = "none" /\ undo_list[c] = NoProc
  BY Parts, <1>p, <1>g, Locals DEF ExitList
<1>a. PICK u \in Tasks : u = IF undo_list[p] = NoProc THEN p ELSE undo_list[p]
  BY <1>t
<1>n. u = p /\ Users(u) = {} /\ \A q \in Tasks : cmd[q] = "EXIT" => undo[q].list # u
  BY Parts, <1>a, <1>b DEF FreshList
<1>u. /\ UNCHANGED <<semval, sem_pending, complex_count, mem, refcount, deleted, grace, lock, idr,
                     used_sems, rw_mutex, list_id, list_proc, readers, ulp_lock, un, cmd, sops, semid,
                     sma, undo, status, outcome, state, sig, timedout, tasks, idx, semnum, walk, ref,
                     res>>
  BY <1>t, <1>p, <1>g, <1>b, <1>a, <1>n DEF copy_semundo, Goto, args, arrayv, life, lists, ns,
    queue, scanv, sched
<1>e_pc. /\ pc' \in [Procs -> Labels] /\ pc'[c] = "idle" /\ \A q \in Procs : q # c => pc'[q] = pc[q]
  BY Parts, <1>t, Kinds, <1>p, <1>g, <1>b, <1>a, <1>n DEF copy_semundo, Goto, Labels
<1>e_ulp. ulp' \in [Tasks -> {"none", "live", "freed"}]
  BY <1>t, <1>a DEF copy_semundo
<1>e_undo_list. /\ undo_list' \in [Tasks -> Tasks \cup {NoProc}]
                /\ undo_list'[p] = u /\ undo_list'[c] = u
                /\ \A v \in Tasks : v # p /\ v # c => undo_list'[v] = undo_list[v]
  <2>1. undo_list' = [undo_list EXCEPT ![p] = u, ![c] = u]
    BY <1>a DEF copy_semundo
  <2> QED BY <1>t, <1>p, <1>g, <2>1
<1>e_refcnt. /\ refcnt' \in [Tasks -> Int] /\ refcnt'[u] = 2 /\ \A v \in Tasks : v # u => refcnt'[v] = refcnt[v]
  <2>1. refcnt' = [refcnt EXCEPT ![u] = 2]
    BY <1>a DEF copy_semundo
  <2> QED BY <1>t, <2>1
<1>U. Users(u)' = {p, c} /\ \A v \in Tasks : v # u => Users(v)' = Users(v)
  BY <1>n, Kinds, <1>b, <1>p, <1>e_undo_list DEF Users
<1>T. TypeInv'
  BY Parts, <1>u, <1>e_pc, <1>e_ulp, <1>e_undo_list, <1>e_refcnt, <1>U DEF TypeInv, Uns, UnRecs
<1>f. /\ SetLife' /\ InTable' /\ HasUndos' /\ TableSets' /\ RefNat' /\ OnceLinked' /\ LinkedLive'
      /\ BothLists'
  BY Parts, <1>u, Frames
<1>H. \A b \in Arrays : Holders(b)' = Holders(b)
  BY Kinds, <1>u, <1>e_pc, <1>p, <1>g, <1>b, <1>a, <1>n, HoldersSame
<1>O. \A b \in Arrays : Counted(b)' = Counted(b)
  BY Kinds, Calls, <1>u, <1>e_pc, <1>p, <1>g, <1>b, <1>a, <1>n, CountedSame
<1>SetLocks. SetLocks'
  BY Parts, Kinds, <1>u, <1>e_pc, <1>p, <1>g, <1>b, <1>a, <1>n DEF SetLocks
<1>ListLocks. ListLocks'
  BY Parts, Kinds, <1>u, <1>e_pc, <1>p, <1>g, <1>b, <1>a, <1>n DEF ListLocks
<1>Unlinking. Unlinking'
  BY Parts, <1>u, <1>e_pc, <1>p, <1>g, <1>b, <1>a, <1>n DEF Unlinking
<1>Removing. Removing'
  BY Parts, Calls, Kinds, <1>u, <1>e_pc, <1>p, <1>g, <1>b, <1>a, <1>n DEF Removing
<1>HeldSets. HeldSets'
  BY Parts, Sites, <1>u, <1>e_pc, <1>p, <1>g, <1>b, <1>a, <1>n DEF HeldSets
<1>GoneSets. GoneSets'
  BY Parts, Sites, Calls, <1>u, <1>e_pc, <1>p, <1>g, <1>b, <1>a, <1>n DEF GoneSets
<1>ReferencesCovered. ReferencesCovered'
  BY Parts, <1>H, <1>O, <1>t, <1>u, <1>e_pc, <1>p, <1>g, <1>b, <1>a, <1>n, HoldersFinite DEF
    ReferencesCovered
<1>Loaded. Loaded'
  BY Parts, Sites, <1>H, Calls, <1>t, <1>u, <1>e_pc, <1>p, <1>g, <1>b, <1>a, <1>n, HoldersFinite
    DEF Loaded
<1>KeptSets. KeptSets'
  BY Parts, Sites, <1>u, <1>e_pc, <1>p, <1>g, <1>b, <1>a, <1>n DEF KeptSets, Kept
<1>KeptUndo. KeptUndo'
  BY Parts, Undos, <1>u, <1>e_pc, <1>p, <1>g, <1>b, <1>a, <1>n DEF KeptUndo, Kept
<1>UserCount. UserCount'
  <2>1. Cardinality({p, c}) = 2
    <3>1. Cardinality({p}) = 1 /\ IsFiniteSet({p}) /\ c \notin {p}
        BY <1>g, FS_Singleton
    <3>2. Cardinality({p} \cup {c}) = Cardinality({p}) + 1
        BY <3>1, FS_AddElement
    <3>3. {p} \cup {c} = {p, c}
        OBVIOUS
    <3> QED BY <3>1, <3>2, <3>3
  <2> QED BY Parts, <1>U, <1>e_refcnt, <2>1 DEF UserCount
<1>ExitList. ExitList'
  <2> SUFFICES ASSUME NEW q \in Tasks
               PROVE  /\ (cmd[q] = "EXIT" \/ pc[q] = "unborn" => undo_list[q] = NoProc)'
                      /\ (cmd[q] = "EXIT" /\ pc[q] # "dead" => undo[q].list \in Tasks /\ Users(undo[q].list) = {})'
    BY DEF ExitList
  <2>1. CASE q = p \/ q = c
    BY <1>u, <1>p, <1>g, <1>b, <1>e_pc, <2>1
  <2>2. CASE q # p /\ q # c
    <3>1. pc'[q] = pc[q] /\ cmd'[q] = cmd[q] /\ undo_list'[q] = undo_list[q] /\ undo'[q] = undo[q]
        BY Kinds, <1>u, <1>e_pc, <1>e_undo_list, <2>2
    <3>2. /\ cmd[q] = "EXIT" \/ pc[q] = "unborn" => undo_list[q] = NoProc
          /\ cmd[q] = "EXIT" /\ pc[q] # "dead" => undo[q].list \in Tasks /\ Users(undo[q].list) = {}
        BY Parts DEF ExitList
    <3>3. cmd[q] = "EXIT" /\ pc[q] # "dead" => undo[q].list # u
        BY <1>n, <3>2
    <3> QED BY <1>U, <3>1, <3>2, <3>3
  <2> QED BY <2>1, <2>2
<1>FreshList. FreshList'
  <2> SUFFICES ASSUME NEW q \in Tasks, cmd'[q] # "EXIT", undo_list'[q] = NoProc
               PROVE  Users(q)' = {} /\ \A r \in Tasks : cmd'[r] = "EXIT" => undo'[r].list # q
    BY DEF FreshList
  <2>1. q # p /\ q # c /\ undo_list[q] = NoProc /\ cmd[q] # "EXIT"
    BY Kinds, <1>u, <1>e_undo_list
  <2>2. Users(q) = {} /\ \A r \in Tasks : cmd[r] = "EXIT" => undo[r].list # q
    BY Parts, <2>1 DEF FreshList
  <2>3. q # u
    BY <1>n, <2>1, <2>2
  <2> QED BY <1>u, <1>U, <2>2, <2>3
<1>OwnList. OwnList'
  BY Parts, Kinds, Calls, <1>u, <1>e_undo_list, <1>e_pc, <1>p, <1>g, <1>b, <1>a, <1>n DEF OwnList
<1>OneList. OneList'
  BY Parts, Kinds, <1>u, <1>e_pc, <1>p, <1>g, <1>b, <1>a, <1>n DEF OneList
<1>Unlinked. Unlinked'
  BY Parts, Undos, <1>u, <1>e_pc, <1>p, <1>g, <1>b, <1>a, <1>n DEF Unlinked
<1>OwnUndo. OwnUndo'
  BY Parts, Undos, Sites, <1>u, <1>e_pc, <1>p, <1>g, <1>b, <1>a, <1>n DEF OwnUndo
<1>UsedSems. UsedSems'
  BY Parts, <1>O, <1>u, <1>e_pc DEF UsedSems
<1> QED BY <1>T, <1>c, <1>f, <1>SetLocks, <1>ListLocks, <1>Unlinking, <1>Removing, <1>HeldSets,
  <1>GoneSets, <1>ReferencesCovered, <1>Loaded, <1>KeptSets, <1>KeptUndo, <1>UserCount,
  <1>ExitList, <1>FreshList, <1>OwnList, <1>OneList, <1>Unlinked, <1>OwnUndo, <1>UsedSems DEF IInv,
  LockInv, SetInv, RefInv, RcuInv, ListInv, LinkInv

(* clone() with CLONE_SYSVSEM: the list of the parent is shared.           *)
LEMMA IInv_copy_shared ==
    ASSUME IInv, NEW p \in Tasks, NEW c \in Children, copy_semundo(p, c), undo_list[p] # NoProc
    PROVE  IInv'
<1> USE DEF Holding, Waiting, Referring, WakingUp
<1>t. /\ lock \in [Arrays -> Procs \cup {NoProc}] /\ undo_list \in [Tasks -> Tasks \cup {NoProc}]
      /\ ulp \in [Tasks -> {"none", "live", "freed"}] /\ refcnt \in [Tasks -> Int]
      /\ pc \in [Procs -> Labels] /\ cmd \in [Procs -> Cmds \cup {"none", "SEMOP", "EXIT"}]
      /\ sma \in [Procs -> Arrays \cup {NoArr}]
      /\ undo \in [Procs -> [list : Tasks \cup {NoProc}, set : Arrays \cup {NoArr}]]
  BY Parts, UnType DEF TypeInv
<1>c. CallInv'
  <2>1. Next
    BY Kinds DEF Next, Step
  <2> QED BY Parts, <2>1, CallStep
<1>p. p \in Procs /\ c \in Tasks /\ c \in Procs
  BY Kinds, SemConstants
<1>g. pc[p] = "idle" /\ pc[c] = "unborn" /\ p # c
  BY DEF copy_semundo
<1>b. cmd[p] = "none" /\ cmd[c] = "none" /\ undo_list[c] = NoProc
  BY Parts, <1>p, <1>g, Locals DEF ExitList
<1>a. PICK u \in Tasks : u = IF undo_list[p] = NoProc THEN p ELSE undo_list[p]
  BY <1>t
<1>n. /\ p \in Users(u) /\ c \notin Users(u) /\ IsFiniteSet(Users(u))
  <2>1. Users(u) \subseteq Procs
    BY Kinds DEF Users
  <2> QED BY <1>a, Kinds, <1>b, <2>1, Consts, FS_Subset DEF Users
<1>u. /\ UNCHANGED <<semval, sem_pending, complex_count, mem, refcount, deleted, grace, lock, idr,
                     used_sems, rw_mutex, list_id, list_proc, readers, ulp_lock, un, cmd, sops, semid,
                     sma, undo, status, outcome, state, sig, timedout, tasks, idx, semnum, walk, ref,
                     res>>
  BY <1>t, <1>p, <1>g, <1>b, <1>a, <1>n DEF copy_semundo, Goto, args, arrayv, life, lists, ns,
    queue, scanv, sched
<1>e_pc. /\ pc' \in [Procs -> Labels] /\ pc'[c] = "idle" /\ \A q \in Procs : q # c => pc'[q] = pc[q]
  BY Parts, <1>t, Kinds, <1>p, <1>g, <1>b, <1>a, <1>n DEF copy_semundo, Goto, Labels
<1>e_ulp. ulp' \in [Tasks -> {"none", "live", "freed"}]
  BY <1>t, <1>a DEF copy_semundo
<1>e_undo_list. /\ undo_list' \in [Tasks -> Tasks \cup {NoProc}]
                /\ undo_list'[p] = u /\ undo_list'[c] = u
                /\ \A v \in Tasks : v # p /\ v # c => undo_list'[v] = undo_list[v]
  <2>1. undo_list' = [undo_list EXCEPT ![p] = u, ![c] = u]
    BY <1>a DEF copy_semundo
  <2> QED BY <1>t, <1>p, <1>g, <2>1
<1>e_refcnt. /\ refcnt' \in [Tasks -> Int] /\ refcnt'[u] = refcnt[u] + 1 /\ \A v \in Tasks : v # u => refcnt'[v] = refcnt[v]
  <2>1. refcnt' = [refcnt EXCEPT ![u] = refcnt[u] + 1]
    BY <1>a DEF copy_semundo
  <2> QED BY <1>t, <2>1
<1>U. Users(u)' = Users(u) \cup {c} /\ \A v \in Tasks : v # u => Users(v)' = Users(v)
  <2>1. \A v \in Tasks : v # c => undo_list'[v] = undo_list[v]
    BY <1>a, <1>e_undo_list
  <2> QED BY Kinds, <1>b, <1>p, <1>e_undo_list, <2>1 DEF Users
<1>T. TypeInv'
  BY Parts, <1>u, <1>e_pc, <1>e_ulp, <1>e_undo_list, <1>e_refcnt, <1>U DEF TypeInv, Uns, UnRecs
<1>f. /\ SetLife' /\ InTable' /\ HasUndos' /\ TableSets' /\ RefNat' /\ OnceLinked' /\ LinkedLive'
      /\ BothLists'
  BY Parts, <1>u, Frames
<1>H. \A b \in Arrays : Holders(b)' = Holders(b)
  BY Kinds, <1>u, <1>e_pc, <1>p, <1>g, <1>b, <1>a, <1>n, HoldersSame
<1>O. \A b \in Arrays : Counted(b)' = Counted(b)
  BY Kinds, Calls, <1>u, <1>e_pc, <1>p, <1>g, <1>b, <1>a, <1>n, CountedSame
<1>SetLocks. SetLocks'
  BY Parts, Kinds, <1>u, <1>e_pc, <1>p, <1>g, <1>b, <1>a, <1>n DEF SetLocks
<1>ListLocks. ListLocks'
  BY Parts, Kinds, <1>u, <1>e_pc, <1>p, <1>g, <1>b, <1>a, <1>n DEF ListLocks
<1>Unlinking. Unlinking'
  BY Parts, <1>u, <1>e_pc, <1>p, <1>g, <1>b, <1>a, <1>n DEF Unlinking
<1>Removing. Removing'
  BY Parts, Calls, Kinds, <1>u, <1>e_pc, <1>p, <1>g, <1>b, <1>a, <1>n DEF Removing
<1>HeldSets. HeldSets'
  BY Parts, Sites, <1>u, <1>e_pc, <1>p, <1>g, <1>b, <1>a, <1>n DEF HeldSets
<1>GoneSets. GoneSets'
  BY Parts, Sites, Calls, <1>u, <1>e_pc, <1>p, <1>g, <1>b, <1>a, <1>n DEF GoneSets
<1>ReferencesCovered. ReferencesCovered'
  BY Parts, <1>H, <1>O, <1>t, <1>u, <1>e_pc, <1>p, <1>g, <1>b, <1>a, <1>n, HoldersFinite DEF
    ReferencesCovered
<1>Loaded. Loaded'
  BY Parts, Sites, <1>H, Calls, <1>t, <1>u, <1>e_pc, <1>p, <1>g, <1>b, <1>a, <1>n, HoldersFinite
    DEF Loaded
<1>KeptSets. KeptSets'
  BY Parts, Sites, <1>u, <1>e_pc, <1>p, <1>g, <1>b, <1>a, <1>n DEF KeptSets, Kept
<1>KeptUndo. KeptUndo'
  BY Parts, Undos, <1>u, <1>e_pc, <1>p, <1>g, <1>b, <1>a, <1>n DEF KeptUndo, Kept
<1>UserCount. UserCount'
  <2>1. Cardinality(Users(u) \cup {c}) = Cardinality(Users(u)) + 1
    BY <1>n, FS_AddElement
  <2> QED BY Parts, <1>U, <1>e_refcnt, <2>1 DEF UserCount
<1>ExitList. ExitList'
  <2> SUFFICES ASSUME NEW q \in Tasks
               PROVE  /\ (cmd[q] = "EXIT" \/ pc[q] = "unborn" => undo_list[q] = NoProc)'
                      /\ (cmd[q] = "EXIT" /\ pc[q] # "dead" => undo[q].list \in Tasks /\ Users(undo[q].list) = {})'
    BY DEF ExitList
  <2>1. CASE q = p \/ q = c
    BY <1>u, <1>p, <1>g, <1>b, <1>e_pc, <2>1
  <2>2. CASE q # p /\ q # c
    <3>1. pc'[q] = pc[q] /\ cmd'[q] = cmd[q] /\ undo_list'[q] = undo_list[q] /\ undo'[q] = undo[q]
        BY Kinds, <1>u, <1>e_pc, <1>e_undo_list, <2>2
    <3>2. /\ cmd[q] = "EXIT" \/ pc[q] = "unborn" => undo_list[q] = NoProc
          /\ cmd[q] = "EXIT" /\ pc[q] # "dead" => undo[q].list \in Tasks /\ Users(undo[q].list) = {}
        BY Parts DEF ExitList
    <3>3. cmd[q] = "EXIT" /\ pc[q] # "dead" => undo[q].list # u
        BY <1>n, <3>2
    <3> QED BY <1>U, <3>1, <3>2, <3>3
  <2> QED BY <2>1, <2>2
<1>FreshList. FreshList'
  <2> SUFFICES ASSUME NEW q \in Tasks, cmd'[q] # "EXIT", undo_list'[q] = NoProc
               PROVE  Users(q)' = {} /\ \A r \in Tasks : cmd'[r] = "EXIT" => undo'[r].list # q
    BY DEF FreshList
  <2>1. q # p /\ q # c /\ undo_list[q] = NoProc /\ cmd[q] # "EXIT"
    BY Kinds, <1>u, <1>e_undo_list
  <2>2. Users(q) = {} /\ \A r \in Tasks : cmd[r] = "EXIT" => undo[r].list # q
    BY Parts, <2>1 DEF FreshList
  <2>3. q # u
    BY <1>n, <2>1, <2>2
  <2> QED BY <1>u, <1>U, <2>2, <2>3
<1>OwnList. OwnList'
  BY Parts, Kinds, Calls, <1>u, <1>e_undo_list, <1>e_pc, <1>p, <1>g, <1>b, <1>a, <1>n DEF OwnList
<1>OneList. OneList'
  BY Parts, Kinds, <1>u, <1>e_pc, <1>p, <1>g, <1>b, <1>a, <1>n DEF OneList
<1>Unlinked. Unlinked'
  BY Parts, Undos, <1>u, <1>e_pc, <1>p, <1>g, <1>b, <1>a, <1>n DEF Unlinked
<1>OwnUndo. OwnUndo'
  BY Parts, Undos, Sites, <1>u, <1>e_pc, <1>p, <1>g, <1>b, <1>a, <1>n DEF OwnUndo
<1>UsedSems. UsedSems'
  BY Parts, <1>O, <1>u, <1>e_pc DEF UsedSems
<1> QED BY <1>T, <1>c, <1>f, <1>SetLocks, <1>ListLocks, <1>Unlinking, <1>Removing, <1>HeldSets,
  <1>GoneSets, <1>ReferencesCovered, <1>Loaded, <1>KeptSets, <1>KeptUndo, <1>UserCount,
  <1>ExitList, <1>FreshList, <1>OwnList, <1>OneList, <1>Unlinked, <1>OwnUndo, <1>UsedSems DEF IInv,
  LockInv, SetInv, RefInv, RcuInv, ListInv, LinkInv

(* free_un(), the RCU callback of an undo structure.                       *)
LEMMA IInv_free_un ==
    ASSUME IInv, NEW u \in Tasks, NEW a \in Arrays, free_un(u, a)
    PROVE  IInv'
<1> USE DEF Holding, Waiting, Referring, WakingUp
<1>t. /\ lock \in [Arrays -> Procs \cup {NoProc}] /\ un \in Uns /\ pc \in [Procs -> Labels]
      /\ cmd \in [Procs -> Cmds \cup {"none", "SEMOP", "EXIT"}]
      /\ sma \in [Procs -> Arrays \cup {NoArr}]
      /\ undo \in [Procs -> [list : Tasks \cup {NoProc}, set : Arrays \cup {NoArr}]]
  BY Parts, UnType DEF TypeInv
<1>c. CallInv'
  <2>1. Next
    BY Kinds DEF Next, Step
  <2> QED BY Parts, <2>1, CallStep
<1>u. /\ UNCHANGED <<semval, sem_pending, complex_count, mem, refcount, deleted, grace, lock, idr,
                     used_sems, rw_mutex, list_id, list_proc, readers, undo_list, ulp, refcnt,
                     ulp_lock, pc, cmd, sops, semid, sma, undo, status, outcome, state, sig, timedout,
                     tasks, idx, semnum, walk, ref, res>>
  BY <1>t DEF free_un, args, arrayv, life, lists, ns, queue, scanv, sched, ulpv
<1>e_un. /\ un' \in Uns /\ un'[u][a].mem = "freed" /\ un[u][a].mem = "rcu" /\ un[u][a].grace = {}
         /\ \A v \in Tasks, b \in Arrays : un'[v][b].valid = un[v][b].valid /\ (v # u \/ b # a => un'[v][b] = un[v][b])
  <2>1. /\ un' \in Uns /\ un'[u][a].mem = "freed" /\ un'[u][a].valid = un[u][a].valid
        /\ un[u][a].mem = "rcu" /\ un[u][a].grace = {}
        /\ \A v \in Tasks, b \in Arrays : v # u \/ b # a => un'[v][b] = un[v][b]
    BY Parts, FreeEffect
  <2> QED BY <2>1
<1>T. TypeInv'
  BY Parts, <1>u, <1>e_un DEF TypeInv, Uns, UnRecs
<1>f. /\ SetLocks' /\ ListLocks' /\ Unlinking' /\ Removing' /\ SetLife' /\ InTable' /\ HasUndos'
      /\ TableSets' /\ HeldSets' /\ GoneSets' /\ ReferencesCovered' /\ RefNat' /\ Loaded'
      /\ KeptSets' /\ UserCount' /\ ExitList' /\ FreshList' /\ OwnList' /\ OnceLinked' /\ OneList'
      /\ UsedSems'
  BY Parts, <1>u, Frames
<1>KeptUndo. KeptUndo'
  BY Parts, Undos, <1>u, <1>e_un DEF KeptUndo, Kept
<1>LinkedLive. LinkedLive'
  BY Parts, <1>u, <1>e_un DEF LinkedLive
<1>BothLists. BothLists'
  BY Parts, <1>u, <1>e_un DEF BothLists
<1>Unlinked. Unlinked'
  BY Parts, Undos, <1>u, <1>e_un DEF Unlinked
<1>OwnUndo. OwnUndo'
  BY Parts, Undos, Sites, <1>u, <1>e_un DEF OwnUndo
<1> QED BY <1>T, <1>c, <1>f, <1>KeptUndo, <1>LinkedLive, <1>BothLists, <1>Unlinked, <1>OwnUndo DEF
  IInv, LockInv, SetInv, RefInv, RcuInv, ListInv, LinkInv

(* ipc_immediate_free(), the RCU callback of a set.                        *)
LEMMA IInv_ipc_immediate_free ==
    ASSUME IInv, NEW a \in Arrays, ipc_immediate_free(a)
    PROVE  IInv'
<1> USE DEF Holding, Waiting, Referring, WakingUp
<1>t. /\ mem \in [Arrays -> Mems] /\ grace \in [Arrays -> SUBSET Procs]
      /\ lock \in [Arrays -> Procs \cup {NoProc}] /\ idr \in [Slots -> Arrays \cup {NoArr}]
      /\ pc \in [Procs -> Labels] /\ cmd \in [Procs -> Cmds \cup {"none", "SEMOP", "EXIT"}]
      /\ sma \in [Procs -> Arrays \cup {NoArr}]
      /\ undo \in [Procs -> [list : Tasks \cup {NoProc}, set : Arrays \cup {NoArr}]]
  BY Parts, UnType DEF TypeInv
<1>c. CallInv'
  <2>1. Next
    BY Kinds DEF Next, Step
  <2> QED BY Parts, <2>1, CallStep
<1>g. mem[a] = "rcu" /\ grace[a] = {}
  BY DEF ipc_immediate_free
<1>u. /\ UNCHANGED <<semval, sem_pending, complex_count, refcount, deleted, grace, lock, idr,
                     used_sems, rw_mutex, list_id, list_proc, readers, undo_list, ulp, refcnt,
                     ulp_lock, un, pc, cmd, sops, semid, sma, undo, status, outcome, state, sig,
                     timedout, tasks, idx, semnum, walk, ref, res>>
  BY <1>t, <1>g DEF ipc_immediate_free, args, arrayv, lists, ns, queue, scanv, sched, ulpv
<1>e_mem. /\ mem' \in [Arrays -> Mems] /\ mem'[a] = "freed" /\ \A b \in Arrays : b # a => mem'[b] = mem[b]
  BY Parts, <1>t, Kinds, <1>g DEF ipc_immediate_free, Mems
<1>T. TypeInv'
  BY Parts, <1>u, <1>e_mem DEF TypeInv, Uns, UnRecs
<1>f. /\ SetLocks' /\ ListLocks' /\ Unlinking' /\ Removing' /\ HeldSets' /\ RefNat' /\ Loaded'
      /\ KeptUndo' /\ UserCount' /\ ExitList' /\ FreshList' /\ OwnList' /\ OnceLinked'
      /\ LinkedLive' /\ BothLists' /\ OneList' /\ Unlinked' /\ OwnUndo'
  BY Parts, <1>u, Frames
<1>H. \A b \in Arrays : Holders(b)' = Holders(b)
  BY Kinds, <1>u, <1>g, HoldersSame
<1>O. \A b \in Arrays : Counted(b)' = Counted(b)
  BY <1>g, <1>u, <1>e_mem DEF Counted
<1>SetLife. SetLife'
  BY Parts, <1>u, <1>e_mem, <1>g DEF SetLife
<1>InTable. InTable'
  BY Parts, <1>u, <1>e_mem, <1>g DEF InTable
<1>HasUndos. HasUndos'
  BY Parts, <1>u, <1>e_mem, <1>g DEF HasUndos
<1>TableSets. TableSets'
  BY Parts, <1>t, <1>u, <1>e_mem, <1>g DEF TableSets
<1>GoneSets. GoneSets'
  BY Parts, Sites, Calls, <1>u, <1>e_mem, <1>g DEF GoneSets
<1>ReferencesCovered. ReferencesCovered'
  BY Parts, <1>H, <1>O, <1>t, <1>u, <1>e_mem, <1>g, HoldersFinite DEF ReferencesCovered
<1>KeptSets. KeptSets'
  BY Parts, Sites, <1>u, <1>e_mem, <1>g DEF KeptSets, Kept
<1>UsedSems. UsedSems'
  BY Parts, <1>O, <1>u, <1>e_mem DEF UsedSems
<1> QED BY <1>T, <1>c, <1>f, <1>SetLife, <1>InTable, <1>HasUndos, <1>TableSets, <1>GoneSets,
  <1>ReferencesCovered, <1>KeptSets, <1>UsedSems DEF IInv, LockInv, SetInv, RefInv, RcuInv,
  ListInv, LinkInv

-----------------------------------------------------------------------------
(* Part one.                                                               *)

(* Every step of a task inside a system call preserves the invariant.      *)
LEMMA TaskStep ==
    ASSUME IInv, NEW p \in Procs, Step(p)
    PROVE  IInv'
<1>1. CASE ipc_find(p)
  BY <1>1, IInv_ipc_find
<1>2. CASE lookup_fails(p)
  BY <1>2, IInv_lookup_exit, IInv_lookup_return
<1>3. CASE syscall_exit(p)
  BY <1>3, IInv_syscall_exit
<1>4. CASE find_undo(p)
  BY <1>4, IInv_find_undo_hit, IInv_find_undo_miss
<1>5. CASE undo_getref(p)
  BY <1>5, IInv_undo_getref
<1>6. CASE undo_enomem(p)
  BY <1>6, IInv_undo_enomem
<1>7. CASE undo_link(p)
  BY <1>7, IInv_undo_link_gone, IInv_undo_link_new, IInv_undo_link_old
<1>8. CASE semop_return(p)
  BY <1>8, IInv_semop_return
<1>9. CASE semop_alter(p)
  BY <1>9, IInv_semop_alter
<1>10. CASE semop_sleep(p)
  BY <1>10, IInv_semop_sleep
<1>11. CASE semop_wake(p)
  BY <1>11, IInv_semop_wake
<1>12. CASE semop_result(p)
  BY <1>12, IInv_semop_result_done, IInv_semop_result_look
<1>13. CASE semop_relock(p)
  BY <1>13, IInv_semop_relock
<1>14. CASE semop_recheck(p)
  BY <1>14, IInv_semop_recheck_done, IInv_semop_recheck_unlink
<1>15. CASE do_smart_update(p)
  BY <1>15, IInv_smart_scan, IInv_smart_end
<1>16. CASE update_end(p)
  BY <1>16, IInv_update_end
<1>17. CASE update_skip(p)
  BY <1>17, IInv_update_skip
<1>18. CASE update_complete(p)
  BY <1>18, IInv_update_complete
<1>19. CASE wake_next(p)
  BY <1>19, IInv_wake_next
<1>20. CASE wake_set(p)
  BY <1>20, IInv_wake_set
<1>21. CASE wake_done(p)
  BY <1>21, IInv_wake_done_ret, IInv_wake_done_exit, IInv_wake_done_rmid DEF wake_done
<1>22. CASE ctl_fail(p)
  BY <1>22, IInv_ctl_fail
<1>23. CASE setval(p)
  BY <1>23, IInv_setval
<1>24. CASE all_getref(p)
  BY <1>24, IInv_all_getref
<1>25. CASE all_fail(p)
  BY <1>25, IInv_all_fail
<1>26. CASE getall(p)
  BY <1>26, IInv_getall
<1>27. CASE setall(p)
  BY <1>27, IInv_setall_gone, IInv_setall
<1>28. CASE freeary(p)
  BY <1>28, IInv_freeary
<1>29. CASE freeary_invalidate(p)
  BY <1>29, IInv_freeary_invalidate
<1>30. CASE freeary_unlink(p)
  BY <1>30, IInv_freeary_unlink
<1>31. CASE freeary_rmid(p)
  BY <1>31, IInv_freeary_rmid
<1>32. CASE freeary_putref(p)
  BY <1>32, IInv_freeary_putref
<1>33. CASE exit_read(p)
  BY <1>33, IInv_exit_read
<1>34. CASE exit_done(p)
  BY <1>34, IInv_exit_done
<1>35. CASE exit_reread(p)
  BY <1>35, IInv_exit_reread
<1>36. CASE exit_raced(p)
  BY <1>36, IInv_exit_raced
<1>37. CASE exit_adjust(p)
  BY <1>37, IInv_exit_adjust
<1> QED BY <1>1, <1>2, <1>3, <1>4, <1>5, <1>6, <1>7, <1>8, <1>9, <1>10, <1>11, <1>12, <1>13, <1>14
     , <1>15, <1>16, <1>17, <1>18, <1>19, <1>20, <1>21, <1>22, <1>23, <1>24, <1>25, <1>26, <1>27
     , <1>28, <1>29, <1>30, <1>31, <1>32, <1>33, <1>34, <1>35, <1>36, <1>37 DEF Step

(* The invariant is inductive.                                             *)
LEMMA StepInv == IInv /\ [Next]_vars => IInv'
<1> SUFFICES ASSUME IInv, [Next]_vars PROVE IInv'
  OBVIOUS
<1>1. CASE \E p \in Procs : Step(p)
  BY <1>1, TaskStep
<1>2. ASSUME NEW p \in Ctls, newary(p) \/ semctl(p) PROVE IInv'
  BY <1>2, IInv_newary, IInv_semctl
<1>3. ASSUME NEW p \in Tasks, semop(p) \/ Signal(p) PROVE IInv'
  BY <1>3, IInv_semop, IInv_Signal
<1>4. ASSUME NEW p \in Tasks, exit_sem(p) PROVE IInv'
  BY <1>4, IInv_exit_sem_none, IInv_exit_sem_last, IInv_exit_sem_shared
<1>5. ASSUME NEW p \in Tasks, NEW c \in Children, copy_semundo(p, c) PROVE IInv'
  BY <1>5, IInv_copy_fresh, IInv_copy_shared
<1>6. ASSUME NEW u \in Tasks, NEW a \in Arrays, free_un(u, a) PROVE IInv'
  BY <1>6, IInv_free_un
<1>7. ASSUME NEW a \in Arrays, ipc_immediate_free(a) PROVE IInv'
  BY <1>7, IInv_ipc_immediate_free
<1>8. CASE UNCHANGED vars
  <2>1. /\ UNCHANGED <<semval, sem_pending, complex_count, mem, refcount, deleted, grace, lock, idr,
                       used_sems, rw_mutex, list_id, list_proc, readers, undo_list, ulp, refcnt,
                       ulp_lock, un, pc, cmd, sops, semid, sma, undo, status, outcome, state, sig,
                       timedout, tasks, idx, semnum, walk, ref, res>>
    BY <1>8 DEF vars, arrayv, life, ns, lists, ulpv, args, queue, sched, scanv
  <2>2. TypeInv' /\ CallInv'
    <3>1. TypeInv /\ CallInv
        BY Parts
    <3>2. TypeInv'
        BY <2>1, <3>1 DEF TypeInv
    <3> QED BY <2>1, <3>1, <3>2 DEF CallInv, CallAt, StepsOf
  <2>3. /\ SetLocks /\ ListLocks /\ Unlinking /\ Removing /\ SetLife /\ InTable /\ HasUndos
        /\ TableSets /\ HeldSets /\ GoneSets /\ ReferencesCovered /\ RefNat /\ Loaded /\ KeptSets
        /\ KeptUndo /\ UserCount /\ ExitList /\ FreshList /\ OwnList /\ OnceLinked /\ LinkedLive
        /\ BothLists /\ OneList /\ Unlinked /\ OwnUndo /\ UsedSems
    BY Parts
  <2>4. /\ SetLocks' /\ ListLocks' /\ Unlinking' /\ Removing' /\ SetLife' /\ InTable' /\ HasUndos'
        /\ TableSets' /\ HeldSets' /\ GoneSets' /\ ReferencesCovered' /\ RefNat' /\ Loaded'
        /\ KeptSets' /\ KeptUndo' /\ UserCount' /\ ExitList' /\ FreshList' /\ OwnList'
        /\ OnceLinked' /\ LinkedLive' /\ BothLists' /\ OneList' /\ Unlinked' /\ OwnUndo'
        /\ UsedSems'
    BY <2>1, <2>3, Frames
  <2> QED BY <2>2, <2>4 DEF IInv, LockInv, SetInv, RefInv, RcuInv, ListInv, LinkInv
<1> QED BY <1>1, <1>2, <1>3, <1>4, <1>5, <1>6, <1>7, <1>8 DEF Next

(* Nobody has called anything at first.                                    *)
LEMMA InitInv == Init => IInv
<1> SUFFICES ASSUME Init PROVE IInv
  OBVIOUS
<1> USE DEF Holding, Waiting, Referring, WakingUp
<1>k. /\ Tasks \subseteq Procs /\ Ctls \subseteq Procs /\ NoArr \notin Arrays /\ NoProc \notin Procs
      /\ NoProc \notin Tasks
  BY Consts
<1>p. \A q \in Procs :
        /\ pc[q] \in {"unborn", "idle"} /\ cmd[q] = "none" /\ sops[q] = <<>> /\ sma[q] = NoArr
        /\ undo[q] = NoUndo /\ tasks[q] = <<>>
  BY DEF Init
<1>a. \A a \in Arrays :
        /\ mem[a] = "none" /\ refcount[a] = 0 /\ ~deleted[a] /\ lock[a] = NoProc /\ list_id[a] = {}
  BY DEF Init
<1>u. \A u \in Tasks :
        undo_list[u] = NoProc /\ refcnt[u] = 0 /\ ulp_lock[u] = NoProc /\ list_proc[u] = <<>>
  BY DEF Init
<1>e. \A u \in Tasks : ToSet(list_proc[u]) = {} /\ IsInjective(list_proc[u])
  BY <1>u DEF ToSet, IsInjective
<1>n. undo \in [Procs -> [list : Tasks \cup {NoProc}, set : Arrays \cup {NoArr}]]
  BY DEF Init, NoUndo
<1>T. TypeInv
  <2>1. semid \in [Procs -> Ids]
    <3>1. Ids # {}
        BY SemConstants DEF Ids
    <3>2. (CHOOSE id \in Ids : TRUE) \in Ids
        BY <3>1
    <3> QED BY <3>2 DEF Init
  <2>2. NoAdj \in Adjs /\ [n \in Sems |-> 0] \in Values
    BY SemAssumption DEF NoAdj, Adjs, Values, SEMAEM
  <2>3. un \in Uns
    <3>1. [mem |-> "none", valid |-> FALSE, semadj |-> NoAdj, grace |-> {}] \in UnRecs
        BY <2>2 DEF UnRecs, Mems
    <3> QED BY <3>1 DEF Init, Uns
  <2>4. /\ mem \in [Arrays -> Mems] /\ refcount \in [Arrays -> Int]
        /\ deleted \in [Arrays -> BOOLEAN] /\ lock \in [Arrays -> Procs \cup {NoProc}]
        /\ semval \in [Arrays -> Values] /\ sem_pending \in [Arrays -> Seq(Tasks)]
        /\ complex_count \in [Arrays -> Int] /\ list_id \in [Arrays -> SUBSET Tasks]
        /\ idr \in [Slots -> Arrays \cup {NoArr}] /\ used_sems \in Int
        /\ rw_mutex \in Ctls \cup {NoProc}
        /\ readers \subseteq Procs /\ grace \in [Arrays -> SUBSET Procs]
    BY <2>2 DEF Init, Mems
  <2>5. /\ undo_list \in [Tasks -> Tasks \cup {NoProc}]
        /\ ulp \in [Tasks -> {"none", "live", "freed"}] /\ refcnt \in [Tasks -> Int]
        /\ ulp_lock \in [Tasks -> Ctls \cup {NoProc}] /\ list_proc \in [Tasks -> Seq(Arrays)]
    BY DEF Init
  <2>6. /\ pc \in [Procs -> Labels] /\ sops \in [Procs -> SopSeqs \cup {<<>>}]
        /\ cmd \in [Procs -> Cmds \cup {"none", "SEMOP", "EXIT"}]
        /\ sma \in [Procs -> Arrays \cup {NoArr}]
        /\ status \in [Procs -> Errors \cup {"IN_WAKEUP"}] /\ outcome \in [Procs -> Errors]
        /\ state \in [Procs -> {"RUN", "INT"}] /\ sig \subseteq Tasks /\ timedout \subseteq Tasks
        /\ tasks \in [Procs -> Seq(Tasks)] /\ idx \in [Procs -> Nat]
        /\ semnum \in [Procs -> Sems \cup {-1}] /\ walk \in [Procs -> Nat]
        /\ ref \in [Procs -> Int]
    BY DEF Init, Labels, Errors
  <2> QED BY <1>n, <2>1, <2>3, <2>4, <2>5, <2>6 DEF TypeInv, Uns, UnRecs
<1>C. CallInv
  <2>1. \A q \in Procs : cmd[q] \notin Cmds
    BY <1>p, Consts
  <2> QED BY <1>p, <2>1 DEF CallInv, CallAt, StepsOf
<1>L. LockInv
  BY <1>k, <1>p, <1>a, <1>u DEF LockInv, SetLocks, ListLocks, Unlinking, Removing
<1>S. SetInv
  <2>1. \A s \in Slots : idr[s] = NoArr
    BY DEF Init
  <2> QED BY <1>p, <1>a, <2>1 DEF SetInv, SetLife, InTable, HasUndos, TableSets, HeldSets, GoneSets
<1>h. \A a \in Arrays : Holders(a) = {} /\ ~Counted(a)
  BY <1>p, <1>a DEF Holders, Counted
<1>R. RefInv
  BY <1>p, <1>a, <1>h DEF RefInv, ReferencesCovered, RefNat, Loaded
<1>K. RcuInv
  BY <1>p DEF RcuInv, KeptSets, KeptUndo, NoUndo
<1>I. ListInv
  <2>1. \A u \in Tasks : Users(u) = {}
    BY <1>k, <1>u DEF Users
  <2>2. Cardinality({}) = 0
    BY FS_EmptySet
  <2>3. UserCount
    BY <1>u, <2>1, <2>2 DEF UserCount
  <2>4. ExitList /\ OwnList
    BY <1>k, <1>p, <1>u DEF ExitList, OwnList, NoUndo
  <2>5. FreshList
    BY <1>k, <1>p, <2>1 DEF FreshList
  <2> QED BY <2>3, <2>4, <2>5 DEF ListInv
<1>N. LinkInv
  BY <1>k, <1>p, <1>a, <1>e DEF LinkInv, OnceLinked, LinkedLive, BothLists, OneList, Unlinked,
    OwnUndo
<1>U. UsedSems
  <2>1. {a \in Arrays : Counted(a)} = {}
    BY <1>h
  <2>2. Cardinality({}) = 0 /\ Cardinality(Sems) \in Nat /\ sc_semmns \in Nat
    BY SemConstants, FS_EmptySet, FS_CardinalityType
  <2>3. used_sems = 0
    BY DEF Init
  <2>4. Cardinality({a \in Arrays : Counted(a)}) = 0
    BY <2>1, <2>2
  <2>5. Cardinality(Sems) * 0 = 0 /\ 0 <= sc_semmns
    BY <2>2
  <2> QED BY <2>3, <2>4, <2>5 DEF UsedSems
<1> QED BY <1>T, <1>C, <1>L, <1>S, <1>R, <1>K, <1>I, <1>N, <1>U DEF IInv

(* Part one of the inductive invariant of ipc/sem.c: locks, the life of    *)
(* sets and undo structures, their references, RCU, the two lists of an    *)
(* undo structure. It needs nothing of the pending operations and holds    *)
(* for every choice of the constants.                                      *)
THEOREM SemInductive == Spec => []IInv
    BY InitInv, StepInv, PTL DEF Spec

(* ns->used_sems is what the sets in the namespace, and those freeary()    *)
(* has not yet accounted for, amount to; newary() never lets it pass       *)
(* sc_semmns.                                                              *)
THEOREM SemsCounted == Spec => []UsedSems
<1>1. IInv => UsedSems
  BY Parts
<1> QED BY <1>1, SemInductive, PTL

(* No set is used after it is freed: neither by who waits for its lock,    *)
(* nor by who left the lock with a reference only (find_alloc_undo(),      *)
(* GETALL, SETALL, freeary()); nor is the undo structure semtimedop()      *)
(* found freed before it has the lock.  The read of un->semid in           *)
(* exit_sem() at sem.c:1600 is outside: it can meet a freed structure.     *)
THEOREM SemMemorySafe == Spec => []NoUseAfterFree
<1>1. ASSUME IInv PROVE NoUseAfterFree
  <2>1. TypeInv /\ CallInv /\ ReferencesCovered /\ KeptSets /\ KeptUndo
    BY <1>1, Parts
  <2>2. ASSUME NEW p \in Procs PROVE pc[p] \in Waiting \cup Holding => mem[sma[p]] # "freed"
    BY <2>1 DEF KeptSets, Kept
  <2>3. ASSUME NEW p \in Procs PROVE pc[p] \in Referring => mem[sma[p]] # "freed"
    <3>1. pc[p] \in Referring => sma[p] \in Arrays
        BY <2>1, Locals
    <3>2. pc[p] \in Referring => p \in Holders(sma[p])
        BY DEF Holders
    <3> QED BY <2>1, <3>1, <3>2 DEF ReferencesCovered
  <2>4. ASSUME NEW p \in Procs
        PROVE  pc[p] \in {"find", "lock"} /\ undo[p].set # NoArr => un[undo[p].list][undo[p].set].mem # "freed"
    BY <2>1 DEF KeptUndo, Kept
  <2> QED BY <2>1, <2>2, <2>3, <2>4 DEF NoUseAfterFree, Waiting, Holding, Referring
<1> QED BY <1>1, SemInductive, PTL

-----------------------------------------------------------------------------
(* Part two: what most steps leave alone.                                  *)

(* The parts of part two.                                                  *)
LEMMA QParts ==
    ASSUME QInv
    PROVE  /\ OncePending /\ ComplexCount /\ PendingSleeps /\ SleepsPending /\ SetsStay /\ NobodyEarly
           /\ OneSet /\ PendingHere /\ PendingUndo /\ WakeupHitsLiveQueue /\ OnceWoken /\ OneWaker
           /\ ResultsKept /\ LoadedNat
    BY DEF QInv, QueueAgrees

(* Pending operations and woken tasks are tasks.                           *)
LEMMA PendingTasks ==
    ASSUME TypeInv
    PROVE  /\ \A a \in Arrays : Pending(a) \subseteq Tasks
           /\ \A p \in Procs : ToSet(tasks[p]) \subseteq Tasks
<1>1. sem_pending \in [Arrays -> Seq(Tasks)] /\ tasks \in [Procs -> Seq(Tasks)]
  BY DEF TypeInv
<1>2. \A s \in Seq(Tasks) : ToSet(s) \subseteq Tasks
  BY DEF ToSet
<1> QED BY <1>1, <1>2 DEF Pending

(* A step of a task that nobody can wake up, and that leaves the pending   *)
(* operations and the tasks to wake up alone.                              *)
LEMMA QApart ==
    ASSUME TypeInv, QInv, NEW p,
           p \in Procs => pc'[p] \notin QueuePcs /\ ref'[p] >= 0,
           \A a \in Arrays : p \notin Pending(a), \A r \in Procs : p \notin ToSet(tasks[r]),
           sem_pending' = sem_pending, complex_count' = complex_count, tasks' = tasks,
           state' = state, deleted' = deleted, sig' \subseteq sig, DOMAIN res' = DOMAIN res,
           \A q \in Procs : q # p =>
              /\ pc'[q] = pc[q] /\ sops'[q] = sops[q] /\ semid'[q] = semid[q] /\ sma'[q] = sma[q]
              /\ undo'[q] = undo[q] /\ status'[q] = status[q] /\ outcome'[q] = outcome[q]
              /\ ref'[q] = ref[q],
           \A a \in Arrays : mem[a] = "live" /\ ~deleted[a] => mem'[a] = "live",
           \A s \in Slots : idr[s] # NoArr => idr'[s] # NoArr,
           \A a \in Arrays, q \in Tasks :
              q \in Pending(a) /\ undo[q].set # NoArr /\ undo[q].list \in list_id[a] =>
                undo[q].list \in list_id'[a] \/ Freeing(a)',
           \A a \in Arrays : Freeing(a) => Freeing(a)'
    PROVE  QInv'
<1>i. /\ OncePending /\ ComplexCount /\ PendingSleeps /\ SleepsPending /\ SetsStay /\ NobodyEarly
      /\ OneSet /\ PendingHere /\ PendingUndo /\ WakeupHitsLiveQueue /\ OnceWoken /\ OneWaker
      /\ ResultsKept /\ LoadedNat
  BY QParts
<1>k. Tasks \subseteq Procs
  BY Consts
<1>1. \A a \in Arrays : Pending(a)' = Pending(a) /\ Pending(a) \subseteq Tasks
  BY PendingTasks DEF Pending
<1>2. \A a \in Arrays : \A q \in Pending(a) : q # p /\ q \in Procs
  BY <1>k, <1>1
<1>3. \A r \in Procs : \A q \in ToSet(tasks[r]) : q # p /\ q \in Procs
  BY <1>k, PendingTasks
<1>4. \A q \in Procs : pc'[q] \in QueuePcs => q # p
  OBVIOUS
<1>5. \A q \in Procs : semid[q][1] \in Slots
  BY SlotOf
<1>OncePending. OncePending'
  BY <1>i DEF OncePending
<1>ComplexCount. ComplexCount'
  <2> SUFFICES ASSUME NEW a \in Arrays
               PROVE  complex_count'[a] = Cardinality({q \in Pending(a)' : Len(sops'[q]) > 1})
    BY DEF ComplexCount
  <2>1. {q \in Pending(a)' : Len(sops'[q]) > 1} = {q \in Pending(a) : Len(sops[q]) > 1}
    BY <1>1, <1>2
  <2> QED BY <1>i, <2>1 DEF ComplexCount
<1>PendingSleeps. PendingSleeps'
  BY <1>i, <1>1, <1>2 DEF PendingSleeps
<1>SleepsPending. SleepsPending'
  <2> SUFFICES ASSUME NEW q \in Tasks, pc'[q] \in QueuePcs, status'[q] = "EINTR"
               PROVE  (\E a \in Arrays : q \in Pending(a)') /\ (pc'[q] = "recheck" => q \in Pending(sma[q])')
    BY DEF SleepsPending
  <2>1. q \in Procs /\ q # p
    BY <1>k, <1>4
  <2>2. pc'[q] = pc[q] /\ status'[q] = status[q] /\ sma'[q] = sma[q]
    BY <2>1
  <2>3. (\E a \in Arrays : q \in Pending(a)) /\ (pc[q] = "recheck" => q \in Pending(sma[q]))
    BY <1>i, <2>2 DEF SleepsPending
  <2>4. Pending(sma[q])' = Pending(sma[q])
    BY <2>2 DEF Pending
  <2> QED BY <1>1, <2>2, <2>3, <2>4
<1>SetsStay. SetsStay'
  BY <1>i, <1>4, <1>5 DEF SetsStay
<1>NobodyEarly. NobodyEarly'
  <2> SUFFICES ASSUME Signalled \cup Timed = {}, NEW q \in Procs
               PROVE  /\ sig' = {} /\ pc'[q] \notin {"rfind", "relock", "recheck"}
                      /\ pc'[q] = "result" \/ (pc'[q] = "sleep" /\ state'[q] = "RUN") => status'[q] # "EINTR"
    <3>1. Signalled \cup Timed = {} => sig' = {}
        BY <1>i DEF NobodyEarly
    <3> QED BY <3>1 DEF NobodyEarly
  <2>1. CASE q = p
    BY <1>i, <2>1 DEF NobodyEarly, QueuePcs
  <2>2. CASE q # p
    BY <1>i, <2>2 DEF NobodyEarly
  <2> QED BY <2>1, <2>2
<1>OneSet. OneSet'
  BY <1>i, <1>1 DEF OneSet
<1>PendingHere. PendingHere'
  BY <1>i, <1>1, <1>2 DEF PendingHere
<1>PendingUndo. PendingUndo'
  BY <1>i, <1>1, <1>2 DEF PendingUndo
<1>Wakeup. WakeupHitsLiveQueue'
  BY <1>i, <1>3 DEF WakeupHitsLiveQueue
<1>OnceWoken. OnceWoken' /\ OneWaker'
  BY <1>i DEF OnceWoken, OneWaker
<1>ResultsKept. ResultsKept'
  BY <1>i, <1>4 DEF ResultsKept
<1>LoadedNat. LoadedNat'
  BY <1>i DEF LoadedNat
<1> QED BY <1>OncePending, <1>ComplexCount, <1>PendingSleeps, <1>SleepsPending, <1>SetsStay,
  <1>NobodyEarly, <1>OneSet, <1>PendingHere, <1>PendingUndo, <1>Wakeup, <1>OnceWoken,
  <1>ResultsKept, <1>LoadedNat DEF QInv, QueueAgrees

(* The same of a task that is not in the sleeping part of semtimedop().    *)
LEMMA QFrame ==
    ASSUME TypeInv, QInv, NEW p,
           p \in Procs => pc[p] \notin QueuePcs /\ pc'[p] \notin QueuePcs /\ ref'[p] >= 0,
           sem_pending' = sem_pending, complex_count' = complex_count, tasks' = tasks,
           state' = state, deleted' = deleted, sig' \subseteq sig, DOMAIN res' = DOMAIN res,
           \A q \in Procs : q # p =>
              /\ pc'[q] = pc[q] /\ sops'[q] = sops[q] /\ semid'[q] = semid[q] /\ sma'[q] = sma[q]
              /\ undo'[q] = undo[q] /\ status'[q] = status[q] /\ outcome'[q] = outcome[q]
              /\ ref'[q] = ref[q],
           \A a \in Arrays : mem[a] = "live" /\ ~deleted[a] => mem'[a] = "live",
           \A s \in Slots : idr[s] # NoArr => idr'[s] # NoArr,
           \A a \in Arrays, q \in Tasks :
              q \in Pending(a) /\ undo[q].set # NoArr /\ undo[q].list \in list_id[a] =>
                undo[q].list \in list_id'[a] \/ Freeing(a)',
           \A a \in Arrays : Freeing(a) => Freeing(a)'
    PROVE  QInv'
<1>1. PendingSleeps /\ WakeupHitsLiveQueue
  BY QParts
<1>2. /\ \A a \in Arrays : p \notin Pending(a)
      /\ \A r \in Procs : p \notin ToSet(tasks[r])
  <2>1. Tasks \subseteq Procs
    BY Consts
  <2> QED BY <1>1, <2>1, PendingTasks DEF PendingSleeps, WakeupHitsLiveQueue
<1> QED BY <1>2, QApart

(* A step of a task inside the sleeping part, or of one that wakes up      *)
(* others.                                                                 *)
LEMMA QMove ==
    ASSUME TypeInv, QInv, NobodyEarly',
           sem_pending' = sem_pending, complex_count' = complex_count, tasks' = tasks,
           deleted' = deleted, mem' = mem, idr' = idr, list_id' = list_id, sops' = sops,
           semid' = semid, undo' = undo, status' = status, outcome' = outcome, ref' = ref, res' = res,
           \A q \in Procs :
              /\ pc'[q] \in QueuePcs <=> pc[q] \in QueuePcs
              /\ pc'[q] \in {"fundo", "funlink"} <=> pc[q] \in {"fundo", "funlink"}
              /\ pc[q] \in {"fundo", "funlink"} => sma'[q] = sma[q]
              /\ pc'[q] \in {"relock", "recheck"} => \A a \in Arrays : q \in Pending(a) => sma'[q] = a
    PROVE  QInv'
<1>i. /\ OncePending /\ ComplexCount /\ PendingSleeps /\ SleepsPending /\ SetsStay /\ NobodyEarly
      /\ OneSet /\ PendingHere /\ PendingUndo /\ WakeupHitsLiveQueue /\ OnceWoken /\ OneWaker
      /\ ResultsKept /\ LoadedNat
  BY QParts
<1>k. Tasks \subseteq Procs /\ Ctls \subseteq Procs
  BY Consts
<1>1. \A a \in Arrays : Pending(a)' = Pending(a) /\ Pending(a) \subseteq Tasks
  BY PendingTasks DEF Pending
<1>2. \A a \in Arrays : Freeing(a)' = Freeing(a)
  BY <1>k DEF Freeing
<1>3. \A r \in Procs : ToSet(tasks[r]) \subseteq Tasks
  BY PendingTasks
<1>4. OncePending' /\ OneSet' /\ OnceWoken' /\ OneWaker' /\ LoadedNat'
  BY <1>i, <1>1 DEF OncePending, OneSet, OnceWoken, OneWaker, LoadedNat
<1>5. ComplexCount'
  BY <1>i, <1>1 DEF ComplexCount
<1>6. PendingSleeps'
  BY <1>i, <1>k, <1>1 DEF PendingSleeps
<1>7. SleepsPending'
  <2> SUFFICES ASSUME NEW q \in Tasks, pc'[q] \in QueuePcs, status'[q] = "EINTR"
               PROVE  (\E a \in Arrays : q \in Pending(a)') /\ (pc'[q] = "recheck" => q \in Pending(sma[q])')
    BY DEF SleepsPending
  <2>1. PICK a \in Arrays : q \in Pending(a)
    BY <1>i, <1>k DEF SleepsPending
  <2>2. pc'[q] = "recheck" => sma'[q] = a
    BY <1>k, <2>1
  <2>3. pc'[q] = "recheck" => Pending(sma[q])' = Pending(a)'
    BY <2>2 DEF Pending
  <2> QED BY <1>1, <2>1, <2>3
<1>8. SetsStay'
  BY <1>i DEF SetsStay
<1>9. PendingHere'
  BY <1>i, <1>k, <1>1 DEF PendingHere
<1>10. PendingUndo'
  BY <1>i, <1>1, <1>2 DEF PendingUndo
<1>11. WakeupHitsLiveQueue'
  BY <1>i, <1>k, <1>3 DEF WakeupHitsLiveQueue
<1>12. ResultsKept'
  BY <1>i DEF ResultsKept
<1> QED BY <1>4, <1>5, <1>6, <1>7, <1>8, <1>9, <1>10, <1>11, <1>12 DEF QInv, QueueAgrees

-----------------------------------------------------------------------------
(* Part two, step by step.                                                 *)

(* A failed lookup; the one place where a sleeper could leave behind its   *)
(* waker's back, which SafeWakeups excludes.                               *)
LEMMA QInv_lookup_fails ==
    ASSUME IInv, QInv, NEW p \in Procs, lookup_fails(p), SafeWakeups
    PROVE  QInv'
<1>q. LoadedNat /\ WakeupHitsLiveQueue /\ PendingSleeps /\ PendingHere /\ SetsStay /\ NobodyEarly
  BY QParts
<1>p. pc[p] \in {"find", "ufind", "cfind", "xfind", "ulock", "lock", "clock", "xlock"}
  <2>1. pc[p] \in {"find", "ufind", "rfind", "cfind", "xfind"} \cup Waiting
    BY LockLabels DEF lookup_fails, Missing
  <2>2. pc[p] # "rfind"
    <3>1. pc[p] = "rfind" => idr[semid[p][1]] = NoArr
        BY LockLabels DEF lookup_fails, Missing, Waiting
    <3> QED BY <1>q, <3>1 DEF SetsStay, NobodyEarly, SafeWakeups, QueuePcs
  <2>3. pc[p] # "relock"
    <3>1. pc[p] = "relock" => deleted[sma[p]] /\ sma[p] \in Arrays
        BY Parts, LockLabels, Locals DEF lookup_fails, Missing, Waiting
    <3> QED BY <1>q, <3>1 DEF SetsStay, NobodyEarly, SafeWakeups
  <2> QED BY <2>1, <2>2, <2>3 DEF Waiting
<1>t. /\ pc \in [Procs -> Labels]
  BY Parts DEF TypeInv
<1>u. /\ UNCHANGED <<sem_pending, complex_count, tasks, state, deleted, sops, semid, sma, undo, status,
                     outcome, mem, idr, list_id, ref>>
  BY DEF lookup_fails, args, arrayv, lists, queue, scanv, ulpv
<1>g. pc[p] \in {"find", "ufind", "cfind", "xfind", "ulock", "lock", "clock", "xlock"}
  BY <1>p DEF lookup_fails
<1>e. /\ pc'[p] \notin QueuePcs
      /\ \A q \in Procs : q # p => pc'[q] = pc[q]
  BY <1>t, Kinds, <1>g DEF lookup_fails, Goto, Return, args, arrayv, lists, queue, scanv, ulpv,
    QueuePcs
<1>x. sig' \subseteq sig /\ DOMAIN res' = DOMAIN res
  BY DEF lookup_fails, Goto, Return, args, arrayv, lists, queue, scanv, ulpv
<1>f. \A b \in Arrays : Freeing(b) => Freeing(b)'
  BY <1>u, Kinds, <1>g, <1>e DEF Freeing
<1>h. /\ p \in Procs => pc[p] \notin QueuePcs /\ pc'[p] \notin QueuePcs /\ ref'[p] >= 0
      /\ \A q \in Procs : q # p =>
           /\ pc'[q] = pc[q] /\ sops'[q] = sops[q] /\ semid'[q] = semid[q] /\ sma'[q] = sma[q]
           /\ undo'[q] = undo[q] /\ status'[q] = status[q] /\ outcome'[q] = outcome[q]
           /\ ref'[q] = ref[q]
  BY <1>u, Kinds, <1>g, <1>e, <1>q DEF QueuePcs, LoadedNat
<1> QED BY Parts, <1>u, <1>h, <1>u, <1>x, <1>f, QFrame

(* The return to user mode.                                                *)
LEMMA QInv_syscall_exit ==
    ASSUME IInv, QInv, NEW p \in Procs, syscall_exit(p)
    PROVE  QInv'
<1>q. LoadedNat /\ WakeupHitsLiveQueue /\ PendingSleeps /\ PendingHere /\ SetsStay /\ NobodyEarly
  BY QParts
<1>t. /\ pc \in [Procs -> Labels] /\ sops \in [Procs -> SopSeqs \cup {<<>>}]
      /\ sma \in [Procs -> Arrays \cup {NoArr}]
      /\ undo \in [Procs -> [list : Tasks \cup {NoProc}, set : Arrays \cup {NoArr}]]
      /\ status \in [Procs -> Errors \cup {"IN_WAKEUP"}] /\ outcome \in [Procs -> Errors]
      /\ ref \in [Procs -> Int]
  BY Parts DEF TypeInv
<1>u. /\ UNCHANGED <<sem_pending, complex_count, tasks, state, deleted, sig, semid, mem, idr, list_id>>
  BY DEF syscall_exit, arrayv, life, lists, ns, ulpv
<1>g. pc[p] \in {"ret"}
  BY DEF syscall_exit
<1>e. /\ pc'[p] \notin QueuePcs
      /\ \A q \in Procs : q # p => pc'[q] = pc[q]
  BY <1>t, Kinds, <1>g DEF syscall_exit, Goto, arrayv, life, lists, ns, ulpv, QueuePcs
<1>o. /\ \A q \in Procs : q # p => sops'[q] = sops[q]
      /\ \A q \in Procs : q # p => sma'[q] = sma[q]
      /\ \A q \in Procs : q # p => undo'[q] = undo[q]
      /\ \A q \in Procs : q # p => status'[q] = status[q]
      /\ \A q \in Procs : q # p => outcome'[q] = outcome[q]
  BY <1>t, Kinds DEF syscall_exit, Goto, arrayv, life, lists, ns, ulpv
<1>r. ref'[p] >= 0 /\ \A q \in Procs : q # p => ref'[q] = ref[q]
  BY <1>t, <1>q DEF syscall_exit
<1>x. DOMAIN res' = DOMAIN res
  BY DEF syscall_exit, Goto, arrayv, life, lists, ns, ulpv
<1>f. \A b \in Arrays : Freeing(b) => Freeing(b)'
  BY <1>u, Kinds, <1>g, <1>e, <1>o DEF Freeing
<1>h. /\ p \in Procs => pc[p] \notin QueuePcs /\ pc'[p] \notin QueuePcs /\ ref'[p] >= 0
      /\ \A q \in Procs : q # p =>
           /\ pc'[q] = pc[q] /\ sops'[q] = sops[q] /\ semid'[q] = semid[q] /\ sma'[q] = sma[q]
           /\ undo'[q] = undo[q] /\ status'[q] = status[q] /\ outcome'[q] = outcome[q]
           /\ ref'[q] = ref[q]
  BY <1>u, Kinds, <1>g, <1>e, <1>o, <1>r DEF QueuePcs, LoadedNat
<1> QED BY Parts, <1>u, <1>h, <1>u, <1>x, <1>f, QFrame

(* find_alloc_undo() looks the structure up.                               *)
LEMMA QInv_find_undo ==
    ASSUME IInv, QInv, NEW p \in Procs, find_undo(p)
    PROVE  QInv'
<1>q. LoadedNat /\ WakeupHitsLiveQueue /\ PendingSleeps /\ PendingHere /\ SetsStay /\ NobodyEarly
  BY QParts
<1>t. /\ pc \in [Procs -> Labels]
      /\ undo \in [Procs -> [list : Tasks \cup {NoProc}, set : Arrays \cup {NoArr}]]
  BY Parts DEF TypeInv
<1>u. /\ UNCHANGED <<sem_pending, complex_count, tasks, state, deleted, sig, sops, semid, sma, status,
                     outcome, mem, idr, list_id, ref, res>>
  BY DEF find_undo, args, arrayv, life, ns, queue, scanv, sched
<1>g. pc[p] \in {"undo"}
  BY DEF find_undo
<1>e. /\ pc'[p] \notin QueuePcs
      /\ \A q \in Procs : q # p => pc'[q] = pc[q]
  BY <1>t, Kinds, <1>g DEF find_undo, Goto, args, arrayv, life, ns, queue, scanv, sched, QueuePcs
<1>o. /\ \A q \in Procs : q # p => undo'[q] = undo[q]
  BY <1>t, Kinds DEF find_undo, Goto, args, arrayv, life, ns, queue, scanv, sched
<1>f. \A b \in Arrays : Freeing(b) => Freeing(b)'
  BY <1>u, Kinds, <1>g, <1>e, <1>o DEF Freeing
<1>h. /\ p \in Procs => pc[p] \notin QueuePcs /\ pc'[p] \notin QueuePcs /\ ref'[p] >= 0
      /\ \A q \in Procs : q # p =>
           /\ pc'[q] = pc[q] /\ sops'[q] = sops[q] /\ semid'[q] = semid[q] /\ sma'[q] = sma[q]
           /\ undo'[q] = undo[q] /\ status'[q] = status[q] /\ outcome'[q] = outcome[q]
           /\ ref'[q] = ref[q]
  BY <1>u, Kinds, <1>g, <1>e, <1>o, <1>q DEF QueuePcs, LoadedNat
<1> QED BY Parts, <1>u, <1>h, <1>u, <1>f, QFrame

(* find_alloc_undo() takes a reference and unlocks.                        *)
LEMMA QInv_undo_getref ==
    ASSUME IInv, QInv, NEW p \in Procs, undo_getref(p)
    PROVE  QInv'
<1>q. LoadedNat /\ WakeupHitsLiveQueue /\ PendingSleeps /\ PendingHere /\ SetsStay /\ NobodyEarly
  BY QParts
<1>t. /\ pc \in [Procs -> Labels]
  BY Parts DEF TypeInv
<1>u. /\ UNCHANGED <<sem_pending, complex_count, tasks, state, deleted, sig, sops, semid, sma, undo,
                     status, outcome, mem, idr, list_id, ref, res>>
  BY DEF undo_getref, args, arrayv, lists, ns, queue, scanv, sched, ulpv
<1>g. pc[p] \in {"ulock"}
  BY DEF undo_getref, Found
<1>e. /\ pc'[p] \notin QueuePcs
      /\ \A q \in Procs : q # p => pc'[q] = pc[q]
  BY <1>t, Kinds, <1>g DEF undo_getref, Getref, Goto, args, arrayv, lists, ns, queue, scanv, sched,
    ulpv, QueuePcs
<1>f. \A b \in Arrays : Freeing(b) => Freeing(b)'
  BY <1>u, Kinds, <1>g, <1>e DEF Freeing
<1>h. /\ p \in Procs => pc[p] \notin QueuePcs /\ pc'[p] \notin QueuePcs /\ ref'[p] >= 0
      /\ \A q \in Procs : q # p =>
           /\ pc'[q] = pc[q] /\ sops'[q] = sops[q] /\ semid'[q] = semid[q] /\ sma'[q] = sma[q]
           /\ undo'[q] = undo[q] /\ status'[q] = status[q] /\ outcome'[q] = outcome[q]
           /\ ref'[q] = ref[q]
  BY <1>u, Kinds, <1>g, <1>e, <1>q DEF QueuePcs, LoadedNat
<1> QED BY Parts, <1>u, <1>h, <1>u, <1>f, QFrame

(* find_alloc_undo() without memory gives its reference back.              *)
LEMMA QInv_undo_enomem ==
    ASSUME IInv, QInv, NEW p \in Procs, undo_enomem(p)
    PROVE  QInv'
<1>q. LoadedNat /\ WakeupHitsLiveQueue /\ PendingSleeps /\ PendingHere /\ SetsStay /\ NobodyEarly
  BY QParts
<1>p. pc[p] \in Referring
  BY DEF undo_enomem, Referring
<1>a. PICK a \in Arrays : a = sma[p]
  BY Parts, <1>p, Locals
<1>t. /\ pc \in [Procs -> Labels]
  BY Parts DEF TypeInv
<1>u. /\ UNCHANGED <<sem_pending, complex_count, tasks, state, deleted, sops, semid, sma, undo, status,
                     outcome, idr, list_id, ref>>
  BY DEF undo_enomem, args, arrayv, lists, ns, queue, scanv, ulpv
<1>g. pc[p] \in {"ualloc"}
  BY DEF undo_enomem
<1>e. /\ pc'[p] \notin QueuePcs
      /\ \A q \in Procs : q # p => pc'[q] = pc[q]
  BY <1>t, Kinds, <1>g DEF undo_enomem, Return, Goto, args, arrayv, lists, ns, queue, scanv, ulpv,
    QueuePcs
<1>x. sig' \subseteq sig /\ DOMAIN res' = DOMAIN res
  BY DEF undo_enomem, Return, Goto, args, arrayv, lists, ns, queue, scanv, ulpv
<1>m. \A b \in Arrays : mem[b] = "live" /\ ~deleted[b] => mem'[b] = "live"
  <2>1. p \in Holders(a) /\ Putref(a, refcount[a])
    BY <1>a, <1>p DEF Holders, undo_enomem
  <2>2. /\ \A b \in Arrays : b # a => mem'[b] = mem[b]
        /\ mem'[a] = mem[a] \/ ~Counted(a)
    BY Parts, <2>1, PutEffect
  <2> QED BY <2>2 DEF Counted
<1>f. \A b \in Arrays : Freeing(b) => Freeing(b)'
  BY <1>u, Kinds, <1>g, <1>e DEF Freeing
<1>h. /\ p \in Procs => pc[p] \notin QueuePcs /\ pc'[p] \notin QueuePcs /\ ref'[p] >= 0
      /\ \A q \in Procs : q # p =>
           /\ pc'[q] = pc[q] /\ sops'[q] = sops[q] /\ semid'[q] = semid[q] /\ sma'[q] = sma[q]
           /\ undo'[q] = undo[q] /\ status'[q] = status[q] /\ outcome'[q] = outcome[q]
           /\ ref'[q] = ref[q]
  BY <1>u, Kinds, <1>g, <1>e, <1>q DEF QueuePcs, LoadedNat
<1> QED BY Parts, <1>u, <1>h, <1>u, <1>x, <1>m, <1>f, QFrame

(* find_alloc_undo() links a new structure, uses the one that appeared     *)
(* meanwhile, or gives up.                                                 *)
LEMMA QInv_undo_link ==
    ASSUME IInv, QInv, NEW p \in Procs, undo_link(p)
    PROVE  QInv'
<1>q. LoadedNat /\ WakeupHitsLiveQueue /\ PendingSleeps /\ PendingHere /\ SetsStay /\ NobodyEarly
  BY QParts
<1>p. pc[p] \in Referring
  BY DEF undo_link, Referring
<1>a. PICK a \in Arrays : a = sma[p]
  BY Parts, <1>p, Locals
<1>t. /\ pc \in [Procs -> Labels]
      /\ undo \in [Procs -> [list : Tasks \cup {NoProc}, set : Arrays \cup {NoArr}]]
  BY Parts DEF TypeInv
<1>u. /\ UNCHANGED <<sem_pending, complex_count, tasks, state, deleted, sops, semid, sma, status,
                     outcome, idr, ref>>
  BY DEF undo_link, args, arrayv, lists, ns, queue, scanv, ulpv
<1>g. pc[p] \in {"ualloc"}
  BY DEF undo_link
<1>e. /\ pc'[p] \notin QueuePcs
      /\ \A q \in Procs : q # p => pc'[q] = pc[q]
  BY <1>t, Kinds, <1>g DEF undo_link, Return, Goto, args, arrayv, lists, ns, queue, scanv, ulpv,
    QueuePcs
<1>o. /\ \A q \in Procs : q # p => undo'[q] = undo[q]
  BY <1>t, Kinds DEF undo_link, Return, Goto, args, arrayv, lists, ns, queue, scanv, ulpv
<1>x. sig' \subseteq sig /\ DOMAIN res' = DOMAIN res
  BY DEF undo_link, Return, Goto, args, arrayv, lists, ns, queue, scanv, ulpv
<1>m. \A b \in Arrays : mem[b] = "live" /\ ~deleted[b] => mem'[b] = "live"
  <2>1. p \in Holders(a) /\ Putref(a, refcount[a])
    BY <1>a, <1>p DEF Holders, undo_link
  <2>2. /\ \A b \in Arrays : b # a => mem'[b] = mem[b]
        /\ mem'[a] = mem[a] \/ ~Counted(a)
    BY Parts, <2>1, PutEffect
  <2> QED BY <2>2 DEF Counted
<1>l. \A b \in Arrays, q \in Tasks :
        q \in Pending(b) /\ undo[q].set # NoArr /\ undo[q].list \in list_id[b] =>
          undo[q].list \in list_id'[b] \/ Freeing(b)'
  <2>1. list_id \in [Arrays -> SUBSET Tasks]
    BY Parts DEF TypeInv
  <2> QED BY <2>1 DEF undo_link, lists
<1>f. \A b \in Arrays : Freeing(b) => Freeing(b)'
  BY <1>u, Kinds, <1>g, <1>e, <1>o DEF Freeing
<1>h. /\ p \in Procs => pc[p] \notin QueuePcs /\ pc'[p] \notin QueuePcs /\ ref'[p] >= 0
      /\ \A q \in Procs : q # p =>
           /\ pc'[q] = pc[q] /\ sops'[q] = sops[q] /\ semid'[q] = semid[q] /\ sma'[q] = sma[q]
           /\ undo'[q] = undo[q] /\ status'[q] = status[q] /\ outcome'[q] = outcome[q]
           /\ ref'[q] = ref[q]
  BY <1>u, Kinds, <1>g, <1>e, <1>o, <1>q DEF QueuePcs, LoadedNat
<1> QED BY Parts, <1>u, <1>h, <1>u, <1>x, <1>m, <1>l, <1>f, QFrame

(* An operation that fails or changes nothing.                             *)
LEMMA QInv_semop_return ==
    ASSUME IInv, QInv, NEW p \in Procs, semop_return(p)
    PROVE  QInv'
<1>q. LoadedNat /\ WakeupHitsLiveQueue /\ PendingSleeps /\ PendingHere /\ SetsStay /\ NobodyEarly
  BY QParts
<1>t. /\ pc \in [Procs -> Labels]
  BY Parts DEF TypeInv
<1>u. /\ UNCHANGED <<sem_pending, complex_count, tasks, state, deleted, sops, semid, sma, undo, status,
                     outcome, mem, idr, list_id, ref>>
  BY DEF semop_return, args, arrayv, lists, ns, queue, scanv, ulpv
<1>g. pc[p] \in {"lock"}
  BY DEF semop_return, Found
<1>e. /\ pc'[p] \notin QueuePcs
      /\ \A q \in Procs : q # p => pc'[q] = pc[q]
  BY <1>t, Kinds, <1>g DEF semop_return, Return, Goto, args, arrayv, lists, ns, queue, scanv, ulpv,
    QueuePcs
<1>x. sig' \subseteq sig /\ DOMAIN res' = DOMAIN res
  BY DEF semop_return, Return, Goto, args, arrayv, lists, ns, queue, scanv, ulpv
<1>f. \A b \in Arrays : Freeing(b) => Freeing(b)'
  BY <1>u, Kinds, <1>g, <1>e DEF Freeing
<1>h. /\ p \in Procs => pc[p] \notin QueuePcs /\ pc'[p] \notin QueuePcs /\ ref'[p] >= 0
      /\ \A q \in Procs : q # p =>
           /\ pc'[q] = pc[q] /\ sops'[q] = sops[q] /\ semid'[q] = semid[q] /\ sma'[q] = sma[q]
           /\ undo'[q] = undo[q] /\ status'[q] = status[q] /\ outcome'[q] = outcome[q]
           /\ ref'[q] = ref[q]
  BY <1>u, Kinds, <1>g, <1>e, <1>q DEF QueuePcs, LoadedNat
<1> QED BY Parts, <1>u, <1>h, <1>u, <1>x, <1>f, QFrame

(* An operation is performed.                                              *)
LEMMA QInv_semop_alter ==
    ASSUME IInv, QInv, NEW p \in Procs, semop_alter(p)
    PROVE  QInv'
<1>q. LoadedNat /\ WakeupHitsLiveQueue /\ PendingSleeps /\ PendingHere /\ SetsStay /\ NobodyEarly
  BY QParts
<1>t. /\ pc \in [Procs -> Labels]
  BY Parts DEF TypeInv
<1>u. /\ UNCHANGED <<sem_pending, complex_count, tasks, state, deleted, sig, sops, semid, sma, undo,
                     status, outcome, mem, idr, list_id, ref, res>>
  BY DEF semop_alter, args, life, lists, ns, queue, sched, ulpv
<1>g. pc[p] \in {"lock"}
  BY DEF semop_alter, Found
<1>e. /\ pc'[p] \notin QueuePcs
      /\ \A q \in Procs : q # p => pc'[q] = pc[q]
  BY <1>t, Kinds, <1>g DEF semop_alter, Goto, args, life, lists, ns, queue, sched, ulpv, QueuePcs
<1>f. \A b \in Arrays : Freeing(b) => Freeing(b)'
  BY <1>u, Kinds, <1>g, <1>e DEF Freeing
<1>h. /\ p \in Procs => pc[p] \notin QueuePcs /\ pc'[p] \notin QueuePcs /\ ref'[p] >= 0
      /\ \A q \in Procs : q # p =>
           /\ pc'[q] = pc[q] /\ sops'[q] = sops[q] /\ semid'[q] = semid[q] /\ sma'[q] = sma[q]
           /\ undo'[q] = undo[q] /\ status'[q] = status[q] /\ outcome'[q] = outcome[q]
           /\ ref'[q] = ref[q]
  BY <1>u, Kinds, <1>g, <1>e, <1>q DEF QueuePcs, LoadedNat
<1> QED BY Parts, <1>u, <1>h, <1>u, <1>f, QFrame

(* do_smart_update() starts a walk or unlocks.                             *)
LEMMA QInv_do_smart_update ==
    ASSUME IInv, QInv, NEW p \in Procs, do_smart_update(p)
    PROVE  QInv'
<1>q. LoadedNat /\ WakeupHitsLiveQueue /\ PendingSleeps /\ PendingHere /\ SetsStay /\ NobodyEarly
  BY QParts
<1>t. /\ pc \in [Procs -> Labels]
  BY Parts DEF TypeInv
<1>u. /\ UNCHANGED <<sem_pending, complex_count, tasks, state, deleted, sig, sops, semid, sma, undo,
                     status, outcome, mem, idr, list_id, ref, res>>
  BY DEF do_smart_update, args, arrayv, lists, ns, queue, sched, ulpv
<1>g. pc[p] \in {"smart"}
  BY DEF do_smart_update
<1>e. /\ pc'[p] \notin QueuePcs
      /\ \A q \in Procs : q # p => pc'[q] = pc[q]
  BY <1>t, Kinds, <1>g DEF do_smart_update, Scan, Goto, args, arrayv, lists, ns, queue, sched,
    ulpv, QueuePcs
<1>f. \A b \in Arrays : Freeing(b) => Freeing(b)'
  BY <1>u, Kinds, <1>g, <1>e DEF Freeing
<1>h. /\ p \in Procs => pc[p] \notin QueuePcs /\ pc'[p] \notin QueuePcs /\ ref'[p] >= 0
      /\ \A q \in Procs : q # p =>
           /\ pc'[q] = pc[q] /\ sops'[q] = sops[q] /\ semid'[q] = semid[q] /\ sma'[q] = sma[q]
           /\ undo'[q] = undo[q] /\ status'[q] = status[q] /\ outcome'[q] = outcome[q]
           /\ ref'[q] = ref[q]
  BY <1>u, Kinds, <1>g, <1>e, <1>q DEF QueuePcs, LoadedNat
<1> QED BY Parts, <1>u, <1>h, <1>u, <1>f, QFrame

(* The walk of update_queue() ends.                                        *)
LEMMA QInv_update_end ==
    ASSUME IInv, QInv, NEW p \in Procs, update_end(p)
    PROVE  QInv'
<1>q. LoadedNat /\ WakeupHitsLiveQueue /\ PendingSleeps /\ PendingHere /\ SetsStay /\ NobodyEarly
  BY QParts
<1>t. /\ pc \in [Procs -> Labels]
  BY Parts DEF TypeInv
<1>u. /\ UNCHANGED <<sem_pending, complex_count, tasks, state, deleted, sig, sops, semid, sma, undo,
                     status, outcome, mem, idr, list_id, ref, res>>
  BY DEF update_end, args, arrayv, life, lists, ns, queue, scanv, sched, ulpv
<1>g. pc[p] \in {"scan"}
  BY DEF update_end
<1>e. /\ pc'[p] \notin QueuePcs
      /\ \A q \in Procs : q # p => pc'[q] = pc[q]
  BY <1>t, Kinds, <1>g DEF update_end, Goto, args, arrayv, life, lists, ns, queue, scanv, sched,
    ulpv, QueuePcs
<1>f. \A b \in Arrays : Freeing(b) => Freeing(b)'
  BY <1>u, Kinds, <1>g, <1>e DEF Freeing
<1>h. /\ p \in Procs => pc[p] \notin QueuePcs /\ pc'[p] \notin QueuePcs /\ ref'[p] >= 0
      /\ \A q \in Procs : q # p =>
           /\ pc'[q] = pc[q] /\ sops'[q] = sops[q] /\ semid'[q] = semid[q] /\ sma'[q] = sma[q]
           /\ undo'[q] = undo[q] /\ status'[q] = status[q] /\ outcome'[q] = outcome[q]
           /\ ref'[q] = ref[q]
  BY <1>u, Kinds, <1>g, <1>e, <1>q DEF QueuePcs, LoadedNat
<1> QED BY Parts, <1>u, <1>h, <1>u, <1>f, QFrame

(* update_queue() goes past an operation that has to wait.                 *)
LEMMA QInv_update_skip ==
    ASSUME IInv, QInv, NEW p \in Procs, update_skip(p)
    PROVE  QInv'
<1>q. LoadedNat /\ WakeupHitsLiveQueue /\ PendingSleeps /\ PendingHere /\ SetsStay /\ NobodyEarly
  BY QParts
<1>u. /\ UNCHANGED <<sem_pending, complex_count, tasks, state, deleted, sig, pc, sops, semid, sma,
                     undo, status, outcome, mem, idr, list_id, ref, res>>
  BY DEF update_skip, args, arrayv, life, lists, ns, queue, sched, ulpv
<1>g. pc[p] \in {"scan"}
  BY DEF update_skip
<1>f. \A b \in Arrays : Freeing(b) => Freeing(b)'
  BY <1>u, Kinds, <1>g DEF Freeing
<1>h. /\ p \in Procs => pc[p] \notin QueuePcs /\ pc'[p] \notin QueuePcs /\ ref'[p] >= 0
      /\ \A q \in Procs : q # p =>
           /\ pc'[q] = pc[q] /\ sops'[q] = sops[q] /\ semid'[q] = semid[q] /\ sma'[q] = sma[q]
           /\ undo'[q] = undo[q] /\ status'[q] = status[q] /\ outcome'[q] = outcome[q]
           /\ ref'[q] = ref[q]
  BY <1>u, Kinds, <1>g, <1>q DEF QueuePcs, LoadedNat
<1> QED BY Parts, <1>u, <1>h, <1>u, <1>f, QFrame

(* The waker has woken everybody.                                          *)
LEMMA QInv_wake_done ==
    ASSUME IInv, QInv, NEW p \in Procs, wake_done(p)
    PROVE  QInv'
<1>q. LoadedNat /\ WakeupHitsLiveQueue /\ PendingSleeps /\ PendingHere /\ SetsStay /\ NobodyEarly
  BY QParts
<1>t. /\ pc \in [Procs -> Labels] /\ ref \in [Procs -> Int]
  BY Parts DEF TypeInv
<1>u. /\ UNCHANGED <<sem_pending, complex_count, tasks, state, deleted, sops, semid, sma, undo, status,
                     outcome, mem, idr, list_id>>
  BY DEF wake_done, args, arrayv, life, lists, queue, scanv, ulpv
<1>g. pc[p] \in {"wake"}
  BY DEF wake_done
<1>e. /\ pc'[p] \notin QueuePcs
      /\ \A q \in Procs : q # p => pc'[q] = pc[q]
  BY <1>t, Kinds, <1>g DEF wake_done, Return, Goto, args, arrayv, life, lists, queue, scanv, ulpv,
    QueuePcs
<1>r. ref'[p] >= 0 /\ \A q \in Procs : q # p => ref'[q] = ref[q]
  <2>1. refcount[sma[p]] >= 0
    BY Parts, <1>g, Locals DEF RefNat, WakingUp
  <2> QED BY <1>t, <1>q, <2>1 DEF wake_done, LoadedNat
<1>x. sig' \subseteq sig /\ DOMAIN res' = DOMAIN res
  BY DEF wake_done, Return, Goto, args, arrayv, life, lists, queue, scanv, ulpv
<1>f. \A b \in Arrays : Freeing(b) => Freeing(b)'
  BY <1>u, Kinds, <1>g, <1>e DEF Freeing
<1>h. /\ p \in Procs => pc[p] \notin QueuePcs /\ pc'[p] \notin QueuePcs /\ ref'[p] >= 0
      /\ \A q \in Procs : q # p =>
           /\ pc'[q] = pc[q] /\ sops'[q] = sops[q] /\ semid'[q] = semid[q] /\ sma'[q] = sma[q]
           /\ undo'[q] = undo[q] /\ status'[q] = status[q] /\ outcome'[q] = outcome[q]
           /\ ref'[q] = ref[q]
  BY <1>u, Kinds, <1>g, <1>e, <1>r DEF QueuePcs, LoadedNat
<1> QED BY Parts, <1>u, <1>h, <1>u, <1>x, <1>f, QFrame

(* semctl() fails with the lock held.                                      *)
LEMMA QInv_ctl_fail ==
    ASSUME IInv, QInv, NEW p \in Procs, ctl_fail(p)
    PROVE  QInv'
<1>q. LoadedNat /\ WakeupHitsLiveQueue /\ PendingSleeps /\ PendingHere /\ SetsStay /\ NobodyEarly
  BY QParts
<1>t. /\ pc \in [Procs -> Labels]
  BY Parts DEF TypeInv
<1>u. /\ UNCHANGED <<sem_pending, complex_count, tasks, state, deleted, sops, semid, sma, undo, status,
                     outcome, mem, idr, list_id, ref>>
  BY DEF ctl_fail, args, arrayv, lists, queue, scanv, ulpv
<1>g. pc[p] \in {"clock"}
  BY DEF ctl_fail, Found
<1>e. /\ pc'[p] \notin QueuePcs
      /\ \A q \in Procs : q # p => pc'[q] = pc[q]
  BY <1>t, Kinds, <1>g DEF ctl_fail, Return, Goto, args, arrayv, lists, queue, scanv, ulpv,
    QueuePcs
<1>x. sig' \subseteq sig /\ DOMAIN res' = DOMAIN res
  BY DEF ctl_fail, Return, Goto, args, arrayv, lists, queue, scanv, ulpv
<1>f. \A b \in Arrays : Freeing(b) => Freeing(b)'
  BY <1>u, Kinds, <1>g, <1>e DEF Freeing
<1>h. /\ p \in Procs => pc[p] \notin QueuePcs /\ pc'[p] \notin QueuePcs /\ ref'[p] >= 0
      /\ \A q \in Procs : q # p =>
           /\ pc'[q] = pc[q] /\ sops'[q] = sops[q] /\ semid'[q] = semid[q] /\ sma'[q] = sma[q]
           /\ undo'[q] = undo[q] /\ status'[q] = status[q] /\ outcome'[q] = outcome[q]
           /\ ref'[q] = ref[q]
  BY <1>u, Kinds, <1>g, <1>e, <1>q DEF QueuePcs, LoadedNat
<1> QED BY Parts, <1>u, <1>h, <1>u, <1>x, <1>f, QFrame

(* SETVAL stores the value and clears the adjustments.                     *)
LEMMA QInv_setval ==
    ASSUME IInv, QInv, NEW p \in Procs, setval(p)
    PROVE  QInv'
<1>q. LoadedNat /\ WakeupHitsLiveQueue /\ PendingSleeps /\ PendingHere /\ SetsStay /\ NobodyEarly
  BY QParts
<1>t. /\ pc \in [Procs -> Labels]
  BY Parts DEF TypeInv
<1>u. /\ UNCHANGED <<sem_pending, complex_count, tasks, state, deleted, sig, sops, semid, sma, undo,
                     status, outcome, mem, idr, list_id, ref, res>>
  BY DEF setval, args, life, lists, ns, queue, sched, ulpv
<1>g. pc[p] \in {"clock"}
  BY DEF setval, Found
<1>e. /\ pc'[p] \notin QueuePcs
      /\ \A q \in Procs : q # p => pc'[q] = pc[q]
  BY <1>t, Kinds, <1>g DEF setval, Goto, args, life, lists, ns, queue, sched, ulpv, QueuePcs
<1>f. \A b \in Arrays : Freeing(b) => Freeing(b)'
  BY <1>u, Kinds, <1>g, <1>e DEF Freeing
<1>h. /\ p \in Procs => pc[p] \notin QueuePcs /\ pc'[p] \notin QueuePcs /\ ref'[p] >= 0
      /\ \A q \in Procs : q # p =>
           /\ pc'[q] = pc[q] /\ sops'[q] = sops[q] /\ semid'[q] = semid[q] /\ sma'[q] = sma[q]
           /\ undo'[q] = undo[q] /\ status'[q] = status[q] /\ outcome'[q] = outcome[q]
           /\ ref'[q] = ref[q]
  BY <1>u, Kinds, <1>g, <1>e, <1>q DEF QueuePcs, LoadedNat
<1> QED BY Parts, <1>u, <1>h, <1>u, <1>f, QFrame

(* GETALL or SETALL takes a reference and unlocks.                         *)
LEMMA QInv_all_getref ==
    ASSUME IInv, QInv, NEW p \in Procs, all_getref(p)
    PROVE  QInv'
<1>q. LoadedNat /\ WakeupHitsLiveQueue /\ PendingSleeps /\ PendingHere /\ SetsStay /\ NobodyEarly
  BY QParts
<1>t. /\ pc \in [Procs -> Labels]
  BY Parts DEF TypeInv
<1>u. /\ UNCHANGED <<sem_pending, complex_count, tasks, state, deleted, sig, sops, semid, sma, undo,
                     status, outcome, mem, idr, list_id, ref, res>>
  BY DEF all_getref, args, arrayv, lists, ns, queue, scanv, sched, ulpv
<1>g. pc[p] \in {"clock"}
  BY DEF all_getref, Found
<1>e. /\ pc'[p] \notin QueuePcs
      /\ \A q \in Procs : q # p => pc'[q] = pc[q]
  BY <1>t, Kinds, <1>g DEF all_getref, Getref, Goto, args, arrayv, lists, ns, queue, scanv, sched,
    ulpv, QueuePcs
<1>f. \A b \in Arrays : Freeing(b) => Freeing(b)'
  BY <1>u, Kinds, <1>g, <1>e DEF Freeing
<1>h. /\ p \in Procs => pc[p] \notin QueuePcs /\ pc'[p] \notin QueuePcs /\ ref'[p] >= 0
      /\ \A q \in Procs : q # p =>
           /\ pc'[q] = pc[q] /\ sops'[q] = sops[q] /\ semid'[q] = semid[q] /\ sma'[q] = sma[q]
           /\ undo'[q] = undo[q] /\ status'[q] = status[q] /\ outcome'[q] = outcome[q]
           /\ ref'[q] = ref[q]
  BY <1>u, Kinds, <1>g, <1>e, <1>q DEF QueuePcs, LoadedNat
<1> QED BY Parts, <1>u, <1>h, <1>u, <1>f, QFrame

(* GETALL or SETALL fails after it left the lock.                          *)
LEMMA QInv_all_fail ==
    ASSUME IInv, QInv, NEW p \in Procs, all_fail(p)
    PROVE  QInv'
<1>q. LoadedNat /\ WakeupHitsLiveQueue /\ PendingSleeps /\ PendingHere /\ SetsStay /\ NobodyEarly
  BY QParts
<1>p. pc[p] \in Referring
  BY DEF all_fail, Referring
<1>a. PICK a \in Arrays : a = sma[p]
  BY Parts, <1>p, Locals
<1>t. /\ pc \in [Procs -> Labels]
  BY Parts DEF TypeInv
<1>u. /\ UNCHANGED <<sem_pending, complex_count, tasks, state, deleted, sops, semid, sma, undo, status,
                     outcome, idr, list_id, ref>>
  BY DEF all_fail, args, arrayv, lists, ns, queue, scanv, ulpv
<1>g. pc[p] \in {"copyin"}
  BY DEF all_fail
<1>e. /\ pc'[p] \notin QueuePcs
      /\ \A q \in Procs : q # p => pc'[q] = pc[q]
  BY <1>t, Kinds, <1>g DEF all_fail, Return, Goto, args, arrayv, lists, ns, queue, scanv, ulpv,
    QueuePcs
<1>x. sig' \subseteq sig /\ DOMAIN res' = DOMAIN res
  BY DEF all_fail, Return, Goto, args, arrayv, lists, ns, queue, scanv, ulpv
<1>m. \A b \in Arrays : mem[b] = "live" /\ ~deleted[b] => mem'[b] = "live"
  <2>1. p \in Holders(a) /\ Putref(a, refcount[a])
    BY <1>a, <1>p DEF Holders, all_fail
  <2>2. /\ \A b \in Arrays : b # a => mem'[b] = mem[b]
        /\ mem'[a] = mem[a] \/ ~Counted(a)
    BY Parts, <2>1, PutEffect
  <2> QED BY <2>2 DEF Counted
<1>f. \A b \in Arrays : Freeing(b) => Freeing(b)'
  BY <1>u, Kinds, <1>g, <1>e DEF Freeing
<1>h. /\ p \in Procs => pc[p] \notin QueuePcs /\ pc'[p] \notin QueuePcs /\ ref'[p] >= 0
      /\ \A q \in Procs : q # p =>
           /\ pc'[q] = pc[q] /\ sops'[q] = sops[q] /\ semid'[q] = semid[q] /\ sma'[q] = sma[q]
           /\ undo'[q] = undo[q] /\ status'[q] = status[q] /\ outcome'[q] = outcome[q]
           /\ ref'[q] = ref[q]
  BY <1>u, Kinds, <1>g, <1>e, <1>q DEF QueuePcs, LoadedNat
<1> QED BY Parts, <1>u, <1>h, <1>u, <1>x, <1>m, <1>f, QFrame

(* GETALL relocks with its reference.                                      *)
LEMMA QInv_getall ==
    ASSUME IInv, QInv, NEW p \in Procs, getall(p)
    PROVE  QInv'
<1>q. LoadedNat /\ WakeupHitsLiveQueue /\ PendingSleeps /\ PendingHere /\ SetsStay /\ NobodyEarly
  BY QParts
<1>p. pc[p] \in Referring
  BY DEF getall, Referring
<1>a. PICK a \in Arrays : a = sma[p]
  BY Parts, <1>p, Locals
<1>t. /\ pc \in [Procs -> Labels]
  BY Parts DEF TypeInv
<1>u. /\ UNCHANGED <<sem_pending, complex_count, tasks, state, deleted, sops, semid, sma, undo, status,
                     outcome, idr, list_id, ref>>
  BY DEF getall, args, arrayv, lists, ns, queue, scanv, ulpv
<1>g. pc[p] \in {"copyin"}
  BY DEF getall
<1>e. /\ pc'[p] \notin QueuePcs
      /\ \A q \in Procs : q # p => pc'[q] = pc[q]
  BY <1>t, Kinds, <1>g DEF getall, Return, Goto, args, arrayv, lists, ns, queue, scanv, ulpv,
    QueuePcs
<1>x. sig' \subseteq sig /\ DOMAIN res' = DOMAIN res
  BY DEF getall, Return, Goto, args, arrayv, lists, ns, queue, scanv, ulpv
<1>m. \A b \in Arrays : mem[b] = "live" /\ ~deleted[b] => mem'[b] = "live"
  <2>1. p \in Holders(a) /\ Putref(a, refcount[a])
    BY <1>a, <1>p DEF Holders, getall
  <2>2. /\ \A b \in Arrays : b # a => mem'[b] = mem[b]
        /\ mem'[a] = mem[a] \/ ~Counted(a)
    BY Parts, <2>1, PutEffect
  <2> QED BY <2>2 DEF Counted
<1>f. \A b \in Arrays : Freeing(b) => Freeing(b)'
  BY <1>u, Kinds, <1>g, <1>e DEF Freeing
<1>h. /\ p \in Procs => pc[p] \notin QueuePcs /\ pc'[p] \notin QueuePcs /\ ref'[p] >= 0
      /\ \A q \in Procs : q # p =>
           /\ pc'[q] = pc[q] /\ sops'[q] = sops[q] /\ semid'[q] = semid[q] /\ sma'[q] = sma[q]
           /\ undo'[q] = undo[q] /\ status'[q] = status[q] /\ outcome'[q] = outcome[q]
           /\ ref'[q] = ref[q]
  BY <1>u, Kinds, <1>g, <1>e, <1>q DEF QueuePcs, LoadedNat
<1> QED BY Parts, <1>u, <1>h, <1>u, <1>x, <1>m, <1>f, QFrame

(* SETALL stores the values and clears the adjustments.                    *)
LEMMA QInv_setall ==
    ASSUME IInv, QInv, NEW p \in Procs, setall(p)
    PROVE  QInv'
<1>q. LoadedNat /\ WakeupHitsLiveQueue /\ PendingSleeps /\ PendingHere /\ SetsStay /\ NobodyEarly
  BY QParts
<1>p. pc[p] \in Referring
  BY DEF setall, Referring
<1>a. PICK a \in Arrays : a = sma[p]
  BY Parts, <1>p, Locals
<1>t. /\ pc \in [Procs -> Labels]
  BY Parts DEF TypeInv
<1>u. /\ UNCHANGED <<sem_pending, complex_count, tasks, state, deleted, sops, semid, sma, undo, status,
                     outcome, idr, list_id, ref>>
  BY DEF setall, args, lists, ns, queue, ulpv
<1>g. pc[p] \in {"copyin"}
  BY DEF setall
<1>e. /\ pc'[p] \notin QueuePcs
      /\ \A q \in Procs : q # p => pc'[q] = pc[q]
  BY <1>t, Kinds, <1>g DEF setall, Return, Goto, args, lists, ns, queue, ulpv, QueuePcs
<1>x. sig' \subseteq sig /\ DOMAIN res' = DOMAIN res
  BY DEF setall, Return, Goto, args, lists, ns, queue, ulpv
<1>m. \A b \in Arrays : mem[b] = "live" /\ ~deleted[b] => mem'[b] = "live"
  <2>1. p \in Holders(a) /\ Putref(a, refcount[a])
    BY <1>a, <1>p DEF Holders, setall
  <2>2. /\ \A b \in Arrays : b # a => mem'[b] = mem[b]
        /\ mem'[a] = mem[a] \/ ~Counted(a)
    BY Parts, <2>1, PutEffect
  <2> QED BY <2>2 DEF Counted
<1>f. \A b \in Arrays : Freeing(b) => Freeing(b)'
  BY <1>u, Kinds, <1>g, <1>e DEF Freeing
<1>h. /\ p \in Procs => pc[p] \notin QueuePcs /\ pc'[p] \notin QueuePcs /\ ref'[p] >= 0
      /\ \A q \in Procs : q # p =>
           /\ pc'[q] = pc[q] /\ sops'[q] = sops[q] /\ semid'[q] = semid[q] /\ sma'[q] = sma[q]
           /\ undo'[q] = undo[q] /\ status'[q] = status[q] /\ outcome'[q] = outcome[q]
           /\ ref'[q] = ref[q]
  BY <1>u, Kinds, <1>g, <1>e, <1>q DEF QueuePcs, LoadedNat
<1> QED BY Parts, <1>u, <1>h, <1>u, <1>x, <1>m, <1>f, QFrame

(* freeary() takes the set.                                                *)
LEMMA QInv_freeary ==
    ASSUME IInv, QInv, NEW p \in Procs, freeary(p)
    PROVE  QInv'
<1>q. LoadedNat /\ WakeupHitsLiveQueue /\ PendingSleeps /\ PendingHere /\ SetsStay /\ NobodyEarly
  BY QParts
<1>t. /\ pc \in [Procs -> Labels]
  BY Parts DEF TypeInv
<1>u. /\ UNCHANGED <<sem_pending, complex_count, tasks, state, deleted, sig, sops, semid, sma, undo,
                     status, outcome, mem, idr, list_id, ref, res>>
  BY DEF freeary, args, arrayv, life, lists, ns, queue, scanv, sched, ulpv
<1>g. pc[p] \in {"clock"}
  BY DEF freeary, Found
<1>e. /\ pc'[p] \notin QueuePcs
      /\ \A q \in Procs : q # p => pc'[q] = pc[q]
  BY <1>t, Kinds, <1>g DEF freeary, Goto, args, arrayv, life, lists, ns, queue, scanv, sched, ulpv,
    QueuePcs
<1>f. \A b \in Arrays : Freeing(b) => Freeing(b)'
  BY <1>u, Kinds, <1>g, <1>e DEF Freeing
<1>h. /\ p \in Procs => pc[p] \notin QueuePcs /\ pc'[p] \notin QueuePcs /\ ref'[p] >= 0
      /\ \A q \in Procs : q # p =>
           /\ pc'[q] = pc[q] /\ sops'[q] = sops[q] /\ semid'[q] = semid[q] /\ sma'[q] = sma[q]
           /\ undo'[q] = undo[q] /\ status'[q] = status[q] /\ outcome'[q] = outcome[q]
           /\ ref'[q] = ref[q]
  BY <1>u, Kinds, <1>g, <1>e, <1>q DEF QueuePcs, LoadedNat
<1> QED BY Parts, <1>u, <1>h, <1>u, <1>f, QFrame

(* freeary(), first half: off list_id, semid = -1, ulp->lock.              *)
LEMMA QInv_freeary_invalidate ==
    ASSUME IInv, QInv, NEW p \in Procs, freeary_invalidate(p)
    PROVE  QInv'
<1>q. LoadedNat /\ WakeupHitsLiveQueue /\ PendingSleeps /\ PendingHere /\ SetsStay /\ NobodyEarly
  BY QParts
<1>t. /\ pc \in [Procs -> Labels]
      /\ undo \in [Procs -> [list : Tasks \cup {NoProc}, set : Arrays \cup {NoArr}]]
  BY Parts DEF TypeInv
<1>u. /\ UNCHANGED <<sem_pending, complex_count, tasks, state, deleted, sig, sops, semid, sma, status,
                     outcome, mem, idr, ref, res>>
  BY DEF freeary_invalidate, args, arrayv, life, ns, queue, scanv, sched
<1>g. pc[p] \in {"fundo"}
  BY DEF freeary_invalidate
<1>e. /\ pc'[p] \notin QueuePcs
      /\ \A q \in Procs : q # p => pc'[q] = pc[q]
  BY <1>t, Kinds, <1>g DEF freeary_invalidate, Goto, args, arrayv, life, ns, queue, scanv, sched,
    QueuePcs
<1>o. /\ \A q \in Procs : q # p => undo'[q] = undo[q]
  BY <1>t, Kinds DEF freeary_invalidate, Goto, args, arrayv, life, ns, queue, scanv, sched
<1>l. \A b \in Arrays, q \in Tasks :
        q \in Pending(b) /\ undo[q].set # NoArr /\ undo[q].list \in list_id[b] =>
          undo[q].list \in list_id'[b] \/ Freeing(b)'
  <2>1. p \in Ctls /\ pc'[p] = "funlink"
    BY Parts, <1>g, <1>t, Locals DEF freeary_invalidate, Goto
  <2>0. PICK a \in Arrays : a = sma[p]
    BY Parts, <1>g, Locals DEF Holding
  <2>2. Freeing(a)'
    BY <1>u, <2>0, <2>1 DEF Freeing
  <2>3. \A b \in Arrays : b # a => list_id'[b] = list_id[b]
    BY Parts, <2>0 DEF freeary_invalidate, TypeInv
  <2> QED BY <2>2, <2>3
<1>f. \A b \in Arrays : Freeing(b) => Freeing(b)'
  <2>1. sma' = sma /\ pc[p] \in {"fundo", "funlink"} /\ pc'[p] \in {"fundo", "funlink"}
    BY Parts, <1>g, <1>u DEF freeary_invalidate, Goto, TypeInv
  <2> QED BY Kinds, <1>u, <1>e, <2>1 DEF Freeing
<1>h. /\ p \in Procs => pc[p] \notin QueuePcs /\ pc'[p] \notin QueuePcs /\ ref'[p] >= 0
      /\ \A q \in Procs : q # p =>
           /\ pc'[q] = pc[q] /\ sops'[q] = sops[q] /\ semid'[q] = semid[q] /\ sma'[q] = sma[q]
           /\ undo'[q] = undo[q] /\ status'[q] = status[q] /\ outcome'[q] = outcome[q]
           /\ ref'[q] = ref[q]
  BY <1>u, Kinds, <1>g, <1>e, <1>o, <1>q DEF QueuePcs, LoadedNat
<1> QED BY Parts, <1>u, <1>h, <1>u, <1>l, <1>f, QFrame

(* freeary(), second half: off list_proc, to RCU.                          *)
LEMMA QInv_freeary_unlink ==
    ASSUME IInv, QInv, NEW p \in Procs, freeary_unlink(p)
    PROVE  QInv'
<1>q. LoadedNat /\ WakeupHitsLiveQueue /\ PendingSleeps /\ PendingHere /\ SetsStay /\ NobodyEarly
  BY QParts
<1>t. /\ pc \in [Procs -> Labels]
  BY Parts DEF TypeInv
<1>u. /\ UNCHANGED <<sem_pending, complex_count, tasks, state, deleted, sig, sops, semid, sma, undo,
                     status, outcome, mem, idr, list_id, ref, res>>
  BY DEF freeary_unlink, args, arrayv, life, ns, queue, scanv, sched
<1>g. pc[p] \in {"funlink"}
  BY DEF freeary_unlink
<1>e. /\ pc'[p] \notin QueuePcs
      /\ \A q \in Procs : q # p => pc'[q] = pc[q]
  BY <1>t, Kinds, <1>g DEF freeary_unlink, Goto, args, arrayv, life, ns, queue, scanv, sched,
    QueuePcs
<1>f. \A b \in Arrays : Freeing(b) => Freeing(b)'
  <2>1. sma' = sma /\ pc[p] \in {"fundo", "funlink"} /\ pc'[p] \in {"fundo", "funlink"}
    BY Parts, <1>g, <1>u DEF freeary_unlink, Goto, TypeInv
  <2> QED BY Kinds, <1>u, <1>e, <2>1 DEF Freeing
<1>h. /\ p \in Procs => pc[p] \notin QueuePcs /\ pc'[p] \notin QueuePcs /\ ref'[p] >= 0
      /\ \A q \in Procs : q # p =>
           /\ pc'[q] = pc[q] /\ sops'[q] = sops[q] /\ semid'[q] = semid[q] /\ sma'[q] = sma[q]
           /\ undo'[q] = undo[q] /\ status'[q] = status[q] /\ outcome'[q] = outcome[q]
           /\ ref'[q] = ref[q]
  BY <1>u, Kinds, <1>g, <1>e, <1>q DEF QueuePcs, LoadedNat
<1> QED BY Parts, <1>u, <1>h, <1>u, <1>f, QFrame

(* freeary() drops its reference without the lock.                         *)
LEMMA QInv_freeary_putref ==
    ASSUME IInv, QInv, NEW p \in Procs, freeary_putref(p)
    PROVE  QInv'
<1>q. LoadedNat /\ WakeupHitsLiveQueue /\ PendingSleeps /\ PendingHere /\ SetsStay /\ NobodyEarly
  BY QParts
<1>p. pc[p] = "put" /\ pc[p] \in Referring
  BY DEF freeary_putref, Referring
<1>a. PICK a \in Arrays : a = sma[p]
  BY Parts, <1>p, Locals
<1>t. /\ pc \in [Procs -> Labels]
  BY Parts DEF TypeInv
<1>u. /\ UNCHANGED <<sem_pending, complex_count, tasks, state, deleted, sops, semid, sma, undo, status,
                     outcome, idr, list_id, ref>>
  BY DEF freeary_putref, args, arrayv, lists, queue, scanv, ulpv
<1>g. pc[p] \in {"put"}
  BY DEF freeary_putref
<1>e. /\ pc'[p] \notin QueuePcs
      /\ \A q \in Procs : q # p => pc'[q] = pc[q]
  BY <1>t, Kinds, <1>g DEF freeary_putref, Return, Goto, args, arrayv, lists, queue, scanv, ulpv,
    QueuePcs
<1>x. sig' \subseteq sig /\ DOMAIN res' = DOMAIN res
  BY DEF freeary_putref, Return, Goto, args, arrayv, lists, queue, scanv, ulpv
<1>m. \A b \in Arrays : mem[b] = "live" /\ ~deleted[b] => mem'[b] = "live"
  <2>1. deleted[a]
    BY Parts, <1>p, <1>a, Locals DEF GoneSets
  <2>2. \A b \in Arrays : b # a => mem'[b] = mem[b]
    BY Parts, <1>a DEF freeary_putref, Putref, TypeInv
  <2> QED BY <2>1, <2>2
<1>f. \A b \in Arrays : Freeing(b) => Freeing(b)'
  BY <1>u, Kinds, <1>g, <1>e DEF Freeing
<1>h. /\ p \in Procs => pc[p] \notin QueuePcs /\ pc'[p] \notin QueuePcs /\ ref'[p] >= 0
      /\ \A q \in Procs : q # p =>
           /\ pc'[q] = pc[q] /\ sops'[q] = sops[q] /\ semid'[q] = semid[q] /\ sma'[q] = sma[q]
           /\ undo'[q] = undo[q] /\ status'[q] = status[q] /\ outcome'[q] = outcome[q]
           /\ ref'[q] = ref[q]
  BY <1>u, Kinds, <1>g, <1>e, <1>q DEF QueuePcs, LoadedNat
<1> QED BY Parts, <1>u, <1>h, <1>u, <1>x, <1>m, <1>f, QFrame

(* exit_sem() reads the id of the next structure.                          *)
LEMMA QInv_exit_read ==
    ASSUME IInv, QInv, NEW p \in Procs, exit_read(p)
    PROVE  QInv'
<1>q. LoadedNat /\ WakeupHitsLiveQueue /\ PendingSleeps /\ PendingHere /\ SetsStay /\ NobodyEarly
  BY QParts
<1>t. /\ pc \in [Procs -> Labels] /\ semid \in [Procs -> Ids]
      /\ undo \in [Procs -> [list : Tasks \cup {NoProc}, set : Arrays \cup {NoArr}]]
  BY Parts DEF TypeInv
<1>u. /\ UNCHANGED <<sem_pending, complex_count, tasks, state, deleted, sig, sops, sma, status,
                     outcome, mem, idr, list_id, ref, res>>
  BY DEF exit_read, arrayv, life, lists, ns, queue, scanv, sched, ulpv
<1>g. pc[p] \in {"xread"}
  BY DEF exit_read
<1>e. /\ pc'[p] \notin QueuePcs
      /\ \A q \in Procs : q # p => pc'[q] = pc[q]
  BY <1>t, Kinds, <1>g DEF exit_read, Goto, arrayv, life, lists, ns, queue, scanv, sched, ulpv,
    QueuePcs
<1>o. /\ \A q \in Procs : q # p => semid'[q] = semid[q]
      /\ \A q \in Procs : q # p => undo'[q] = undo[q]
  BY <1>t, Kinds DEF exit_read, Goto, arrayv, life, lists, ns, queue, scanv, sched, ulpv
<1>f. \A b \in Arrays : Freeing(b) => Freeing(b)'
  BY <1>u, Kinds, <1>g, <1>e, <1>o DEF Freeing
<1>h. /\ p \in Procs => pc[p] \notin QueuePcs /\ pc'[p] \notin QueuePcs /\ ref'[p] >= 0
      /\ \A q \in Procs : q # p =>
           /\ pc'[q] = pc[q] /\ sops'[q] = sops[q] /\ semid'[q] = semid[q] /\ sma'[q] = sma[q]
           /\ undo'[q] = undo[q] /\ status'[q] = status[q] /\ outcome'[q] = outcome[q]
           /\ ref'[q] = ref[q]
  BY <1>u, Kinds, <1>g, <1>e, <1>o, <1>q DEF QueuePcs, LoadedNat
<1> QED BY Parts, <1>u, <1>h, <1>u, <1>f, QFrame

(* exit_sem() has worked its list off.                                     *)
LEMMA QInv_exit_done ==
    ASSUME IInv, QInv, NEW p \in Procs, exit_done(p)
    PROVE  QInv'
<1>q. LoadedNat /\ WakeupHitsLiveQueue /\ PendingSleeps /\ PendingHere /\ SetsStay /\ NobodyEarly
  BY QParts
<1>t. /\ pc \in [Procs -> Labels]
  BY Parts DEF TypeInv
<1>u. /\ UNCHANGED <<sem_pending, complex_count, tasks, state, deleted, sig, sops, semid, sma, undo,
                     status, outcome, mem, idr, list_id, ref, res>>
  BY DEF exit_done, args, arrayv, life, lists, ns, queue, scanv, sched
<1>g. pc[p] \in {"xread"}
  BY DEF exit_done
<1>e. /\ pc'[p] \notin QueuePcs
      /\ \A q \in Procs : q # p => pc'[q] = pc[q]
  BY <1>t, Kinds, <1>g DEF exit_done, Goto, args, arrayv, life, lists, ns, queue, scanv, sched,
    QueuePcs
<1>f. \A b \in Arrays : Freeing(b) => Freeing(b)'
  BY <1>u, Kinds, <1>g, <1>e DEF Freeing
<1>h. /\ p \in Procs => pc[p] \notin QueuePcs /\ pc'[p] \notin QueuePcs /\ ref'[p] >= 0
      /\ \A q \in Procs : q # p =>
           /\ pc'[q] = pc[q] /\ sops'[q] = sops[q] /\ semid'[q] = semid[q] /\ sma'[q] = sma[q]
           /\ undo'[q] = undo[q] /\ status'[q] = status[q] /\ outcome'[q] = outcome[q]
           /\ ref'[q] = ref[q]
  BY <1>u, Kinds, <1>g, <1>e, <1>q DEF QueuePcs, LoadedNat
<1> QED BY Parts, <1>u, <1>h, <1>u, <1>f, QFrame

(* exit_sem() locked a set whose structure was invalidated.                *)
LEMMA QInv_exit_reread ==
    ASSUME IInv, QInv, NEW p \in Procs, exit_reread(p)
    PROVE  QInv'
<1>q. LoadedNat /\ WakeupHitsLiveQueue /\ PendingSleeps /\ PendingHere /\ SetsStay /\ NobodyEarly
  BY QParts
<1>t. /\ pc \in [Procs -> Labels]
  BY Parts DEF TypeInv
<1>u. /\ UNCHANGED <<sem_pending, complex_count, tasks, state, deleted, sig, sops, semid, sma, undo,
                     status, outcome, mem, idr, list_id, ref, res>>
  BY DEF exit_reread, args, arrayv, life, lists, ns, queue, scanv, sched, ulpv
<1>g. pc[p] \in {"xfind"}
  BY DEF exit_reread
<1>e. /\ pc'[p] \notin QueuePcs
      /\ \A q \in Procs : q # p => pc'[q] = pc[q]
  BY <1>t, Kinds, <1>g DEF exit_reread, Goto, args, arrayv, life, lists, ns, queue, scanv, sched,
    ulpv, QueuePcs
<1>f. \A b \in Arrays : Freeing(b) => Freeing(b)'
  BY <1>u, Kinds, <1>g, <1>e DEF Freeing
<1>h. /\ p \in Procs => pc[p] \notin QueuePcs /\ pc'[p] \notin QueuePcs /\ ref'[p] >= 0
      /\ \A q \in Procs : q # p =>
           /\ pc'[q] = pc[q] /\ sops'[q] = sops[q] /\ semid'[q] = semid[q] /\ sma'[q] = sma[q]
           /\ undo'[q] = undo[q] /\ status'[q] = status[q] /\ outcome'[q] = outcome[q]
           /\ ref'[q] = ref[q]
  BY <1>u, Kinds, <1>g, <1>e, <1>q DEF QueuePcs, LoadedNat
<1> QED BY Parts, <1>u, <1>h, <1>u, <1>f, QFrame

(* exit_sem() finds that freeary() came first.                             *)
LEMMA QInv_exit_raced ==
    ASSUME IInv, QInv, NEW p \in Procs, exit_raced(p)
    PROVE  QInv'
<1>q. LoadedNat /\ WakeupHitsLiveQueue /\ PendingSleeps /\ PendingHere /\ SetsStay /\ NobodyEarly
  BY QParts
<1>t. /\ pc \in [Procs -> Labels]
  BY Parts DEF TypeInv
<1>u. /\ UNCHANGED <<sem_pending, complex_count, tasks, state, deleted, sig, sops, semid, sma, undo,
                     status, outcome, mem, idr, list_id, ref, res>>
  BY DEF exit_raced, args, arrayv, lists, ns, queue, scanv, sched, ulpv
<1>g. pc[p] \in {"xlock"}
  BY DEF exit_raced, Found
<1>e. /\ pc'[p] \notin QueuePcs
      /\ \A q \in Procs : q # p => pc'[q] = pc[q]
  BY <1>t, Kinds, <1>g DEF exit_raced, Goto, args, arrayv, lists, ns, queue, scanv, sched, ulpv,
    QueuePcs
<1>f. \A b \in Arrays : Freeing(b) => Freeing(b)'
  BY <1>u, Kinds, <1>g, <1>e DEF Freeing
<1>h. /\ p \in Procs => pc[p] \notin QueuePcs /\ pc'[p] \notin QueuePcs /\ ref'[p] >= 0
      /\ \A q \in Procs : q # p =>
           /\ pc'[q] = pc[q] /\ sops'[q] = sops[q] /\ semid'[q] = semid[q] /\ sma'[q] = sma[q]
           /\ undo'[q] = undo[q] /\ status'[q] = status[q] /\ outcome'[q] = outcome[q]
           /\ ref'[q] = ref[q]
  BY <1>u, Kinds, <1>g, <1>e, <1>q DEF QueuePcs, LoadedNat
<1> QED BY Parts, <1>u, <1>h, <1>u, <1>f, QFrame

(* exit_sem() unlinks the structure and adjusts the values.                *)
LEMMA QInv_exit_adjust ==
    ASSUME IInv, QInv, NEW p \in Procs, exit_adjust(p)
    PROVE  QInv'
<1>q. LoadedNat /\ WakeupHitsLiveQueue /\ PendingSleeps /\ PendingHere /\ SetsStay /\ NobodyEarly
  BY QParts
<1>t. /\ pc \in [Procs -> Labels]
      /\ undo \in [Procs -> [list : Tasks \cup {NoProc}, set : Arrays \cup {NoArr}]]
  BY Parts DEF TypeInv
<1>u. /\ UNCHANGED <<sem_pending, complex_count, tasks, state, deleted, sig, sops, semid, sma, status,
                     outcome, mem, idr, ref, res>>
  BY DEF exit_adjust, args, life, ns, queue, sched, ulpv
<1>g. pc[p] \in {"xlock"}
  BY DEF exit_adjust, Found
<1>e. /\ pc'[p] \notin QueuePcs
      /\ \A q \in Procs : q # p => pc'[q] = pc[q]
  BY <1>t, Kinds, <1>g DEF exit_adjust, Goto, args, life, ns, queue, sched, ulpv, QueuePcs
<1>o. /\ \A q \in Procs : q # p => undo'[q] = undo[q]
  BY <1>t, Kinds DEF exit_adjust, Goto, args, life, ns, queue, sched, ulpv
<1>l. \A b \in Arrays, q \in Tasks :
        q \in Pending(b) /\ undo[q].set # NoArr /\ undo[q].list \in list_id[b] =>
          undo[q].list \in list_id'[b] \/ Freeing(b)'
  <2>1. p \in Tasks /\ cmd[p] = "EXIT" /\ pc[p] # "dead"
    BY Parts, <1>g, Locals
  <2>2. Users(undo[p].list) = {}
    BY Parts, <2>1 DEF ExitList
  <2>3. \A q \in Tasks : pc[q] \in QueuePcs /\ undo[q].set # NoArr => undo[q].list # undo[p].list
    BY Parts, Kinds, <2>2, Locals DEF OwnList, Users
  <2>4. \A b \in Arrays, v \in Tasks : v # undo[p].list /\ v \in list_id[b] => v \in list_id'[b]
    BY Parts DEF exit_adjust, TypeInv
  <2>5. \A b \in Arrays : list_id[b] \subseteq Tasks
    BY Parts DEF TypeInv
  <2> QED BY <1>q, <2>3, <2>4, <2>5 DEF PendingSleeps
<1>f. \A b \in Arrays : Freeing(b) => Freeing(b)'
  BY <1>u, Kinds, <1>g, <1>e, <1>o DEF Freeing
<1>h. /\ p \in Procs => pc[p] \notin QueuePcs /\ pc'[p] \notin QueuePcs /\ ref'[p] >= 0
      /\ \A q \in Procs : q # p =>
           /\ pc'[q] = pc[q] /\ sops'[q] = sops[q] /\ semid'[q] = semid[q] /\ sma'[q] = sma[q]
           /\ undo'[q] = undo[q] /\ status'[q] = status[q] /\ outcome'[q] = outcome[q]
           /\ ref'[q] = ref[q]
  BY <1>u, Kinds, <1>g, <1>e, <1>o, <1>q DEF QueuePcs, LoadedNat
<1> QED BY Parts, <1>u, <1>h, <1>u, <1>l, <1>f, QFrame

(* newary().                                                               *)
LEMMA QInv_newary ==
    ASSUME IInv, QInv, NEW p \in Ctls, newary(p)
    PROVE  QInv'
<1>q. LoadedNat /\ WakeupHitsLiveQueue /\ PendingSleeps /\ PendingHere /\ SetsStay /\ NobodyEarly
  BY QParts
<1>u. /\ UNCHANGED <<sem_pending, complex_count, tasks, state, deleted, sig, pc, sops, semid, sma,
                     undo, status, outcome, list_id, ref, res>>
  BY DEF newary, args, arrayv, lists, queue, scanv, sched, ulpv
<1>g. pc[p] \in {"idle"}
  BY DEF newary
<1>m. \A b \in Arrays : mem[b] = "live" /\ ~deleted[b] => mem'[b] = "live"
  BY Parts DEF newary, TypeInv
<1>s. \A s \in Slots : idr[s] # NoArr => idr'[s] # NoArr
  BY Parts, Kinds DEF newary, TypeInv
<1>f. \A b \in Arrays : Freeing(b) => Freeing(b)'
  BY <1>u, Kinds, <1>g DEF Freeing
<1>h. /\ p \in Procs => pc[p] \notin QueuePcs /\ pc'[p] \notin QueuePcs /\ ref'[p] >= 0
      /\ \A q \in Procs : q # p =>
           /\ pc'[q] = pc[q] /\ sops'[q] = sops[q] /\ semid'[q] = semid[q] /\ sma'[q] = sma[q]
           /\ undo'[q] = undo[q] /\ status'[q] = status[q] /\ outcome'[q] = outcome[q]
           /\ ref'[q] = ref[q]
  BY <1>u, Kinds, <1>g, <1>q DEF QueuePcs, LoadedNat
<1> QED BY Parts, <1>u, <1>h, <1>u, <1>m, <1>s, <1>f, QFrame

(* semctl() is called.                                                     *)
LEMMA QInv_semctl ==
    ASSUME IInv, QInv, NEW p \in Ctls, semctl(p)
    PROVE  QInv'
<1>q. LoadedNat /\ WakeupHitsLiveQueue /\ PendingSleeps /\ PendingHere /\ SetsStay /\ NobodyEarly
  BY QParts
<1>t. /\ pc \in [Procs -> Labels] /\ semid \in [Procs -> Ids]
  BY Parts DEF TypeInv
<1>u. /\ UNCHANGED <<sem_pending, complex_count, tasks, state, deleted, sig, sops, sma, undo, status,
                     outcome, mem, idr, list_id, ref, res>>
  BY DEF semctl, arrayv, life, lists, queue, scanv, sched, ulpv
<1>g. pc[p] \in {"idle"}
  BY DEF semctl
<1>e. /\ pc'[p] \notin QueuePcs
      /\ \A q \in Procs : q # p => pc'[q] = pc[q]
  BY <1>t, Kinds, <1>g DEF semctl, Goto, arrayv, life, lists, queue, scanv, sched, ulpv, QueuePcs
<1>o. /\ \A q \in Procs : q # p => semid'[q] = semid[q]
  BY <1>t, Kinds DEF semctl, Goto, arrayv, life, lists, queue, scanv, sched, ulpv
<1>f. \A b \in Arrays : Freeing(b) => Freeing(b)'
  BY <1>u, Kinds, <1>g, <1>e, <1>o DEF Freeing
<1>h. /\ p \in Procs => pc[p] \notin QueuePcs /\ pc'[p] \notin QueuePcs /\ ref'[p] >= 0
      /\ \A q \in Procs : q # p =>
           /\ pc'[q] = pc[q] /\ sops'[q] = sops[q] /\ semid'[q] = semid[q] /\ sma'[q] = sma[q]
           /\ undo'[q] = undo[q] /\ status'[q] = status[q] /\ outcome'[q] = outcome[q]
           /\ ref'[q] = ref[q]
  BY <1>u, Kinds, <1>g, <1>e, <1>o, <1>q DEF QueuePcs, LoadedNat
<1> QED BY Parts, <1>u, <1>h, <1>u, <1>f, QFrame

(* semtimedop() is called.                                                 *)
LEMMA QInv_semop ==
    ASSUME IInv, QInv, NEW p \in Tasks, semop(p)
    PROVE  QInv'
<1>q. LoadedNat /\ WakeupHitsLiveQueue /\ PendingSleeps /\ PendingHere /\ SetsStay /\ NobodyEarly
  BY QParts
<1>t. /\ pc \in [Procs -> Labels] /\ sops \in [Procs -> SopSeqs \cup {<<>>}]
      /\ semid \in [Procs -> Ids]
  BY Parts DEF TypeInv
<1>u. /\ UNCHANGED <<sem_pending, complex_count, tasks, state, deleted, sig, sma, undo, status,
                     outcome, mem, idr, list_id, ref, res>>
  BY DEF semop, arrayv, life, lists, ns, queue, scanv, sched, ulpv
<1>g. pc[p] \in {"idle"}
  BY DEF semop
<1>e. /\ pc'[p] \notin QueuePcs
      /\ \A q \in Procs : q # p => pc'[q] = pc[q]
  BY <1>t, Kinds, <1>g DEF semop, Goto, arrayv, life, lists, ns, queue, scanv, sched, ulpv,
    QueuePcs
<1>o. /\ \A q \in Procs : q # p => sops'[q] = sops[q]
      /\ \A q \in Procs : q # p => semid'[q] = semid[q]
  BY <1>t, Kinds DEF semop, Goto, arrayv, life, lists, ns, queue, scanv, sched, ulpv
<1>f. \A b \in Arrays : Freeing(b) => Freeing(b)'
  BY <1>u, Kinds, <1>g, <1>e, <1>o DEF Freeing
<1>h. /\ p \in Procs => pc[p] \notin QueuePcs /\ pc'[p] \notin QueuePcs /\ ref'[p] >= 0
      /\ \A q \in Procs : q # p =>
           /\ pc'[q] = pc[q] /\ sops'[q] = sops[q] /\ semid'[q] = semid[q] /\ sma'[q] = sma[q]
           /\ undo'[q] = undo[q] /\ status'[q] = status[q] /\ outcome'[q] = outcome[q]
           /\ ref'[q] = ref[q]
  BY <1>u, Kinds, <1>g, <1>e, <1>o, <1>q DEF QueuePcs, LoadedNat
<1> QED BY Parts, <1>u, <1>h, <1>u, <1>f, QFrame

(* do_exit() calls exit_sem().                                             *)
LEMMA QInv_exit_sem ==
    ASSUME IInv, QInv, NEW p \in Tasks, exit_sem(p)
    PROVE  QInv'
<1>q. LoadedNat /\ WakeupHitsLiveQueue /\ PendingSleeps /\ PendingHere /\ SetsStay /\ NobodyEarly
  BY QParts
<1>t. /\ pc \in [Procs -> Labels] /\ sops \in [Procs -> SopSeqs \cup {<<>>}]
      /\ undo \in [Procs -> [list : Tasks \cup {NoProc}, set : Arrays \cup {NoArr}]]
  BY Parts DEF TypeInv
<1>u. /\ UNCHANGED <<sem_pending, complex_count, tasks, state, deleted, sig, semid, sma, status,
                     outcome, mem, idr, list_id, ref, res>>
  BY DEF exit_sem, arrayv, life, lists, ns, queue, scanv, sched
<1>g. pc[p] \in {"idle"}
  BY DEF exit_sem
<1>e. /\ pc'[p] \notin QueuePcs
      /\ \A q \in Procs : q # p => pc'[q] = pc[q]
  BY <1>t, Kinds, <1>g DEF exit_sem, Goto, arrayv, life, lists, ns, queue, scanv, sched, QueuePcs
<1>o. /\ \A q \in Procs : q # p => sops'[q] = sops[q]
      /\ \A q \in Procs : q # p => undo'[q] = undo[q]
  BY <1>t, Kinds DEF exit_sem, Goto, arrayv, life, lists, ns, queue, scanv, sched
<1>f. \A b \in Arrays : Freeing(b) => Freeing(b)'
  BY <1>u, Kinds, <1>g, <1>e, <1>o DEF Freeing
<1>h. /\ p \in Procs => pc[p] \notin QueuePcs /\ pc'[p] \notin QueuePcs /\ ref'[p] >= 0
      /\ \A q \in Procs : q # p =>
           /\ pc'[q] = pc[q] /\ sops'[q] = sops[q] /\ semid'[q] = semid[q] /\ sma'[q] = sma[q]
           /\ undo'[q] = undo[q] /\ status'[q] = status[q] /\ outcome'[q] = outcome[q]
           /\ ref'[q] = ref[q]
  BY <1>u, Kinds, <1>g, <1>e, <1>o, <1>q DEF QueuePcs, LoadedNat
<1> QED BY Parts, <1>u, <1>h, <1>u, <1>f, QFrame

(* clone(): the child starts with the undo list of the parent, or none.    *)
LEMMA QInv_copy_semundo ==
    ASSUME IInv, QInv, NEW p \in Tasks, NEW c \in Children, copy_semundo(p, c)
    PROVE  QInv'
<1>q. LoadedNat /\ WakeupHitsLiveQueue /\ PendingSleeps /\ PendingHere /\ SetsStay /\ NobodyEarly
  BY QParts
<1>t. /\ pc \in [Procs -> Labels]
  BY Parts DEF TypeInv
<1>u. /\ UNCHANGED <<sem_pending, complex_count, tasks, state, deleted, sig, sops, semid, sma, undo,
                     status, outcome, mem, idr, list_id, ref, res>>
  BY DEF copy_semundo, args, arrayv, life, lists, ns, queue, scanv, sched
<1>g. pc[c] \in {"unborn"}
  BY DEF copy_semundo
<1>e. /\ pc'[c] \notin QueuePcs
      /\ \A q \in Procs : q # c => pc'[q] = pc[q]
  BY <1>t, Kinds, <1>g DEF copy_semundo, Goto, args, arrayv, life, lists, ns, queue, scanv, sched,
    QueuePcs
<1>f. \A b \in Arrays : Freeing(b) => Freeing(b)'
  BY <1>u, Kinds, <1>g, <1>e DEF Freeing
<1>h. /\ c \in Procs => pc[c] \notin QueuePcs /\ pc'[c] \notin QueuePcs /\ ref'[c] >= 0
      /\ \A q \in Procs : q # c =>
           /\ pc'[q] = pc[q] /\ sops'[q] = sops[q] /\ semid'[q] = semid[q] /\ sma'[q] = sma[q]
           /\ undo'[q] = undo[q] /\ status'[q] = status[q] /\ outcome'[q] = outcome[q]
           /\ ref'[q] = ref[q]
  BY <1>u, Kinds, <1>g, <1>e, <1>q DEF QueuePcs, LoadedNat
<1> QED BY Parts, <1>u, <1>h, <1>u, <1>f, QFrame

(* free_un(), the RCU callback of an undo structure.                       *)
LEMMA QInv_free_un ==
    ASSUME IInv, QInv, NEW u \in Tasks, NEW a \in Arrays, free_un(u, a)
    PROVE  QInv'
<1>q. LoadedNat /\ WakeupHitsLiveQueue /\ PendingSleeps /\ PendingHere /\ SetsStay /\ NobodyEarly
  BY QParts
<1>u. /\ UNCHANGED <<sem_pending, complex_count, tasks, state, deleted, sig, pc, sops, semid, sma,
                     undo, status, outcome, mem, idr, list_id, ref, res>>
  BY DEF free_un, args, arrayv, life, lists, ns, queue, scanv, sched, ulpv
<1>f. \A b \in Arrays : Freeing(b) => Freeing(b)'
  BY <1>u, Kinds DEF Freeing
<1>h. /\ NoProc \in Procs => pc[NoProc] \notin QueuePcs /\ pc'[NoProc] \notin QueuePcs /\ ref'[NoProc] >= 0
      /\ \A q \in Procs : q # NoProc =>
           /\ pc'[q] = pc[q] /\ sops'[q] = sops[q] /\ semid'[q] = semid[q] /\ sma'[q] = sma[q]
           /\ undo'[q] = undo[q] /\ status'[q] = status[q] /\ outcome'[q] = outcome[q]
           /\ ref'[q] = ref[q]
  BY <1>u, Kinds, <1>q DEF QueuePcs, LoadedNat
<1> QED BY Parts, <1>u, <1>h, <1>u, <1>f, QFrame

(* ipc_immediate_free(), the RCU callback of a set.                        *)
LEMMA QInv_ipc_immediate_free ==
    ASSUME IInv, QInv, NEW a \in Arrays, ipc_immediate_free(a)
    PROVE  QInv'
<1>q. LoadedNat /\ WakeupHitsLiveQueue /\ PendingSleeps /\ PendingHere /\ SetsStay /\ NobodyEarly
  BY QParts
<1>u. /\ UNCHANGED <<sem_pending, complex_count, tasks, state, deleted, sig, pc, sops, semid, sma,
                     undo, status, outcome, idr, list_id, ref, res>>
  BY DEF ipc_immediate_free, args, arrayv, lists, ns, queue, scanv, sched, ulpv
<1>m. \A b \in Arrays : mem[b] = "live" /\ ~deleted[b] => mem'[b] = "live"
  BY Parts DEF ipc_immediate_free, TypeInv
<1>f. \A b \in Arrays : Freeing(b) => Freeing(b)'
  BY <1>u, Kinds DEF Freeing
<1>h. /\ NoProc \in Procs => pc[NoProc] \notin QueuePcs /\ pc'[NoProc] \notin QueuePcs /\ ref'[NoProc] >= 0
      /\ \A q \in Procs : q # NoProc =>
           /\ pc'[q] = pc[q] /\ sops'[q] = sops[q] /\ semid'[q] = semid[q] /\ sma'[q] = sma[q]
           /\ undo'[q] = undo[q] /\ status'[q] = status[q] /\ outcome'[q] = outcome[q]
           /\ ref'[q] = ref[q]
  BY <1>u, Kinds, <1>q DEF QueuePcs, LoadedNat
<1> QED BY Parts, <1>u, <1>h, <1>u, <1>m, <1>f, QFrame

(* ipc_lock(), the lookup under RCU.                                       *)
LEMMA QInv_ipc_find ==
    ASSUME IInv, QInv, NEW p \in Procs, ipc_find(p)
    PROVE  QInv'
<1>i. TypeInv /\ CallInv /\ InTable
  BY Parts
<1>q. PendingHere /\ NobodyEarly /\ LoadedNat
  BY QParts
<1>t. /\ pc \in [Procs -> Labels] /\ sma \in [Procs -> Arrays \cup {NoArr}]
  BY <1>i DEF TypeInv
<1>g. pc[p] \in {"find", "ufind", "rfind", "cfind", "xfind"}
  BY LockLabels DEF ipc_find
<1>b. /\ pc[p] = "rfind" => pc'[p] = "relock"
      /\ pc[p] # "rfind" => pc'[p] \in {"lock", "ulock", "clock", "xlock"}
      /\ sma'[p] = idr[semid[p][1]]
  BY <1>t, <1>g, LockLabels DEF ipc_find, Goto
<1>e. \A q \in Procs : q # p => pc'[q] = pc[q] /\ sma'[q] = sma[q]
  BY <1>t DEF ipc_find, Goto
<1>u. /\ UNCHANGED <<sem_pending, complex_count, tasks, state, deleted, mem, idr, list_id, sops, sig,
                     semid, undo, status, outcome, ref, res>>
  BY DEF ipc_find, arrayv, life, ns, lists, args, queue, sched, scanv
<1>f. \A a \in Arrays : Freeing(a) => Freeing(a)'
  BY <1>g, <1>e, Consts DEF Freeing
<1>1. CASE pc[p] # "rfind"
  <2>1. pc[p] \notin QueuePcs /\ pc'[p] \notin QueuePcs /\ ref'[p] >= 0
    BY <1>1, <1>g, <1>b, <1>u, <1>q DEF QueuePcs, LoadedNat
  <2>2. \A q \in Procs : q # p =>
              /\ pc'[q] = pc[q] /\ sops'[q] = sops[q] /\ semid'[q] = semid[q] /\ sma'[q] = sma[q]
              /\ undo'[q] = undo[q] /\ status'[q] = status[q] /\ outcome'[q] = outcome[q]
              /\ ref'[q] = ref[q]
    BY <1>e, <1>u
  <2> QED BY <1>i, <1>u, <1>f, <2>1, <2>2, QFrame
<1>2. CASE pc[p] = "rfind"
  <2>1. \A a \in Arrays : p \in Pending(a) => sma'[p] = a
    BY <1>i, <1>q, <1>b DEF PendingHere, InTable
  <2>2. NobodyEarly'
    <3>1. Signalled \cup Timed # {}
        BY <1>q, <1>2 DEF NobodyEarly
    <3> QED BY <3>1 DEF NobodyEarly
  <2>3. \A q \in Procs :
              /\ pc'[q] \in QueuePcs <=> pc[q] \in QueuePcs
              /\ pc'[q] \in {"fundo", "funlink"} <=> pc[q] \in {"fundo", "funlink"}
              /\ pc[q] \in {"fundo", "funlink"} => sma'[q] = sma[q]
              /\ pc'[q] \in {"relock", "recheck"} => \A a \in Arrays : q \in Pending(a) => sma'[q] = a
    <3>1. \A q \in Procs : pc[q] \in {"relock", "recheck"} => \A a \in Arrays : q \in Pending(a) => sma[q] = a
        BY <1>q DEF PendingHere
    <3> QED BY <1>2, <1>b, <1>e, <2>1, <3>1 DEF QueuePcs
  <2> QED BY <1>i, <1>u, <2>2, <2>3, QMove
<1> QED BY <1>1, <1>2

(* schedule() returns.                                                     *)
LEMMA QInv_semop_wake ==
    ASSUME IInv, QInv, NEW p \in Procs, semop_wake(p)
    PROVE  QInv'
<1>i. TypeInv /\ CallInv
  BY Parts
<1>q. PendingHere /\ NobodyEarly
  BY QParts
<1>e. /\ pc[p] = "sleep" /\ pc'[p] = "result" /\ \A q \in Procs : q # p => pc'[q] = pc[q] /\ state'[q] = state[q]
  BY <1>i DEF semop_wake, Goto, TypeInv
<1>u. /\ UNCHANGED <<sem_pending, complex_count, tasks, sma, deleted, mem, idr, list_id, sops, sig,
                     semid, undo, status, outcome, ref, res>>
  BY DEF semop_wake, arrayv, life, ns, lists, args, queue, scanv
<1>1. NobodyEarly'
  <2> SUFFICES ASSUME Signalled \cup Timed = {}
               PROVE  /\ sig' = {}
                      /\ \A q \in Procs : /\ pc'[q] \notin {"rfind", "relock", "recheck"}
                                          /\ pc'[q] = "result" \/ (pc'[q] = "sleep" /\ state'[q] = "RUN") => status'[q] # "EINTR"
    BY DEF NobodyEarly
  <2>1. /\ sig = {}
        /\ \A q \in Procs : /\ pc[q] \notin {"rfind", "relock", "recheck"}
                            /\ pc[q] = "result" \/ (pc[q] = "sleep" /\ state[q] = "RUN") => status[q] # "EINTR"
    BY <1>q DEF NobodyEarly
  <2>2. state[p] = "RUN"
    BY <2>1 DEF semop_wake
  <2> QED BY <1>e, <1>u, <2>1, <2>2
<1>2. \A q \in Procs :
            /\ pc'[q] \in QueuePcs <=> pc[q] \in QueuePcs
            /\ pc'[q] \in {"fundo", "funlink"} <=> pc[q] \in {"fundo", "funlink"}
            /\ pc[q] \in {"fundo", "funlink"} => sma'[q] = sma[q]
            /\ pc'[q] \in {"relock", "recheck"} => \A a \in Arrays : q \in Pending(a) => sma'[q] = a
  <2>1. \A q \in Procs : pc[q] \in {"relock", "recheck"} => \A a \in Arrays : q \in Pending(a) => sma[q] = a
    BY <1>q DEF PendingHere
  <2> QED BY <1>e, <1>u, <2>1 DEF QueuePcs
<1> QED BY <1>i, <1>u, <1>1, <1>2, QMove

(* The task has the lock again.                                            *)
LEMMA QInv_semop_relock ==
    ASSUME IInv, QInv, NEW p \in Procs, semop_relock(p)
    PROVE  QInv'
<1>i. TypeInv /\ CallInv
  BY Parts
<1>q. PendingHere /\ NobodyEarly
  BY QParts
<1>e. /\ pc[p] = "relock" /\ pc'[p] = "recheck" /\ \A q \in Procs : q # p => pc'[q] = pc[q]
  BY <1>i DEF semop_relock, Found, Goto, TypeInv
<1>u. /\ UNCHANGED <<sem_pending, complex_count, tasks, sma, deleted, mem, idr, list_id, sops, semid,
                     undo, status, outcome, ref, res>>
  BY DEF semop_relock, arrayv, life, ns, lists, args, queue, scanv
<1>1. NobodyEarly'
  <2>1. Signalled \cup Timed # {}
    BY <1>q, <1>e DEF NobodyEarly
  <2> QED BY <2>1 DEF NobodyEarly
<1>2. \A q \in Procs :
            /\ pc'[q] \in QueuePcs <=> pc[q] \in QueuePcs
            /\ pc'[q] \in {"fundo", "funlink"} <=> pc[q] \in {"fundo", "funlink"}
            /\ pc[q] \in {"fundo", "funlink"} => sma'[q] = sma[q]
            /\ pc'[q] \in {"relock", "recheck"} => \A a \in Arrays : q \in Pending(a) => sma'[q] = a
  <2>1. \A q \in Procs : pc[q] \in {"relock", "recheck"} => \A a \in Arrays : q \in Pending(a) => sma[q] = a
    BY <1>q DEF PendingHere
  <2> QED BY <1>e, <1>u, <2>1 DEF QueuePcs
<1> QED BY <1>i, <1>u, <1>1, <1>2, QMove

(* A signal arrives.                                                       *)
LEMMA QInv_Signal ==
    ASSUME IInv, QInv, NEW p \in Tasks, Signal(p)
    PROVE  QInv'
<1>i. TypeInv /\ CallInv
  BY Parts
<1>q. PendingHere
  BY QParts
<1>u. /\ UNCHANGED <<sem_pending, complex_count, tasks, sma, pc, deleted, mem, idr, list_id, sops,
                     semid, undo, status, outcome, ref, res>>
  BY DEF Signal, arrayv, life, ns, lists, args, queue, scanv
<1>1. NobodyEarly'
  <2>1. Signalled \cup Timed # {}
    BY DEF Signal
  <2> QED BY <2>1 DEF NobodyEarly
<1>2. \A q \in Procs : pc[q] \in {"relock", "recheck"} => \A a \in Arrays : q \in Pending(a) => sma[q] = a
  BY <1>q DEF PendingHere
<1> QED BY <1>i, <1>u, <1>1, <1>2, QMove

(* wake_up_process().                                                      *)
LEMMA QInv_wake_next ==
    ASSUME IInv, QInv, NEW p \in Procs, wake_next(p)
    PROVE  QInv'
<1>i. TypeInv /\ CallInv
  BY Parts
<1>q. PendingHere /\ NobodyEarly /\ WakeupHitsLiveQueue
  BY QParts
<1>e. /\ pc[p] = "wake" /\ pc'[p] = "set" /\ \A q \in Procs : q # p => pc'[q] = pc[q]
  BY <1>i DEF wake_next, Goto, TypeInv
<1>u. /\ UNCHANGED <<sem_pending, complex_count, tasks, sma, deleted, mem, idr, list_id, sops, sig,
                     semid, undo, status, outcome, ref, res>>
  BY DEF wake_next, arrayv, life, ns, lists, args, queue, scanv
<1>x. PICK x : x = Head(tasks[p])
  OBVIOUS
<1>y. x \in Tasks /\ status[x] = "IN_WAKEUP"
  <2>1. tasks[p] \in Seq(Tasks) /\ tasks[p] # <<>>
    BY <1>i DEF wake_next, TypeInv
  <2>2. x \in Tasks /\ x \in ToSet(tasks[p])
    BY <1>x, <2>1 DEF ToSet
  <2> QED BY <1>q, <2>2 DEF WakeupHitsLiveQueue
<1>s. \A q \in Procs : q # x => state'[q] = state[q]
  BY <1>i, <1>x DEF wake_next, Woken, TypeInv
<1>1. NobodyEarly'
  <2> SUFFICES ASSUME Signalled \cup Timed = {}
               PROVE  /\ sig' = {}
                      /\ \A q \in Procs : /\ pc'[q] \notin {"rfind", "relock", "recheck"}
                                          /\ pc'[q] = "result" \/ (pc'[q] = "sleep" /\ state'[q] = "RUN") => status'[q] # "EINTR"
    BY DEF NobodyEarly
  <2>1. /\ sig = {}
        /\ \A q \in Procs : /\ pc[q] \notin {"rfind", "relock", "recheck"}
                            /\ pc[q] = "result" \/ (pc[q] = "sleep" /\ state[q] = "RUN") => status[q] # "EINTR"
    BY <1>q DEF NobodyEarly
  <2> QED BY <1>e, <1>u, <1>y, <1>s, <2>1
<1>2. \A q \in Procs :
            /\ pc'[q] \in QueuePcs <=> pc[q] \in QueuePcs
            /\ pc'[q] \in {"fundo", "funlink"} <=> pc[q] \in {"fundo", "funlink"}
            /\ pc[q] \in {"fundo", "funlink"} => sma'[q] = sma[q]
            /\ pc'[q] \in {"relock", "recheck"} => \A a \in Arrays : q \in Pending(a) => sma'[q] = a
  <2>1. \A q \in Procs : pc[q] \in {"relock", "recheck"} => \A a \in Arrays : q \in Pending(a) => sma[q] = a
    BY <1>q DEF PendingHere
  <2> QED BY <1>e, <1>u, <2>1 DEF QueuePcs
<1> QED BY <1>i, <1>u, <1>1, <1>2, QMove

(* A task with a result is on no list.                                     *)
LEMMA Released ==
    ASSUME QInv, NEW p \in Procs, status[p] \notin {"EINTR", "IN_WAKEUP"}
    PROVE  (\A a \in Arrays : p \notin Pending(a)) /\ (\A r \in Procs : p \notin ToSet(tasks[r]))
    BY QParts DEF PendingSleeps, WakeupHitsLiveQueue

(* get_queue_result() without the lock.                                    *)
LEMMA QInv_semop_result ==
    ASSUME IInv, QInv, NEW p \in Procs, semop_result(p)
    PROVE  QInv'
<1>i. TypeInv /\ CallInv
  BY Parts
<1>q. PendingHere /\ NobodyEarly /\ LoadedNat
  BY QParts
<1>e. /\ pc[p] = "result" /\ \A q \in Procs : q # p => pc'[q] = pc[q]
  BY <1>i DEF semop_result, Goto, Return, TypeInv
<1>u. /\ UNCHANGED <<sem_pending, complex_count, tasks, sma, deleted, mem, idr, list_id, sops, state,
                     semid, undo, status, outcome, ref>>
  BY DEF semop_result, arrayv, life, ns, lists, args, queue, scanv
<1>f. \A a \in Arrays : Freeing(a) => Freeing(a)'
  BY <1>e, <1>u, Consts DEF Freeing
<1>1. CASE status[p] # "EINTR"
  <2>1. status[p] \notin {"EINTR", "IN_WAKEUP"}
    BY <1>1 DEF semop_result, get_queue_result
  <2>2. pc'[p] = "ret" /\ sig' \subseteq sig /\ DOMAIN res' = DOMAIN res
    BY <1>i, <1>1 DEF semop_result, Return, Goto, TypeInv
  <2>3. pc'[p] \notin QueuePcs /\ ref'[p] >= 0
    BY <1>u, <1>q, <2>2 DEF QueuePcs, LoadedNat
  <2>4. \A q \in Procs : q # p =>
              /\ pc'[q] = pc[q] /\ sops'[q] = sops[q] /\ semid'[q] = semid[q] /\ sma'[q] = sma[q]
              /\ undo'[q] = undo[q] /\ status'[q] = status[q] /\ outcome'[q] = outcome[q]
              /\ ref'[q] = ref[q]
    BY <1>e, <1>u
  <2>5. (\A a \in Arrays : p \notin Pending(a)) /\ (\A r \in Procs : p \notin ToSet(tasks[r]))
    BY <2>1, Released
  <2> QED BY <1>i, <1>u, <1>f, <2>2, <2>3, <2>4, <2>5, QApart
<1>2. CASE status[p] = "EINTR"
  <2>1. pc'[p] = "rfind" /\ res' = res
    BY <1>i, <1>2 DEF semop_result, Goto, TypeInv
  <2>2. NobodyEarly'
    <3>1. Signalled \cup Timed # {}
        BY <1>q, <1>e, <1>2 DEF NobodyEarly
    <3> QED BY <3>1 DEF NobodyEarly
  <2>3. \A q \in Procs :
              /\ pc'[q] \in QueuePcs <=> pc[q] \in QueuePcs
              /\ pc'[q] \in {"fundo", "funlink"} <=> pc[q] \in {"fundo", "funlink"}
              /\ pc[q] \in {"fundo", "funlink"} => sma'[q] = sma[q]
              /\ pc'[q] \in {"relock", "recheck"} => \A a \in Arrays : q \in Pending(a) => sma'[q] = a
    <3>1. \A q \in Procs : pc[q] \in {"relock", "recheck"} => \A a \in Arrays : q \in Pending(a) => sma[q] = a
        BY <1>q DEF PendingHere
    <3> QED BY <1>e, <1>u, <2>1, <3>1 DEF QueuePcs
  <2> QED BY <1>i, <1>u, <2>1, <2>2, <2>3, QMove
<1> QED BY <1>1, <1>2

(* The result has come before the lock.                                    *)
LEMMA QInv_semop_recheck_done ==
    ASSUME IInv, QInv, NEW p \in Procs, semop_recheck(p), status[p] # "EINTR"
    PROVE  QInv'
<1>i. TypeInv /\ CallInv
  BY Parts
<1>q. LoadedNat
  BY QParts
<1>e. /\ pc[p] = "recheck" /\ \A q \in Procs : q # p => pc'[q] = pc[q]
  BY <1>i DEF semop_recheck, Goto, Return, TypeInv
<1>u. /\ UNCHANGED <<sem_pending, complex_count, tasks, sma, deleted, mem, idr, list_id, sops, state,
                     semid, undo, status, outcome, ref>>
  BY DEF semop_recheck, arrayv, life, ns, lists, args, queue, scanv
<1>f. \A a \in Arrays : Freeing(a) => Freeing(a)'
  BY <1>e, <1>u, Consts DEF Freeing
<1>1. status[p] \notin {"EINTR", "IN_WAKEUP"}
  BY DEF semop_recheck, get_queue_result
<1>2. pc'[p] = "ret" /\ sig' \subseteq sig /\ DOMAIN res' = DOMAIN res
  BY <1>i DEF semop_recheck, Return, Goto, TypeInv
<1>3. pc'[p] \notin QueuePcs /\ ref'[p] >= 0
  BY <1>u, <1>q, <1>2 DEF QueuePcs, LoadedNat
<1>4. \A q \in Procs : q # p =>
            /\ pc'[q] = pc[q] /\ sops'[q] = sops[q] /\ semid'[q] = semid[q] /\ sma'[q] = sma[q]
            /\ undo'[q] = undo[q] /\ status'[q] = status[q] /\ outcome'[q] = outcome[q]
            /\ ref'[q] = ref[q]
  BY <1>e, <1>u
<1>5. (\A a \in Arrays : p \notin Pending(a)) /\ (\A r \in Procs : p \notin ToSet(tasks[r]))
  BY <1>1, Released
<1> QED BY <1>i, <1>u, <1>f, <1>2, <1>3, <1>4, <1>5, QApart

(* The operations of a pending task.                                       *)
LEMMA SopsLen ==
    ASSUME TypeInv, CallInv, NEW q \in Procs, cmd[q] = "SEMOP"
    PROVE  Len(sops[q]) \in Nat /\ Len(sops[q]) >= 1
<1>1. sops[q] \in SopSeqs \cup {<<>>} /\ sops[q] # <<>>
  BY DEF TypeInv, CallInv, CallAt
<1>2. SopSeqs \subseteq Seq(SopSet)
  BY SemConstants
<1>3. PICK s \in Seq(SopSet) : s = sops[q] /\ s # <<>>
  BY <1>1, <1>2
<1> QED BY <1>3

(* Who is on a pending list is in semtimedop().                            *)
LEMMA PendingCall ==
    ASSUME TypeInv, CallInv, PendingSleeps, NEW a \in Arrays, NEW q \in Pending(a)
    PROVE  /\ q \in Tasks /\ q \in Procs /\ cmd[q] = "SEMOP"
           /\ Len(sops[q]) \in Nat /\ Len(sops[q]) >= 1
<1>1. q \in Tasks /\ q \in Procs
  BY PendingTasks, Consts
<1>2. cmd[q] = "SEMOP"
  BY <1>1, Locals DEF PendingSleeps
<1> QED BY <1>1, <1>2, SopsLen

(* unlink_queue() takes one operation off the list and off the count.      *)
LEMMA UnlinkPending ==
    ASSUME TypeInv, CallInv, OncePending, ComplexCount, PendingSleeps, OneSet,
           NEW a \in Arrays, NEW x \in Pending(a), unlink_queue(a, x), sops' = sops
    PROVE  /\ OncePending' /\ ComplexCount'
           /\ \A b \in Arrays : Pending(b)' = Pending(b) \ {x}
<1>1. sem_pending \in [Arrays -> Seq(Tasks)] /\ complex_count \in [Arrays -> Int]
  BY DEF TypeInv
<1>2. PICK s \in Seq(Tasks) : s = sem_pending[a]
  BY <1>1
<1>3. IsInjective(s)
  BY <1>2 DEF OncePending
<1>4. PICK t : t = RemoveFirst(s, x)
  OBVIOUS
<1>5. t \in Seq(Tasks) /\ IsInjective(t) /\ ToSet(t) = ToSet(s) \ {x}
  BY <1>3, <1>4, RemoveFirstEntries
<1>6. sem_pending' = [sem_pending EXCEPT ![a] = t]
  BY <1>2, <1>4 DEF unlink_queue
<1>7. /\ sem_pending'[a] = t /\ Pending(a)' = Pending(a) \ {x}
      /\ \A b \in Arrays : b # a => sem_pending'[b] = sem_pending[b] /\ Pending(b)' = Pending(b)
  BY <1>1, <1>2, <1>5, <1>6 DEF Pending
<1>8. \A b \in Arrays : b # a => x \notin Pending(b)
  BY PendingCall DEF OneSet
<1>9. \A b \in Arrays : Pending(b)' = Pending(b) \ {x}
  BY <1>7, <1>8
<1>10. OncePending'
  BY <1>5, <1>7 DEF OncePending
<1>11. ComplexCount'
  <2>1. \A b \in Arrays : b # a => complex_count'[b] = complex_count[b]
    BY <1>1 DEF unlink_queue
  <2>2. PICK n \in Nat : n = Len(sops[x]) /\ n >= 1
    BY PendingCall
  <2>3. PICK C : C = {q \in Pending(a) : Len(sops[q]) > 1}
    OBVIOUS
  <2>4. IsFiniteSet(C) /\ complex_count[a] = Cardinality(C)
    <3>1. C \subseteq Tasks
        BY <2>3, PendingTasks
    <3> QED BY <2>3, <3>1, Consts, FS_Subset DEF ComplexCount
  <2>5. complex_count'[a] = Cardinality({q \in Pending(a)' : Len(sops'[q]) > 1})
    <3>1. CASE Len(sops[x]) = 1
      <4>0. ~(Len(sops[x]) > 1)
        BY <3>1
      <4>1. {q \in Pending(a)' : Len(sops'[q]) > 1} = C
        BY <1>7, <2>3, <4>0
      <4>2. complex_count'[a] = complex_count[a]
        BY <1>1, <3>1 DEF unlink_queue
      <4> QED BY <2>4, <4>1, <4>2
    <3>2. CASE Len(sops[x]) # 1
      <4>0. n # 1
        BY <2>2, <3>2, Zenon
      <4>m. n \in Nat /\ n >= 1
        BY <2>2, Zenon
      <4>n. n > 1
        BY <4>m, <4>0
      <4>1. Len(sops[x]) > 1
        BY <2>2, <4>n, Zenon
      <4>2. {q \in Pending(a)' : Len(sops'[q]) > 1} = C \ {x} /\ x \in C
        BY <1>7, <2>3, <4>1
      <4>3. complex_count'[a] = complex_count[a] - 1
        BY <1>1, <3>2 DEF unlink_queue
      <4>4. Cardinality(C \ {x}) = Cardinality(C) - 1
        BY <2>4, <4>2, FS_RemoveElement
      <4> QED BY <2>4, <4>2, <4>3, <4>4
    <3> QED BY <3>1, <3>2
  <2>6. \A b \in Arrays : b # a =>
            {q \in Pending(b)' : Len(sops'[q]) > 1} = {q \in Pending(b) : Len(sops[q]) > 1}
    BY <1>7
  <2>7. \A b \in Arrays : complex_count'[b] = Cardinality({q \in Pending(b)' : Len(sops'[q]) > 1})
    BY <2>1, <2>5, <2>6 DEF ComplexCount
  <2> QED BY <2>7 DEF ComplexCount
<1> QED BY <1>9, <1>10, <1>11

(* The task unlinks its own operation.                                     *)
LEMMA QInv_semop_recheck_unlink ==
    ASSUME IInv, QInv, NEW p \in Procs, semop_recheck(p), status[p] = "EINTR"
    PROVE  QInv'
<1>i. TypeInv /\ CallInv
  BY Parts
<1>q. /\ OncePending /\ ComplexCount /\ PendingSleeps /\ SleepsPending /\ SetsStay /\ NobodyEarly
      /\ OneSet /\ PendingHere /\ PendingUndo /\ WakeupHitsLiveQueue /\ OnceWoken /\ OneWaker
      /\ ResultsKept /\ LoadedNat
  BY QParts
<1>k. Tasks \subseteq Procs /\ Ctls \subseteq Procs
  BY Consts
<1>e. /\ pc[p] = "recheck" /\ pc'[p] = "ret" /\ pc'[p] \notin QueuePcs
      /\ \A q \in Procs : q # p => pc'[q] = pc[q]
  BY <1>i DEF semop_recheck, Goto, Return, TypeInv, QueuePcs
<1>u. /\ UNCHANGED <<tasks, sma, deleted, mem, idr, list_id, sops, state, semid, undo, status, outcome,
                     ref>>
  BY DEF semop_recheck, arrayv, life, ns, lists, args, queue, scanv
<1>a. PICK a \in Arrays : a = sma[p]
  BY <1>i, <1>e, Locals DEF Holding
<1>p. p \in Tasks /\ p \in Pending(a)
  <2>1. p \in Tasks
    BY <1>i, <1>e, Locals DEF QueuePcs
  <2> QED BY <1>q, <1>e, <1>a, <2>1 DEF SleepsPending, QueuePcs
<1>r. unlink_queue(a, p) /\ sig' \subseteq sig /\ DOMAIN res' = DOMAIN res
  BY <1>a DEF semop_recheck, Return
<1>1. OncePending' /\ ComplexCount' /\ \A b \in Arrays : Pending(b)' = Pending(b) \ {p}
  BY <1>i, <1>q, <1>u, <1>p, <1>r, UnlinkPending
<1>2. \A b \in Arrays : Pending(b)' \subseteq Pending(b) /\ \A q \in Pending(b)' : q # p /\ q \in Procs
  BY <1>i, <1>k, <1>1, PendingTasks
<1>3. \A r \in Procs : \A q \in ToSet(tasks[r]) : q # p /\ q \in Procs
  BY <1>i, <1>q, <1>k, PendingTasks DEF WakeupHitsLiveQueue
<1>4. \A b \in Arrays : Freeing(b)' = Freeing(b)
  BY <1>k, <1>e, <1>u DEF Freeing
<1>5. PendingSleeps'
  BY <1>q, <1>e, <1>u, <1>2 DEF PendingSleeps
<1>6. SleepsPending'
  <2> SUFFICES ASSUME NEW q \in Tasks, pc'[q] \in QueuePcs, status'[q] = "EINTR"
               PROVE  (\E b \in Arrays : q \in Pending(b)') /\ (pc'[q] = "recheck" => q \in Pending(sma[q])')
    BY DEF SleepsPending
  <2>1. q \in Procs /\ q # p /\ pc'[q] = pc[q]
    BY <1>k, <1>e
  <2>2. PICK b \in Arrays : q \in Pending(b)
    BY <1>q, <1>u, <2>1 DEF SleepsPending
  <2>3. q \in Pending(b)'
    BY <1>1, <2>1, <2>2
  <2>4. pc'[q] = "recheck" => sma'[q] = b
    <3>1. pc[q] = "recheck" => sma[q] = b
        BY <1>q, <2>2 DEF PendingHere
    <3> QED BY <1>u, <2>1, <3>1
  <2>5. pc'[q] = "recheck" => Pending(sma[q])' = Pending(b)'
    BY <2>4 DEF Pending
  <2> QED BY <2>3, <2>5
<1>7. SetsStay'
  BY <1>q, <1>e, <1>u DEF SetsStay
<1>8. NobodyEarly'
  BY <1>q, <1>e, <1>u, <1>r DEF NobodyEarly
<1>9. OneSet' /\ OnceWoken' /\ OneWaker' /\ LoadedNat'
  BY <1>q, <1>u, <1>r, <1>2 DEF OneSet, OnceWoken, OneWaker, LoadedNat
<1>10. PendingHere'
  BY <1>q, <1>e, <1>u, <1>2 DEF PendingHere
<1>11. PendingUndo'
  BY <1>q, <1>u, <1>2, <1>4 DEF PendingUndo
<1>12. WakeupHitsLiveQueue'
  BY <1>q, <1>e, <1>u, <1>3 DEF WakeupHitsLiveQueue
<1>13. ResultsKept'
  BY <1>q, <1>e, <1>u DEF ResultsKept
<1> QED BY <1>1, <1>5, <1>6, <1>7, <1>8, <1>9, <1>10, <1>11, <1>12, <1>13 DEF QInv, QueueAgrees

(* update_queue() completes a pending operation.                           *)
LEMMA QInv_update_complete ==
    ASSUME IInv, QInv, NEW p \in Procs, update_complete(p)
    PROVE  QInv'
<1>i. TypeInv /\ CallInv
  BY Parts
<1>q. /\ OncePending /\ ComplexCount /\ PendingSleeps /\ SleepsPending /\ SetsStay /\ NobodyEarly
      /\ OneSet /\ PendingHere /\ PendingUndo /\ WakeupHitsLiveQueue /\ OnceWoken /\ OneWaker
      /\ ResultsKept /\ LoadedNat
  BY QParts
<1>k. Tasks \subseteq Procs /\ Ctls \subseteq Procs
  BY Consts
<1>u. /\ UNCHANGED <<pc, sma, deleted, mem, idr, list_id, sops, state, sig, semid, undo, ref, res>>
  BY DEF update_complete, life, ns, lists, args, sched
<1>a. PICK a \in Arrays : a = sma[p]
  BY <1>i, Locals DEF Holding, update_complete
<1>x. PICK x : x = Next_q(p)
  OBVIOUS
<1>p. x \in Tasks /\ x \in Procs /\ x \in Pending(a)
  BY <1>i, <1>k, <1>a, <1>x, ReachedTask DEF update_complete
<1>o. PICK o : o = Retry(p).res
  OBVIOUS
<1>v. o # "EINTR"
  <2>1. undo[x].set # NoArr => undo[x].list \in Tasks
    BY <1>p, Parts DEF OwnList
  <2>2. try_atomic_semop(semval[a], AdjOf(x), sops[x]).res \in {"ok", "block", "EAGAIN", "ERANGE"}
    BY <1>i, <1>p, <2>1, AttemptType
  <2> QED BY <1>a, <1>x, <1>o, <2>2 DEF Retry
<1>r. /\ unlink_queue(a, x) /\ status' = [status EXCEPT ![x] = "IN_WAKEUP"]
      /\ outcome' = [outcome EXCEPT ![x] = o] /\ tasks' = [tasks EXCEPT ![p] = Append(tasks[p], x)]
  BY <1>a, <1>x, <1>o DEF update_complete
<1>s. /\ status'[x] = "IN_WAKEUP" /\ outcome'[x] = o
      /\ \A q \in Procs : q # x => status'[q] = status[q] /\ outcome'[q] = outcome[q]
  BY <1>i, <1>p, <1>r DEF TypeInv
<1>1. OncePending' /\ ComplexCount' /\ \A b \in Arrays : Pending(b)' = Pending(b) \ {x}
  BY <1>i, <1>q, <1>u, <1>p, <1>r, UnlinkPending
<1>2. \A b \in Arrays : Pending(b)' \subseteq Pending(b) /\ \A q \in Pending(b)' : q # x /\ q \in Procs
  BY <1>i, <1>k, <1>1, PendingTasks
<1>3. \A r \in Procs : \A q \in ToSet(tasks[r]) : q # x /\ q \in Procs
  BY <1>i, <1>q, <1>k, <1>p, PendingTasks DEF WakeupHitsLiveQueue, PendingSleeps
<1>t. /\ IsInjective(tasks'[p]) /\ ToSet(tasks'[p]) = ToSet(tasks[p]) \cup {x}
      /\ \A r \in Procs : r # p => tasks'[r] = tasks[r]
  <2>1. tasks \in [Procs -> Seq(Tasks)]
    BY <1>i DEF TypeInv
  <2>2. tasks'[p] = Append(tasks[p], x) /\ \A r \in Procs : r # p => tasks'[r] = tasks[r]
    BY <1>r, <2>1
  <2>3. PICK s \in Seq(Tasks) : s = tasks[p]
    BY <2>1
  <2>4. IsInjective(s) /\ x \notin ToSet(s)
    BY <1>q, <1>3, <2>3 DEF OnceWoken
  <2>5. ToSet(Append(s, x)) = ToSet(s) \cup {x} /\ IsInjective(Append(s, x))
    BY <1>p, <2>4, AppendEntries
  <2> QED BY <2>2, <2>3, <2>5
<1>4. \A b \in Arrays : Freeing(b)' = Freeing(b)
  BY <1>u DEF Freeing
<1>5. PendingSleeps'
  BY <1>q, <1>s, <1>u, <1>2 DEF PendingSleeps
<1>6. SleepsPending'
  <2> SUFFICES ASSUME NEW q \in Tasks, pc'[q] \in QueuePcs, status'[q] = "EINTR"
               PROVE  (\E b \in Arrays : q \in Pending(b)') /\ (pc'[q] = "recheck" => q \in Pending(sma[q])')
    BY DEF SleepsPending
  <2>1. q \in Procs /\ q # x /\ pc'[q] = pc[q] /\ status[q] = "EINTR"
    BY <1>k, <1>s, <1>u
  <2>2. PICK b \in Arrays : q \in Pending(b)
    BY <1>q, <1>u, <2>1 DEF SleepsPending
  <2>3. q \in Pending(b)'
    BY <1>1, <2>1, <2>2
  <2>4. pc'[q] = "recheck" => sma'[q] = b
    <3>1. pc[q] = "recheck" => sma[q] = b
        BY <1>q, <2>2 DEF PendingHere
    <3> QED BY <1>u, <2>1, <3>1
  <2>5. pc'[q] = "recheck" => Pending(sma[q])' = Pending(b)'
    BY <2>4 DEF Pending
  <2> QED BY <2>3, <2>5
<1>7. SetsStay'
  BY <1>q, <1>u DEF SetsStay
<1>8. NobodyEarly'
  <2>1. \A q \in Procs : status'[q] = "EINTR" => status[q] = "EINTR"
    BY <1>s
  <2> QED BY <1>q, <1>u, <2>1 DEF NobodyEarly
<1>9. OneSet' /\ LoadedNat'
  BY <1>q, <1>u, <1>2 DEF OneSet, LoadedNat
<1>10. PendingHere'
  BY <1>q, <1>u, <1>2 DEF PendingHere
<1>11. PendingUndo'
  BY <1>q, <1>u, <1>2, <1>4 DEF PendingUndo
<1>12. WakeupHitsLiveQueue'
  <2> SUFFICES ASSUME NEW r \in Procs, NEW q \in ToSet(tasks'[r])
               PROVE  pc'[q] \in QueuePcs /\ status'[q] = "IN_WAKEUP"
    BY DEF WakeupHitsLiveQueue
  <2>1. CASE q = x
    BY <1>q, <1>p, <1>s, <1>u, <2>1 DEF PendingSleeps
  <2>2. CASE q # x
    <3>1. q \in ToSet(tasks[r])
        BY <1>t, <2>2
    <3>2. q \in Procs
        BY <1>3, <3>1
    <3> QED BY <1>q, <1>s, <1>u, <2>2, <3>1, <3>2 DEF WakeupHitsLiveQueue
  <2> QED BY <2>1, <2>2
<1>13. OnceWoken'
  BY <1>q, <1>t DEF OnceWoken
<1>14. OneWaker'
  <2>1. \A r \in Procs : \A y \in ToSet(tasks'[r]) : y \in ToSet(tasks[r]) \/ (y = x /\ r = p)
    BY <1>t
  <2> QED BY <1>q, <1>3, <2>1 DEF OneWaker
<1>15. ResultsKept'
  BY <1>q, <1>s, <1>u, <1>v DEF ResultsKept
<1> QED BY <1>1, <1>5, <1>6, <1>7, <1>8, <1>9, <1>10, <1>11, <1>12, <1>13, <1>14, <1>15 DEF QInv,
  QueueAgrees

(* list_for_each_entry_safe(): the rest of a list without repetitions.     *)
LEMMA TailEntries ==
    ASSUME NEW S, NEW s \in Seq(S), s # <<>>, IsInjective(s)
    PROVE  /\ Head(s) \in S /\ Head(s) \in ToSet(s) /\ Head(s) \notin ToSet(Tail(s))
           /\ IsInjective(Tail(s)) /\ ToSet(Tail(s)) \subseteq ToSet(s)
<1>1. /\ Len(s) \in Nat /\ Len(s) >= 1 /\ DOMAIN s = 1 .. Len(s) /\ Head(s) = s[1]
      /\ \A i \in 1 .. Len(s) : s[i] \in S
  OBVIOUS
<1> DEFINE t == Tail(s)
<1>2. /\ DOMAIN t = 1 .. Len(s) - 1
      /\ \A i \in 1 .. Len(s) - 1 : t[i] = s[i + 1]
  BY <1>1
<1>3. \A i, j \in DOMAIN s : s[i] = s[j] => i = j
  BY DEF IsInjective
<1> HIDE DEF t
<1>4. \A i \in DOMAIN t : i \in Int /\ i + 1 \in DOMAIN s /\ i + 1 # 1 /\ t[i] = s[i + 1]
  BY <1>1, <1>2
<1>5. 1 \in DOMAIN s
  BY <1>1
<1>6. s[1] \notin ToSet(t) /\ ToSet(t) \subseteq ToSet(s) /\ s[1] \in ToSet(s)
  BY <1>3, <1>4, <1>5 DEF ToSet
<1>7. IsInjective(t)
  <2> SUFFICES ASSUME NEW i \in DOMAIN t, NEW j \in DOMAIN t, t[i] = t[j]
               PROVE  i = j
    BY DEF IsInjective
  <2>1. i + 1 = j + 1 /\ i \in Int /\ j \in Int
    BY <1>3, <1>4
  <2> QED BY <2>1
<1> QED BY <1>1, <1>5, <1>6, <1>7 DEF t

(* The waker stores the result.                                            *)
LEMMA QInv_wake_set ==
    ASSUME IInv, QInv, NEW p \in Procs, wake_set(p)
    PROVE  QInv'
<1>i. TypeInv /\ CallInv
  BY Parts
<1>q. /\ OncePending /\ ComplexCount /\ PendingSleeps /\ SleepsPending /\ SetsStay /\ NobodyEarly
      /\ OneSet /\ PendingHere /\ PendingUndo /\ WakeupHitsLiveQueue /\ OnceWoken /\ OneWaker
      /\ ResultsKept /\ LoadedNat
  BY QParts
<1>k. Tasks \subseteq Procs /\ Ctls \subseteq Procs
  BY Consts
<1>e. /\ pc[p] = "set" /\ pc'[p] = "wake" /\ \A q \in Procs : q # p => pc'[q] = pc[q]
  BY <1>i DEF wake_set, Goto, TypeInv
<1>u. /\ UNCHANGED <<sem_pending, complex_count, sma, state, deleted, mem, idr, list_id, sops, sig,
                     semid, undo, outcome, ref, res>>
  BY DEF wake_set, arrayv, life, ns, lists, args, sched
<1>l. PICK s \in Seq(Tasks) : s = tasks[p] /\ s # <<>> /\ IsInjective(s)
  <2>1. tasks[p] \in Seq(Tasks) /\ tasks[p] # <<>>
    BY <1>i, <1>e DEF TypeInv, CallInv, CallAt
  <2> QED BY <1>q, <2>1 DEF OnceWoken
<1>x. PICK x : x = Head(s)
  OBVIOUS
<1>h. /\ x \in Tasks /\ x \in ToSet(s) /\ x \notin ToSet(Tail(s)) /\ IsInjective(Tail(s))
      /\ ToSet(Tail(s)) \subseteq ToSet(s)
  BY <1>l, <1>x, TailEntries
<1>y. x \in Procs /\ pc[x] \in QueuePcs /\ status[x] = "IN_WAKEUP"
  BY <1>k, <1>q, <1>l, <1>h DEF WakeupHitsLiveQueue
<1>s. /\ status'[x] = outcome[x] /\ \A q \in Procs : q # x => status'[q] = status[q]
  <2>1. status' = [status EXCEPT ![x] = outcome[x]]
    BY <1>l, <1>x, <1>y DEF wake_set, Final
  <2> QED BY <1>i, <1>y, <2>1 DEF TypeInv
<1>v. outcome[x] # "EINTR"
  BY <1>q, <1>y DEF ResultsKept
<1>t. /\ tasks'[p] = Tail(s) /\ \A r \in Procs : r # p => tasks'[r] = tasks[r]
  BY <1>i, <1>l DEF wake_set, TypeInv
<1>1. \A a \in Arrays : Pending(a)' = Pending(a) /\ Pending(a) \subseteq Tasks
  BY <1>i, <1>u, PendingTasks DEF Pending
<1>2. \A q \in Procs : pc'[q] \in QueuePcs <=> pc[q] \in QueuePcs
  BY <1>e DEF QueuePcs
<1>3. \A q \in Procs : status'[q] = "EINTR" <=> status[q] = "EINTR"
  BY <1>s, <1>v, <1>y
<1>4. \A b \in Arrays : Freeing(b)' = Freeing(b)
  BY <1>k, <1>e, <1>u DEF Freeing
<1>5. /\ \A r \in Procs : ToSet(tasks'[r]) \subseteq ToSet(tasks[r])
      /\ \A r \in Procs : x \notin ToSet(tasks'[r])
  <2>1. \A r \in Procs : ToSet(tasks'[r]) \subseteq ToSet(tasks[r])
    BY <1>t, <1>h, <1>l
  <2>2. \A r \in Procs : r # p => x \notin ToSet(tasks[r])
    BY <1>q, <1>h, <1>l DEF OneWaker
  <2> QED BY <1>t, <1>h, <2>1, <2>2
<1>6. OncePending' /\ OneSet' /\ LoadedNat'
  BY <1>q, <1>u, <1>1 DEF OncePending, OneSet, LoadedNat
<1>7. ComplexCount'
  BY <1>q, <1>u, <1>1 DEF ComplexCount
<1>8. PendingSleeps'
  BY <1>q, <1>k, <1>1, <1>2, <1>3 DEF PendingSleeps
<1>9. SleepsPending'
  <2> SUFFICES ASSUME NEW q \in Tasks, pc'[q] \in QueuePcs, status'[q] = "EINTR"
               PROVE  (\E b \in Arrays : q \in Pending(b)') /\ (pc'[q] = "recheck" => q \in Pending(sma[q])')
    BY DEF SleepsPending
  <2>1. q \in Procs /\ q # p /\ pc'[q] = pc[q] /\ status[q] = "EINTR"
    BY <1>k, <1>e, <1>3 DEF QueuePcs
  <2>2. PICK b \in Arrays : q \in Pending(b)
    BY <1>q, <2>1 DEF SleepsPending
  <2>3. q \in Pending(b)'
    BY <1>1, <2>2
  <2>4. pc'[q] = "recheck" => sma'[q] = b
    <3>1. pc[q] = "recheck" => sma[q] = b
        BY <1>q, <2>2 DEF PendingHere
    <3> QED BY <1>u, <2>1, <3>1
  <2>5. pc'[q] = "recheck" => Pending(sma[q])' = Pending(b)'
    BY <2>4 DEF Pending
  <2> QED BY <2>3, <2>5
<1>10. SetsStay'
  BY <1>q, <1>u, <1>2 DEF SetsStay
<1>11. NobodyEarly'
  BY <1>q, <1>e, <1>u, <1>3 DEF NobodyEarly
<1>12. PendingHere'
  <2> SUFFICES ASSUME NEW b \in Arrays, NEW q \in Pending(b)'
               PROVE  /\ mem'[b] = "live" /\ ~deleted'[b] /\ semid'[q] = IdOf[b]
                      /\ pc'[q] \in {"relock", "recheck"} => sma'[q] = b
                      /\ undo'[q].set # NoArr => undo'[q].set = b
    BY DEF PendingHere
  <2>1. q \in Pending(b) /\ q \in Procs
    BY <1>k, <1>1
  <2>2. pc'[q] \in {"relock", "recheck"} => pc[q] = pc'[q]
    BY <1>e, <2>1
  <2> QED BY <1>q, <1>u, <2>1, <2>2 DEF PendingHere
<1>13. PendingUndo'
  BY <1>q, <1>u, <1>1, <1>4 DEF PendingUndo
<1>14. WakeupHitsLiveQueue'
  <2> SUFFICES ASSUME NEW r \in Procs, NEW q \in ToSet(tasks'[r])
               PROVE  pc'[q] \in QueuePcs /\ status'[q] = "IN_WAKEUP"
    BY DEF WakeupHitsLiveQueue
  <2>1. q \in ToSet(tasks[r]) /\ q # x /\ q \in Procs
    BY <1>i, <1>k, <1>5, PendingTasks
  <2> QED BY <1>q, <1>s, <1>2, <2>1 DEF WakeupHitsLiveQueue
<1>15. OnceWoken'
  BY <1>q, <1>t, <1>h DEF OnceWoken
<1>16. OneWaker'
  BY <1>q, <1>5 DEF OneWaker
<1>17. ResultsKept'
  <2> SUFFICES ASSUME NEW q \in Procs, pc'[q] \in QueuePcs
               PROVE  /\ status'[q] # "EINTR" => outcome'[q] # "EINTR"
                      /\ status'[q] \notin {"EINTR", "IN_WAKEUP"} => status'[q] = outcome'[q]
    BY DEF ResultsKept
  <2>1. CASE q = x
    BY <1>s, <1>u, <1>v, <2>1
  <2>2. CASE q # x
    BY <1>q, <1>s, <1>u, <1>2, <2>2 DEF ResultsKept
  <2> QED BY <2>1, <2>2
<1> QED BY <1>6, <1>7, <1>8, <1>9, <1>10, <1>11, <1>12, <1>13, <1>14, <1>15, <1>16, <1>17 DEF QInv,
  QueueAgrees

(* freeary() takes the set out of the table and releases everybody.        *)
LEMMA QInv_freeary_rmid ==
    ASSUME IInv, QInv, NEW p \in Procs, freeary_rmid(p)
    PROVE  QInv'
<1>i. TypeInv /\ CallInv
  BY Parts
<1>q. /\ OncePending /\ ComplexCount /\ PendingSleeps /\ SleepsPending /\ SetsStay /\ NobodyEarly
      /\ OneSet /\ PendingHere /\ PendingUndo /\ WakeupHitsLiveQueue /\ OnceWoken /\ OneWaker
      /\ ResultsKept /\ LoadedNat
  BY QParts
<1>k. Tasks \subseteq Procs /\ Ctls \subseteq Procs
  BY Consts
<1>e. /\ pc[p] = "fundo" /\ pc'[p] = "wake" /\ \A q \in Procs : q # p => pc'[q] = pc[q]
  BY <1>i DEF freeary_rmid, Goto, TypeInv
<1>u. /\ UNCHANGED <<sma, state, mem, list_id, sops, sig, semid, undo, ref, res>>
  BY DEF freeary_rmid, lists, args, sched
<1>a. PICK a \in Arrays : a = sma[p]
  BY <1>i, <1>e, Locals DEF Holding
<1>c. "RMID" \in Cmds
  <2>1. cmd[p] = "RMID" /\ cmd[p] \in Cmds \cup {"none", "SEMOP", "EXIT"}
    BY <1>i, <1>e, Locals DEF TypeInv
  <2> QED BY <2>1
<1>f. /\ sem_pending'[a] = <<>> /\ complex_count'[a] = 0 /\ tasks'[p] = sem_pending[a]
      /\ \A b \in Arrays : b # a => /\ sem_pending'[b] = sem_pending[b]
                                    /\ complex_count'[b] = complex_count[b] /\ deleted'[b] = deleted[b]
      /\ \A r \in Procs : r # p => tasks'[r] = tasks[r]
  BY <1>i, <1>a DEF freeary_rmid, TypeInv
<1>s. /\ \A q \in Procs : q \in Pending(a) => status'[q] = "IN_WAKEUP" /\ outcome'[q] = "EIDRM"
      /\ \A q \in Procs : q \notin Pending(a) => status'[q] = status[q] /\ outcome'[q] = outcome[q]
  BY <1>a DEF freeary_rmid, Pending
<1>1. Pending(a)' = {} /\ \A b \in Arrays : b # a => Pending(b)' = Pending(b)
  <2>1. ToSet(<<>>) = {}
    BY DEF ToSet
  <2> QED BY <1>f, <2>1 DEF Pending
<1>2. \A b \in Arrays : Pending(b) \subseteq Tasks
  BY <1>i, PendingTasks
<1>3. \A b \in Arrays : b # a => \A q \in Pending(b) : q \notin Pending(a)
  BY <1>q, <1>2 DEF OneSet
<1>4. \A r \in Procs : ToSet(tasks[r]) \subseteq Tasks /\ \A q \in ToSet(tasks[r]) : q \notin Pending(a)
  BY <1>i, <1>q, PendingTasks DEF WakeupHitsLiveQueue, PendingSleeps
<1>5. \A q \in Procs : pc'[q] \in QueuePcs <=> pc[q] \in QueuePcs
  BY <1>e DEF QueuePcs
<1>6. \A b \in Arrays : b # a => (Freeing(b)' <=> Freeing(b))
  BY <1>a, <1>k, <1>e, <1>u DEF Freeing
<1>7. OncePending'
  <2>1. IsInjective(<<>>)
    BY DEF IsInjective
  <2> QED BY <1>q, <1>f, <2>1 DEF OncePending
<1>8. ComplexCount'
  <2> SUFFICES ASSUME NEW b \in Arrays
               PROVE  complex_count'[b] = Cardinality({q \in Pending(b)' : Len(sops'[q]) > 1})
    BY DEF ComplexCount
  <2>1. CASE b = a
    <3>1. {q \in Pending(b)' : Len(sops'[q]) > 1} = {}
        BY <1>1, <2>1
    <3> QED BY <1>f, <2>1, <3>1, FS_EmptySet
  <2>2. CASE b # a
    <3>1. {q \in Pending(b)' : Len(sops'[q]) > 1} = {q \in Pending(b) : Len(sops[q]) > 1}
        BY <1>1, <1>u, <2>2
    <3> QED BY <1>q, <1>f, <2>2, <3>1 DEF ComplexCount
  <2> QED BY <2>1, <2>2
<1>9. PendingSleeps'
  <2> SUFFICES ASSUME NEW b \in Arrays, NEW q \in Pending(b)'
               PROVE  pc'[q] \in QueuePcs /\ status'[q] = "EINTR"
    BY DEF PendingSleeps
  <2>1. b # a /\ q \in Pending(b) /\ q \in Procs /\ q \notin Pending(a)
    BY <1>1, <1>2, <1>3, <1>k
  <2> QED BY <1>q, <1>5, <1>s, <2>1 DEF PendingSleeps
<1>10. SleepsPending'
  <2> SUFFICES ASSUME NEW q \in Tasks, pc'[q] \in QueuePcs, status'[q] = "EINTR"
               PROVE  (\E b \in Arrays : q \in Pending(b)') /\ (pc'[q] = "recheck" => q \in Pending(sma[q])')
    BY DEF SleepsPending
  <2>1. q \in Procs /\ q # p /\ pc'[q] = pc[q] /\ status[q] = "EINTR" /\ q \notin Pending(a)
    BY <1>k, <1>e, <1>s DEF QueuePcs
  <2>2. PICK b \in Arrays : q \in Pending(b)
    BY <1>q, <2>1 DEF SleepsPending
  <2>3. q \in Pending(b)'
    BY <1>1, <2>1, <2>2
  <2>4. pc'[q] = "recheck" => sma'[q] = b
    <3>1. pc[q] = "recheck" => sma[q] = b
        BY <1>q, <2>2 DEF PendingHere
    <3> QED BY <1>u, <2>1, <3>1
  <2>5. pc'[q] = "recheck" => Pending(sma[q])' = Pending(b)'
    BY <2>4 DEF Pending
  <2> QED BY <2>3, <2>5
<1>11. SetsStay'
  BY <1>c DEF SetsStay
<1>12. NobodyEarly'
  <2>1. \A q \in Procs : status'[q] = "EINTR" => status[q] = "EINTR"
    BY <1>s
  <2> QED BY <1>q, <1>e, <1>u, <2>1 DEF NobodyEarly
<1>13. OneSet'
  BY <1>q, <1>1 DEF OneSet
<1>14. PendingHere'
  <2> SUFFICES ASSUME NEW b \in Arrays, NEW q \in Pending(b)'
               PROVE  /\ mem'[b] = "live" /\ ~deleted'[b] /\ semid'[q] = IdOf[b]
                      /\ pc'[q] \in {"relock", "recheck"} => sma'[q] = b
                      /\ undo'[q].set # NoArr => undo'[q].set = b
    BY DEF PendingHere
  <2>1. b # a /\ q \in Pending(b) /\ q \in Procs
    BY <1>k, <1>1, <1>2
  <2>2. pc'[q] \in {"relock", "recheck"} => pc[q] = pc'[q]
    BY <1>e, <2>1
  <2>3. deleted'[b] = deleted[b]
    BY <1>f, <2>1
  <2> QED BY <1>q, <1>u, <2>1, <2>2, <2>3 DEF PendingHere
<1>15. PendingUndo'
  <2> SUFFICES ASSUME NEW b \in Arrays, NEW q \in Pending(b)', undo'[q].set # NoArr, ~Freeing(b)'
               PROVE  undo'[q].list \in list_id'[b]
    BY DEF PendingUndo
  <2>1. b # a /\ q \in Pending(b) /\ ~Freeing(b)
    BY <1>1, <1>6
  <2> QED BY <1>q, <1>u, <2>1 DEF PendingUndo
<1>16. WakeupHitsLiveQueue'
  <2> SUFFICES ASSUME NEW r \in Procs, NEW q \in ToSet(tasks'[r])
               PROVE  pc'[q] \in QueuePcs /\ status'[q] = "IN_WAKEUP"
    BY DEF WakeupHitsLiveQueue
  <2>1. CASE r = p
    <3>1. q \in Pending(a) /\ q \in Procs
        BY <1>f, <1>2, <1>k, <2>1 DEF Pending
    <3> QED BY <1>q, <1>5, <1>s, <3>1 DEF PendingSleeps
  <2>2. CASE r # p
    <3>1. q \in ToSet(tasks[r]) /\ q \in Procs /\ q \notin Pending(a)
        BY <1>f, <1>4, <1>k, <2>2
    <3> QED BY <1>q, <1>5, <1>s, <3>1 DEF WakeupHitsLiveQueue
  <2> QED BY <2>1, <2>2
<1>17. OnceWoken'
  BY <1>q, <1>f DEF OnceWoken, OncePending
<1>18. OneWaker'
  <2>1. \A r \in Procs : \A y \in ToSet(tasks'[r]) :
            (r = p /\ y \in Pending(a)) \/ (r # p /\ y \in ToSet(tasks[r]) /\ y \notin Pending(a))
    BY <1>f, <1>4 DEF Pending
  <2> QED BY <1>q, <2>1 DEF OneWaker
<1>19. ResultsKept'
  <2> SUFFICES ASSUME NEW q \in Procs, pc'[q] \in QueuePcs
               PROVE  /\ status'[q] # "EINTR" => outcome'[q] # "EINTR"
                      /\ status'[q] \notin {"EINTR", "IN_WAKEUP"} => status'[q] = outcome'[q]
    BY DEF ResultsKept
  <2>1. CASE q \in Pending(a)
    BY <1>s, <2>1
  <2>2. CASE q \notin Pending(a)
    BY <1>q, <1>s, <1>5, <2>2 DEF ResultsKept
  <2> QED BY <2>1, <2>2
<1>20. LoadedNat'
  BY <1>q, <1>u DEF LoadedNat
<1> QED BY <1>7, <1>8, <1>9, <1>10, <1>11, <1>12, <1>13, <1>14, <1>15, <1>16, <1>17, <1>18, <1>19,
  <1>20 DEF QInv, QueueAgrees

(* An operation is queued and its task sleeps.                             *)
LEMMA QInv_semop_sleep ==
    ASSUME IInv, QInv, NEW p \in Procs, semop_sleep(p)
    PROVE  QInv'
<1>i. TypeInv /\ CallInv /\ KeptSets /\ SetLife /\ InTable /\ OwnUndo /\ HasUndos
  BY Parts
<1>q. /\ OncePending /\ ComplexCount /\ PendingSleeps /\ SleepsPending /\ SetsStay /\ NobodyEarly
      /\ OneSet /\ PendingHere /\ PendingUndo /\ WakeupHitsLiveQueue /\ OnceWoken /\ OneWaker
      /\ ResultsKept /\ LoadedNat
  BY QParts
<1>k. Tasks \subseteq Procs /\ Ctls \subseteq Procs
  BY Consts
<1>e. /\ pc[p] = "lock" /\ pc'[p] = "sleep" /\ status'[p] = "EINTR" /\ state'[p] = "INT"
      /\ \A q \in Procs : q # p => pc'[q] = pc[q] /\ status'[q] = status[q] /\ state'[q] = state[q]
  BY <1>i DEF semop_sleep, Found, Goto, TypeInv
<1>u. /\ UNCHANGED <<sma, mem, list_id, sops, sig, tasks, deleted, idr, outcome, semid, undo, ref,
                     res>>
  BY DEF semop_sleep, ns, lists, args, scanv
<1>g. /\ sma[p] \in Arrays /\ ~deleted[sma[p]] /\ mem[sma[p]] = "live" /\ IdOf[sma[p]] = semid[p]
  <2>1. "lock" \in Waiting /\ "lock" # "relock" /\ Found(p, "lock")
    BY DEF semop_sleep, Waiting
  <2> QED BY <1>i, <2>1, FoundSet
<1>a. PICK a \in Arrays : a = sma[p]
  BY <1>g
<1>c. cmd[p] = "SEMOP" /\ p \in Tasks
  BY <1>i, <1>e, Locals
<1>d. undo[p].set # NoArr => undo[p].set = a /\ undo[p].list \in list_id[a]
  <2> SUFFICES ASSUME undo[p].set # NoArr
               PROVE  undo[p].set = a /\ undo[p].list \in list_id[a]
    OBVIOUS
  <2>1. un[undo[p].list][undo[p].set].valid
    BY DEF semop_sleep, Stale
  <2>2. PICK c \in Arrays : c = undo[p].set
    BY <1>c, Undos
  <2>3. undo[p].list \in list_id[c] /\ IdOf[c] = semid[p]
    BY <1>i, <1>c, <2>1, <2>2 DEF OwnUndo
  <2>4. mem[c] = "live" /\ ~deleted[c]
    BY <1>i, <2>3 DEF HasUndos
  <2>5. idr[IdOf[c][1]] = c /\ idr[IdOf[a][1]] = a
    BY <1>i, <1>a, <1>g, <2>4 DEF InTable
  <2> QED BY <1>a, <1>g, <2>2, <2>3, <2>5
<1>n. /\ \A b \in Arrays : Pending(b) \subseteq Tasks /\ p \notin Pending(b)
      /\ \A r \in Procs : ToSet(tasks[r]) \subseteq Tasks /\ p \notin ToSet(tasks[r])
  BY <1>i, <1>q, <1>e, PendingTasks DEF PendingSleeps, WakeupHitsLiveQueue, QueuePcs
<1>1. /\ IsInjective(sem_pending'[a]) /\ Pending(a)' = Pending(a) \cup {p}
      /\ \A b \in Arrays : b # a => sem_pending'[b] = sem_pending[b] /\ Pending(b)' = Pending(b)
  <2>1. sem_pending \in [Arrays -> Seq(Tasks)]
    BY <1>i DEF TypeInv
  <2>2. PICK s \in Seq(Tasks) : s = sem_pending[a]
    BY <2>1
  <2>3. IsInjective(s) /\ p \notin ToSet(s)
    BY <1>q, <1>n, <2>2 DEF OncePending, Pending
  <2>4. PICK t : t = Enqueue(a, p)
    OBVIOUS
  <2>5. t = Append(s, p) \/ t = <<p>> \o s
    BY <2>2, <2>4 DEF Enqueue
  <2>6. IsInjective(t) /\ ToSet(t) = ToSet(s) \cup {p}
    <3>1. IsInjective(Append(s, p)) /\ ToSet(Append(s, p)) = ToSet(s) \cup {p}
        BY <1>c, <2>3, AppendEntries
    <3>2. IsInjective(<<p>> \o s) /\ ToSet(<<p>> \o s) = ToSet(s) \cup {p}
        BY <1>c, <2>3, ConsEntries
    <3> QED BY <2>5, <3>1, <3>2
  <2>7. sem_pending' = [sem_pending EXCEPT ![a] = t]
    BY <1>a, <2>4 DEF semop_sleep
  <2> QED BY <2>1, <2>2, <2>6, <2>7 DEF Pending
<1>4. \A b \in Arrays : Freeing(b)' = Freeing(b)
  BY <1>k, <1>e, <1>u DEF Freeing
<1>5. OncePending'
  BY <1>q, <1>1 DEF OncePending
<1>6. ComplexCount'
  <2>1. /\ \A b \in Arrays : b # a => complex_count'[b] = complex_count[b]
        /\ complex_count'[a] = IF Len(sops[p]) = 1 THEN complex_count[a] ELSE complex_count[a] + 1
    <3>1. complex_count \in [Arrays -> Int]
        BY <1>i DEF TypeInv
    <3> QED BY <1>a, <3>1 DEF semop_sleep
  <2>2. PICK n \in Nat : n = Len(sops[p]) /\ n >= 1
    BY <1>i, <1>c, SopsLen
  <2>3. PICK C : C = {q \in Pending(a) : Len(sops[q]) > 1}
    OBVIOUS
  <2>4. IsFiniteSet(C) /\ complex_count[a] = Cardinality(C) /\ p \notin C
    <3>1. C \subseteq Tasks /\ p \notin C
        BY <1>n, <2>3
    <3> QED BY <1>q, <2>3, <3>1, Consts, FS_Subset DEF ComplexCount
  <2>5. complex_count'[a] = Cardinality({q \in Pending(a)' : Len(sops'[q]) > 1})
    <3>1. CASE n = 1
      <4>1. ~(Len(sops[p]) > 1) /\ Len(sops[p]) = 1
        BY <2>2, <3>1
      <4>2. {q \in Pending(a)' : Len(sops'[q]) > 1} = C
        BY <1>1, <1>u, <2>3, <4>1
      <4> QED BY <2>1, <2>4, <4>1, <4>2
    <3>2. CASE n # 1
      <4>1. n \in Nat /\ n >= 1
        BY <2>2, Zenon
      <4>2. n > 1
        BY <3>2, <4>1
      <4>3. Len(sops[p]) > 1 /\ Len(sops[p]) # 1
        BY <2>2, <3>2, <4>2, Zenon
      <4>4. {q \in Pending(a)' : Len(sops'[q]) > 1} = C \cup {p}
        BY <1>1, <1>u, <2>3, <4>3
      <4>5. Cardinality(C \cup {p}) = Cardinality(C) + 1
        BY <2>4, FS_AddElement
      <4> QED BY <2>1, <2>4, <4>3, <4>4, <4>5
    <3> QED BY <3>1, <3>2
  <2>6. \A b \in Arrays : b # a =>
            {q \in Pending(b)' : Len(sops'[q]) > 1} = {q \in Pending(b) : Len(sops[q]) > 1}
    BY <1>1, <1>u
  <2>7. \A b \in Arrays : complex_count'[b] = Cardinality({q \in Pending(b)' : Len(sops'[q]) > 1})
    BY <1>q, <2>1, <2>5, <2>6 DEF ComplexCount
  <2> QED BY <2>7 DEF ComplexCount
<1>7. \A b \in Arrays : \A q \in Pending(b)' : (q = p /\ b = a) \/ (q # p /\ q \in Pending(b) /\ q \in Procs)
  BY <1>k, <1>n, <1>1
<1>8. PendingSleeps'
  BY <1>q, <1>e, <1>7 DEF PendingSleeps, QueuePcs
<1>9. SleepsPending'
  <2> SUFFICES ASSUME NEW q \in Tasks, pc'[q] \in QueuePcs, status'[q] = "EINTR"
               PROVE  (\E b \in Arrays : q \in Pending(b)') /\ (pc'[q] = "recheck" => q \in Pending(sma[q])')
    BY DEF SleepsPending
  <2>0. CASE q = p
    BY <1>e, <1>1, <2>0
  <2>1. CASE q # p
    <3>1. q \in Procs /\ pc'[q] = pc[q] /\ status[q] = "EINTR"
        BY <1>k, <1>e, <2>1
    <3>2. PICK b \in Arrays : q \in Pending(b)
        BY <1>q, <3>1 DEF SleepsPending
    <3>3. q \in Pending(b)'
        BY <1>1, <3>2
    <3>4. pc'[q] = "recheck" => sma'[q] = b
      <4>1. pc[q] = "recheck" => sma[q] = b
        BY <1>q, <3>2 DEF PendingHere
      <4> QED BY <1>u, <3>1, <4>1
    <3>5. pc'[q] = "recheck" => Pending(sma[q])' = Pending(b)'
        BY <3>4 DEF Pending
    <3> QED BY <3>3, <3>5
  <2> QED BY <2>0, <2>1
<1>10. SetsStay'
  <2>1. idr[semid[p][1]] # NoArr
    <3>1. idr[IdOf[a][1]] = a
        BY <1>i, <1>a, <1>g DEF InTable
    <3> QED BY <1>a, <1>g, <3>1, Consts
  <2> QED BY <1>q, <1>e, <1>u, <2>1 DEF SetsStay
<1>11. NobodyEarly'
  <2> SUFFICES ASSUME Signalled \cup Timed = {}
               PROVE  /\ sig' = {}
                      /\ \A q \in Procs : /\ pc'[q] \notin {"rfind", "relock", "recheck"}
                                          /\ pc'[q] = "result" \/ (pc'[q] = "sleep" /\ state'[q] = "RUN") => status'[q] # "EINTR"
    BY DEF NobodyEarly
  <2>1. /\ sig = {}
        /\ \A q \in Procs : /\ pc[q] \notin {"rfind", "relock", "recheck"}
                            /\ pc[q] = "result" \/ (pc[q] = "sleep" /\ state[q] = "RUN") => status[q] # "EINTR"
    BY <1>q DEF NobodyEarly
  <2> QED BY <1>e, <1>u, <2>1
<1>12. OneSet'
  BY <1>q, <1>7 DEF OneSet
<1>13. PendingHere'
  <2> SUFFICES ASSUME NEW b \in Arrays, NEW q \in Pending(b)'
               PROVE  /\ mem'[b] = "live" /\ ~deleted'[b] /\ semid'[q] = IdOf[b]
                      /\ pc'[q] \in {"relock", "recheck"} => sma'[q] = b
                      /\ undo'[q].set # NoArr => undo'[q].set = b
    BY DEF PendingHere
  <2>1. CASE q = p /\ b = a
    BY <1>a, <1>g, <1>d, <1>e, <1>u, <2>1
  <2>2. CASE q # p /\ q \in Pending(b) /\ q \in Procs
    BY <1>q, <1>e, <1>u, <2>2 DEF PendingHere
  <2> QED BY <1>7, <2>1, <2>2
<1>14. PendingUndo'
  BY <1>q, <1>d, <1>u, <1>4, <1>7 DEF PendingUndo
<1>15. WakeupHitsLiveQueue'
  BY <1>q, <1>k, <1>e, <1>u, <1>n DEF WakeupHitsLiveQueue
<1>16. OnceWoken' /\ OneWaker' /\ LoadedNat'
  BY <1>q, <1>u DEF OnceWoken, OneWaker, LoadedNat
<1>17. ResultsKept'
  BY <1>q, <1>e, <1>u DEF ResultsKept, QueuePcs
<1> QED BY <1>5, <1>6, <1>8, <1>9, <1>10, <1>11, <1>12, <1>13, <1>14, <1>15, <1>16, <1>17 DEF QInv,
  QueueAgrees

-----------------------------------------------------------------------------
(* Part two, and what it says of the results.                              *)

(* Every step of a task inside a system call preserves part two.           *)
LEMMA TaskQueue ==
    ASSUME IInv, QInv, SafeWakeups, NEW p \in Procs, Step(p)
    PROVE  QInv'
<1>1. CASE ipc_find(p)
  BY <1>1, QInv_ipc_find
<1>2. CASE lookup_fails(p)
  BY <1>2, QInv_lookup_fails
<1>3. CASE syscall_exit(p)
  BY <1>3, QInv_syscall_exit
<1>4. CASE find_undo(p)
  BY <1>4, QInv_find_undo
<1>5. CASE undo_getref(p)
  BY <1>5, QInv_undo_getref
<1>6. CASE undo_enomem(p)
  BY <1>6, QInv_undo_enomem
<1>7. CASE undo_link(p)
  BY <1>7, QInv_undo_link
<1>8. CASE semop_return(p)
  BY <1>8, QInv_semop_return
<1>9. CASE semop_alter(p)
  BY <1>9, QInv_semop_alter
<1>10. CASE semop_sleep(p)
  BY <1>10, QInv_semop_sleep
<1>11. CASE semop_wake(p)
  BY <1>11, QInv_semop_wake
<1>12. CASE semop_result(p)
  BY <1>12, QInv_semop_result
<1>13. CASE semop_relock(p)
  BY <1>13, QInv_semop_relock
<1>14. CASE semop_recheck(p)
  BY <1>14, QInv_semop_recheck_done, QInv_semop_recheck_unlink
<1>15. CASE do_smart_update(p)
  BY <1>15, QInv_do_smart_update
<1>16. CASE update_end(p)
  BY <1>16, QInv_update_end
<1>17. CASE update_skip(p)
  BY <1>17, QInv_update_skip
<1>18. CASE update_complete(p)
  BY <1>18, QInv_update_complete
<1>19. CASE wake_next(p)
  BY <1>19, QInv_wake_next
<1>20. CASE wake_set(p)
  BY <1>20, QInv_wake_set
<1>21. CASE wake_done(p)
  BY <1>21, QInv_wake_done
<1>22. CASE ctl_fail(p)
  BY <1>22, QInv_ctl_fail
<1>23. CASE setval(p)
  BY <1>23, QInv_setval
<1>24. CASE all_getref(p)
  BY <1>24, QInv_all_getref
<1>25. CASE all_fail(p)
  BY <1>25, QInv_all_fail
<1>26. CASE getall(p)
  BY <1>26, QInv_getall
<1>27. CASE setall(p)
  BY <1>27, QInv_setall
<1>28. CASE freeary(p)
  BY <1>28, QInv_freeary
<1>29. CASE freeary_invalidate(p)
  BY <1>29, QInv_freeary_invalidate
<1>30. CASE freeary_unlink(p)
  BY <1>30, QInv_freeary_unlink
<1>31. CASE freeary_rmid(p)
  BY <1>31, QInv_freeary_rmid
<1>32. CASE freeary_putref(p)
  BY <1>32, QInv_freeary_putref
<1>33. CASE exit_read(p)
  BY <1>33, QInv_exit_read
<1>34. CASE exit_done(p)
  BY <1>34, QInv_exit_done
<1>35. CASE exit_reread(p)
  BY <1>35, QInv_exit_reread
<1>36. CASE exit_raced(p)
  BY <1>36, QInv_exit_raced
<1>37. CASE exit_adjust(p)
  BY <1>37, QInv_exit_adjust
<1> QED BY <1>1, <1>2, <1>3, <1>4, <1>5, <1>6, <1>7, <1>8, <1>9, <1>10, <1>11, <1>12, <1>13, <1>14,
  <1>15, <1>16, <1>17, <1>18, <1>19, <1>20, <1>21, <1>22, <1>23, <1>24, <1>25, <1>26, <1>27, <1>28,
  <1>29, <1>30, <1>31, <1>32, <1>33, <1>34, <1>35, <1>36, <1>37 DEF Step

(* Part two is preserved by every step.                                    *)
LEMMA StepQueue ==
    ASSUME IInv, QInv, SafeWakeups, [Next]_vars
    PROVE  QInv'
<1>1. ASSUME NEW p \in Procs, Step(p) PROVE QInv'
  BY <1>1, TaskQueue
<1>2. ASSUME NEW p \in Ctls, newary(p) \/ semctl(p) PROVE QInv'
  BY <1>2, QInv_newary, QInv_semctl
<1>3. ASSUME NEW p \in Tasks, semop(p) \/ Signal(p) \/ exit_sem(p) PROVE QInv'
  BY <1>3, QInv_semop, QInv_Signal, QInv_exit_sem
<1>4. ASSUME NEW p \in Tasks, NEW c \in Children, copy_semundo(p, c) PROVE QInv'
  BY <1>4, QInv_copy_semundo
<1>5. ASSUME NEW u \in Tasks, NEW a \in Arrays, free_un(u, a) PROVE QInv'
  BY <1>5, QInv_free_un
<1>6. ASSUME NEW a \in Arrays, ipc_immediate_free(a) PROVE QInv'
  BY <1>6, QInv_ipc_immediate_free
<1>7. CASE UNCHANGED vars
  <2>1. TypeInv
    BY Parts
  <2>2. /\ UNCHANGED <<sem_pending, complex_count, tasks, sma, pc, deleted, mem, idr, list_id, sops,
                       semid, undo, status, outcome, ref, res, sig, state>>
    BY <1>7 DEF vars, arrayv, life, ns, lists, args, queue, scanv, sched
  <2>3. NobodyEarly'
    BY <2>2, QParts DEF NobodyEarly
  <2>4. \A q \in Procs : pc[q] \in {"relock", "recheck"} => \A a \in Arrays : q \in Pending(a) => sma[q] = a
    BY QParts DEF PendingHere
  <2> QED BY <2>1, <2>2, <2>3, <2>4, QMove
<1> QED BY <1>1, <1>2, <1>3, <1>4, <1>5, <1>6, <1>7 DEF Next

(* Nobody sleeps at first.                                                 *)
LEMMA InitQueue ==
    ASSUME Init
    PROVE  QInv
<1>k. Tasks \subseteq Procs /\ Ctls \subseteq Procs
  BY Consts
<1>p. /\ \A p \in Procs : /\ pc[p] \in {"unborn", "idle"} /\ tasks[p] = <<>> /\ ref[p] = 0
      /\ sig = {} /\ DOMAIN res = Procs
  BY DEF Init
<1>a. \A a \in Arrays : sem_pending[a] = <<>> /\ complex_count[a] = 0 /\ ~deleted[a]
  BY DEF Init
<1>e. ToSet(<<>>) = {} /\ IsInjective(<<>>)
  BY DEF ToSet, IsInjective
<1>1. \A a \in Arrays : Pending(a) = {}
  BY <1>a, <1>e DEF Pending
<1>2. ComplexCount
  <2>1. \A a \in Arrays : {q \in Pending(a) : Len(sops[q]) > 1} = {}
    BY <1>1
  <2> QED BY <1>a, <2>1, FS_EmptySet DEF ComplexCount
<1>3. \A p \in Procs : pc[p] \notin QueuePcs
  BY <1>p DEF QueuePcs
<1>4. OncePending /\ PendingSleeps /\ OneSet /\ PendingHere /\ PendingUndo
  BY <1>a, <1>e, <1>1 DEF OncePending, PendingSleeps, OneSet, PendingHere, PendingUndo
<1>5. SleepsPending /\ SetsStay /\ ResultsKept
  BY <1>k, <1>a, <1>3 DEF SleepsPending, SetsStay, ResultsKept
<1>6. NobodyEarly
  BY <1>p DEF NobodyEarly
<1>7. WakeupHitsLiveQueue /\ OnceWoken /\ OneWaker /\ LoadedNat
  BY <1>p, <1>e DEF WakeupHitsLiveQueue, OnceWoken, OneWaker, LoadedNat
<1> QED BY <1>2, <1>4, <1>5, <1>6, <1>7 DEF QInv, QueueAgrees

(* Part two of the inductive invariant: the pending operations and the     *)
(* lockless wakeup, where no sleeper can be started early while its set    *)
(* is removed.                                                             *)
THEOREM SemQueueInductive == ASSUME SafeWakeups PROVE Spec => []QInv
<1>1. IInv /\ QInv /\ [Next]_vars => QInv'
  BY StepQueue
<1>2. Init => QInv
  BY InitQueue
<1> QED BY <1>1, <1>2, SemInductive, PTL DEF Spec

(* The pending list of a set has every sleeper without a result exactly    *)
(* once and nobody else, and complex_count counts: what unlink_queue(),    *)
(* update_queue() and freeary() must agree on.                             *)
THEOREM QueueConsistent == ASSUME SafeWakeups PROVE Spec => []QueueAgrees
<1>1. QInv => QueueAgrees
  BY DEF QInv
<1> QED BY <1>1, SemQueueInductive, PTL

(* wake_up_sem_queue_do(), without any lock, only touches queues of tasks  *)
(* that are still in that call.                                            *)
THEOREM WakeupsSafe == ASSUME SafeWakeups PROVE Spec => []WakeupHitsLiveQueue
<1>1. QInv => WakeupHitsLiveQueue
  BY DEF QInv
<1> QED BY <1>1, SemQueueInductive, PTL

(* The undo structure of an operation that is pending or being performed   *)
(* is alive, linked and of the very set, though identifiers are used       *)
(* again.                                                                  *)
THEOREM UndoRight == ASSUME SafeWakeups PROVE Spec => []UndoOfOwnSet
<1>1. ASSUME IInv, QInv PROVE UndoOfOwnSet
  <2>1. TypeInv /\ CallInv /\ OwnUndo /\ BothLists /\ LinkedLive /\ OwnList
    BY <1>1, Parts
  <2>2. PendingHere /\ PendingUndo
    BY <1>1, QParts
  <2> SUFFICES ASSUME NEW p \in Tasks, NEW a \in Arrays, undo[p].set # NoArr, ~Freeing(a),
                      p \in Pending(a) \/ (cmd[p] = "SEMOP" /\ pc[p] \in {"smart", "scan"} /\ sma[p] = a)
               PROVE  undo[p].set = a /\ un[undo[p].list][a].mem = "live" /\ undo[p].list \in list_id[a]
    BY DEF UndoOfOwnSet
  <2>3. undo[p].set = a /\ undo[p].list \in list_id[a]
    <3>1. CASE p \in Pending(a)
        BY <2>2, <3>1 DEF PendingHere, PendingUndo
    <3>2. CASE cmd[p] = "SEMOP" /\ pc[p] \in {"smart", "scan"} /\ sma[p] = a
        BY <2>1, <3>2, Consts DEF OwnUndo
    <3> QED BY <3>1, <3>2
  <2>4. PICK u \in Tasks : u = undo[p].list
    BY <2>1 DEF OwnList
  <2>5. a \in ToSet(list_proc[u])
    BY <2>1, <2>3, <2>4 DEF BothLists
  <2>6. un[u][a].mem = "live"
    BY <2>1, <2>5 DEF LinkedLive
  <2> QED BY <2>3, <2>4, <2>6
<1> QED BY <1>1, SemInductive, SemQueueInductive, PTL

(* Sets and undo lists agree on the structures they share, freeary()       *)
(* between its two unlinks excepted; and all variables keep their types.   *)
THEOREM UndoLinked == ASSUME SafeWakeups PROVE Spec => []UndoListsAgree
<1>1. ASSUME IInv, QInv PROVE UndoListsAgree
  <2>1. TypeInv /\ RefNat /\ UserCount /\ UsedSems /\ BothLists /\ OneList
    BY <1>1, Parts
  <2>2. ComplexCount /\ LoadedNat
    BY <1>1, QParts
  <2>3. refcount \in [Arrays -> Nat]
    <3>1. refcount \in [Arrays -> Int]
        BY <2>1 DEF TypeInv
    <3> QED BY <2>1, <3>1 DEF RefNat
  <2>4. complex_count \in [Arrays -> Nat]
    <3>1. complex_count \in [Arrays -> Int]
        BY <2>1 DEF TypeInv
    <3>2. \A a \in Arrays : complex_count[a] \in Nat
      <4> SUFFICES ASSUME NEW a \in Arrays PROVE complex_count[a] \in Nat
        OBVIOUS
      <4>1. PICK C : C = {q \in Pending(a) : Len(sops[q]) > 1}
        OBVIOUS
      <4>2. C \subseteq Tasks
        BY <2>1, <4>1, PendingTasks
      <4>3. IsFiniteSet(C)
        BY <4>2, Consts, FS_Subset
      <4> QED BY <2>2, <4>1, <4>3, FS_CardinalityType DEF ComplexCount
    <3> QED BY <3>1, <3>2
  <2>5. refcnt \in [Tasks -> Nat]
    <3>1. refcnt \in [Tasks -> Int]
        BY <2>1 DEF TypeInv
    <3>2. \A u \in Tasks : refcnt[u] \in Nat
      <4> SUFFICES ASSUME NEW u \in Tasks PROVE refcnt[u] \in Nat
        OBVIOUS
      <4>1. Users(u) \subseteq Tasks
        BY DEF Users
      <4>2. IsFiniteSet(Users(u))
        BY <4>1, Consts, FS_Subset
      <4> QED BY <2>1, <4>2, FS_CardinalityType DEF UserCount
    <3> QED BY <3>1, <3>2
  <2>6. used_sems \in Nat
    <3>1. PICK n, m : n = Cardinality(Sems) /\ m = Cardinality({a \in Arrays : Counted(a)})
        OBVIOUS
    <3>2. n \in Nat /\ m \in Nat
      <4>1. IsFiniteSet({a \in Arrays : Counted(a)})
        BY Consts, FS_Subset
      <4> QED BY <3>1, <4>1, SemConstants, FS_CardinalityType
    <3>3. used_sems = n * m
        BY <2>1, <3>1 DEF UsedSems
    <3> QED BY <3>2, <3>3
  <2>7. ref \in [Procs -> Nat]
    <3>1. ref \in [Procs -> Int]
        BY <2>1 DEF TypeInv
    <3> QED BY <2>2, <3>1 DEF LoadedNat
  <2>8. TypeOK
    BY <2>1, <2>3, <2>4, <2>5, <2>6, <2>7 DEF TypeInv, TypeOK
  <2> QED BY <2>1, <2>8 DEF UndoListsAgree, BothLists, OneList
<1> QED BY <1>1, SemInductive, SemQueueInductive, PTL

(* A step changes the program counter of its own task only.                *)
LEMMA OwnPc ==
    ASSUME TypeInv, NEW q \in Procs, Step(q), NEW p \in Procs, p # q
    PROVE  pc'[p] = pc[p]
<1>p. pc \in [Procs -> Labels]
  BY DEF TypeInv
<1>1. CASE ipc_find(q)
  BY <1>p, <1>1 DEF ipc_find, Goto, Return
<1>2. CASE lookup_fails(q)
  BY <1>p, <1>2 DEF lookup_fails, Goto, Return
<1>3. CASE syscall_exit(q)
  BY <1>p, <1>3 DEF syscall_exit, Goto, Return
<1>4. CASE find_undo(q)
  BY <1>p, <1>4 DEF find_undo, Goto, Return
<1>5. CASE undo_getref(q)
  BY <1>p, <1>5 DEF undo_getref, Goto, Return
<1>6. CASE undo_enomem(q)
  BY <1>p, <1>6 DEF undo_enomem, Goto, Return
<1>7. CASE undo_link(q)
  BY <1>p, <1>7 DEF undo_link, Goto, Return
<1>8. CASE semop_return(q)
  BY <1>p, <1>8 DEF semop_return, Goto, Return
<1>9. CASE semop_alter(q)
  BY <1>p, <1>9 DEF semop_alter, Goto, Return
<1>10. CASE semop_sleep(q)
  BY <1>p, <1>10 DEF semop_sleep, Goto, Return
<1>11. CASE semop_wake(q)
  BY <1>p, <1>11 DEF semop_wake, Goto, Return
<1>12. CASE semop_result(q)
  BY <1>p, <1>12 DEF semop_result, Goto, Return
<1>13. CASE semop_relock(q)
  BY <1>p, <1>13 DEF semop_relock, Goto, Return
<1>14. CASE semop_recheck(q)
  BY <1>p, <1>14 DEF semop_recheck, Goto, Return
<1>15. CASE do_smart_update(q)
  BY <1>p, <1>15 DEF do_smart_update, Goto, Return, Scan
<1>16. CASE update_end(q)
  BY <1>p, <1>16 DEF update_end, Goto, Return
<1>17. CASE update_skip(q)
  BY <1>p, <1>17 DEF update_skip, Goto, Return
<1>18. CASE update_complete(q)
  BY <1>p, <1>18 DEF update_complete, Goto, Return
<1>19. CASE wake_next(q)
  BY <1>p, <1>19 DEF wake_next, Goto, Return
<1>20. CASE wake_set(q)
  BY <1>p, <1>20 DEF wake_set, Goto, Return
<1>21. CASE wake_done(q)
  BY <1>p, <1>21 DEF wake_done, Goto, Return
<1>22. CASE ctl_fail(q)
  BY <1>p, <1>22 DEF ctl_fail, Goto, Return
<1>23. CASE setval(q)
  BY <1>p, <1>23 DEF setval, Goto, Return
<1>24. CASE all_getref(q)
  BY <1>p, <1>24 DEF all_getref, Goto, Return
<1>25. CASE all_fail(q)
  BY <1>p, <1>25 DEF all_fail, Goto, Return
<1>26. CASE getall(q)
  BY <1>p, <1>26 DEF getall, Goto, Return
<1>27. CASE setall(q)
  BY <1>p, <1>27 DEF setall, Goto, Return
<1>28. CASE freeary(q)
  BY <1>p, <1>28 DEF freeary, Goto, Return
<1>29. CASE freeary_invalidate(q)
  BY <1>p, <1>29 DEF freeary_invalidate, Goto, Return
<1>30. CASE freeary_unlink(q)
  BY <1>p, <1>30 DEF freeary_unlink, Goto, Return
<1>31. CASE freeary_rmid(q)
  BY <1>p, <1>31 DEF freeary_rmid, Goto, Return
<1>32. CASE freeary_putref(q)
  BY <1>p, <1>32 DEF freeary_putref, Goto, Return
<1>33. CASE exit_read(q)
  BY <1>p, <1>33 DEF exit_read, Goto, Return
<1>34. CASE exit_done(q)
  BY <1>p, <1>34 DEF exit_done, Goto, Return
<1>35. CASE exit_reread(q)
  BY <1>p, <1>35 DEF exit_reread, Goto, Return
<1>36. CASE exit_raced(q)
  BY <1>p, <1>36 DEF exit_raced, Goto, Return
<1>37. CASE exit_adjust(q)
  BY <1>p, <1>37 DEF exit_adjust, Goto, Return
<1> QED BY <1>1, <1>2, <1>3, <1>4, <1>5, <1>6, <1>7, <1>8, <1>9, <1>10, <1>11, <1>12, <1>13, <1>14,
  <1>15, <1>16, <1>17, <1>18, <1>19, <1>20, <1>21, <1>22, <1>23, <1>24, <1>25, <1>26, <1>27, <1>28,
  <1>29, <1>30, <1>31, <1>32, <1>33, <1>34, <1>35, <1>36, <1>37 DEF Step

(* Only get_queue_result() leads from the sleeping part to the end of a    *)
(* call.                                                                   *)
LEMMA OwnResult ==
    ASSUME TypeInv, CallInv, [Next]_vars, NEW p \in Tasks, pc[p] \in {"result", "recheck"}, pc'[p] = "ret"
    PROVE  semop_result(p) \/ semop_recheck(p)
<1>p. p \in Procs /\ pc \in [Procs -> Labels] /\ Children \subseteq Tasks /\ Ctls \subseteq Procs /\ Tasks \subseteq Procs
      /\ p \notin Ctls
  BY Consts DEF TypeInv
<1>1. ASSUME NEW q \in Procs, Step(q) PROVE semop_result(p) \/ semop_recheck(p)
  <2>1. q = p
    BY <1>1, <1>p, OwnPc
  <2>2. CASE q = p
    <3>1. ~ipc_find(p)
        BY <1>p, LockLabels DEF ipc_find, Found, Missing, Goto
    <3>2. ~lookup_fails(p)
        BY <1>p, LockLabels DEF lookup_fails, Found, Missing, Goto
    <3>3. ~syscall_exit(p)
        BY <1>p, LockLabels DEF syscall_exit, Found, Missing, Goto
    <3>4. ~find_undo(p)
        BY <1>p, LockLabels DEF find_undo, Found, Missing, Goto
    <3>5. ~undo_getref(p)
        BY <1>p, LockLabels DEF undo_getref, Found, Missing, Goto
    <3>6. ~undo_enomem(p)
        BY <1>p, LockLabels DEF undo_enomem, Found, Missing, Goto
    <3>7. ~undo_link(p)
        BY <1>p, LockLabels DEF undo_link, Found, Missing, Goto
    <3>8. ~semop_return(p)
        BY <1>p, LockLabels DEF semop_return, Found, Missing, Goto
    <3>9. ~semop_alter(p)
        BY <1>p, LockLabels DEF semop_alter, Found, Missing, Goto
    <3>10. ~semop_sleep(p)
        BY <1>p, LockLabels DEF semop_sleep, Found, Missing, Goto
    <3>11. ~semop_wake(p)
        BY <1>p, LockLabels DEF semop_wake, Found, Missing, Goto
    <3>13. ~semop_relock(p)
        BY <1>p, LockLabels DEF semop_relock, Found, Missing, Goto
    <3>15. ~do_smart_update(p)
        BY <1>p, LockLabels DEF do_smart_update, Found, Missing, Goto
    <3>16. ~update_end(p)
        BY <1>p, LockLabels DEF update_end, Found, Missing, Goto
    <3>17. ~update_skip(p)
        BY <1>p, LockLabels DEF update_skip, Found, Missing, Goto
    <3>18. ~update_complete(p)
        BY <1>p, LockLabels DEF update_complete, Found, Missing, Goto
    <3>19. ~wake_next(p)
        BY <1>p, LockLabels DEF wake_next, Found, Missing, Goto
    <3>20. ~wake_set(p)
        BY <1>p, LockLabels DEF wake_set, Found, Missing, Goto
    <3>21. ~wake_done(p)
        BY <1>p, LockLabels DEF wake_done, Found, Missing, Goto
    <3>22. ~ctl_fail(p)
        BY <1>p, LockLabels DEF ctl_fail, Found, Missing, Goto
    <3>23. ~setval(p)
        BY <1>p, LockLabels DEF setval, Found, Missing, Goto
    <3>24. ~all_getref(p)
        BY <1>p, LockLabels DEF all_getref, Found, Missing, Goto
    <3>25. ~all_fail(p)
        BY <1>p, LockLabels DEF all_fail, Found, Missing, Goto
    <3>26. ~getall(p)
        BY <1>p, LockLabels DEF getall, Found, Missing, Goto
    <3>27. ~setall(p)
        BY <1>p, LockLabels DEF setall, Found, Missing, Goto
    <3>28. ~freeary(p)
        BY <1>p, LockLabels DEF freeary, Found, Missing, Goto
    <3>29. ~freeary_invalidate(p)
        BY <1>p, LockLabels DEF freeary_invalidate, Found, Missing, Goto
    <3>30. ~freeary_unlink(p)
        BY <1>p, LockLabels DEF freeary_unlink, Found, Missing, Goto
    <3>31. ~freeary_rmid(p)
        BY <1>p, LockLabels DEF freeary_rmid, Found, Missing, Goto
    <3>32. ~freeary_putref(p)
        BY <1>p, LockLabels DEF freeary_putref, Found, Missing, Goto
    <3>33. ~exit_read(p)
        BY <1>p, LockLabels DEF exit_read, Found, Missing, Goto
    <3>34. ~exit_done(p)
        BY <1>p, LockLabels DEF exit_done, Found, Missing, Goto
    <3>35. ~exit_reread(p)
        BY <1>p, LockLabels DEF exit_reread, Found, Missing, Goto
    <3>36. ~exit_raced(p)
        BY <1>p, LockLabels DEF exit_raced, Found, Missing, Goto
    <3>37. ~exit_adjust(p)
        BY <1>p, LockLabels DEF exit_adjust, Found, Missing, Goto
    <3> QED BY <1>1, <2>2, <3>1, <3>2, <3>3, <3>4, <3>5, <3>6, <3>7, <3>8, <3>9, <3>10, <3>11,
      <3>13, <3>15, <3>16, <3>17, <3>18, <3>19, <3>20, <3>21, <3>22, <3>23, <3>24, <3>25, <3>26,
      <3>27, <3>28, <3>29, <3>30, <3>31, <3>32, <3>33, <3>34, <3>35, <3>36, <3>37 DEF Step
  <2> QED BY <2>1, <2>2
<1>2. ASSUME NEW q \in Ctls, newary(q) \/ semctl(q) PROVE FALSE
  BY <1>2, <1>p DEF newary, semctl, Goto
<1>3. ASSUME NEW q \in Tasks, semop(q) \/ Signal(q) \/ exit_sem(q) PROVE FALSE
  BY <1>3, <1>p DEF semop, Signal, exit_sem, Goto
<1>4. ASSUME NEW q \in Tasks, NEW c \in Children, copy_semundo(q, c) PROVE FALSE
  BY <1>4, <1>p DEF copy_semundo, Goto
<1>5. ASSUME NEW u \in Tasks, NEW a \in Arrays, free_un(u, a) PROVE FALSE
  BY <1>5 DEF free_un
<1>6. ASSUME NEW a \in Arrays, ipc_immediate_free(a) PROVE FALSE
  BY <1>6 DEF ipc_immediate_free
<1>7. ~UNCHANGED vars
  BY DEF vars
<1> QED BY <1>1, <1>2, <1>3, <1>4, <1>5, <1>6, <1>7 DEF Next

(* A call that slept returns what its waker decided, and EINTR or EAGAIN   *)
(* only when it took its own operation, not performed, off the list.       *)
THEOREM ResultsHonest == ASSUME SafeWakeups PROVE Spec => HonestResults
<1>1. ASSUME IInv, QInv, [Next]_vars, NEW p \in Tasks, pc[p] \in {"result", "recheck"}, pc'[p] = "ret"
      PROVE  IF \E a \in Arrays : p \in Pending(a)
             THEN res'[p] \in {"EINTR", "EAGAIN"} /\ \A a \in Arrays : p \notin Pending(a)'
             ELSE res'[p] = outcome[p]
  <2>1. TypeInv /\ CallInv /\ p \in Procs
    BY <1>1, Parts, Consts
  <2>2. /\ OncePending /\ ComplexCount /\ PendingSleeps /\ SleepsPending /\ OneSet /\ ResultsKept /\ LoadedNat
    BY <1>1, QParts
  <2>3. pc[p] \in QueuePcs /\ p \in DOMAIN res
    BY <1>1, <2>1, <2>2 DEF QueuePcs, LoadedNat
  <2>4. CASE status[p] # "EINTR"
    <3>1. status[p] \notin {"EINTR", "IN_WAKEUP"} /\ res'[p] = status[p]
        BY <1>1, <2>1, <2>3, <2>4, OwnResult DEF semop_result, semop_recheck, get_queue_result,
          Return
    <3>2. \A a \in Arrays : p \notin Pending(a)
        BY <1>1, <2>1, <3>1, Released
    <3>3. status[p] = outcome[p]
        BY <2>1, <2>2, <2>3, <3>1 DEF ResultsKept
    <3> QED BY <3>1, <3>2, <3>3
  <2>5. CASE status[p] = "EINTR"
    <3>1. semop_recheck(p)
      <4>1. ~semop_result(p)
        BY <1>1, <2>1, <2>5 DEF semop_result, Goto, TypeInv
      <4> QED BY <1>1, <2>1, <4>1, OwnResult
    <3>2. PICK a \in Arrays : a = sma[p]
        BY <2>1, <3>1, Locals DEF semop_recheck, Holding
    <3>3. p \in Pending(a)
        BY <2>2, <2>3, <2>5, <3>1, <3>2 DEF SleepsPending, semop_recheck
    <3>4. unlink_queue(a, p) /\ sops' = sops /\ res'[p] \in {"EINTR", "EAGAIN"}
        BY <2>3, <2>5, <3>1, <3>2 DEF semop_recheck, Return, args
    <3>5. \A b \in Arrays : Pending(b)' = Pending(b) \ {p}
        BY <2>1, <2>2, <3>3, <3>4, UnlinkPending
    <3> QED BY <3>3, <3>4, <3>5
  <2> QED BY <2>4, <2>5
<1>2. IInv /\ QInv /\ [Next]_vars =>
        [\A p \in Tasks : pc[p] \in {"result", "recheck"} /\ pc'[p] = "ret" =>
          IF \E a \in Arrays : p \in Pending(a)
          THEN res'[p] \in {"EINTR", "EAGAIN"} /\ \A a \in Arrays : p \notin Pending(a)'
          ELSE res'[p] = outcome[p]]_vars
  BY <1>1
<1> QED BY <1>2, SemInductive, SemQueueInductive, PTL DEF Spec, HonestResults

=============================================================================
