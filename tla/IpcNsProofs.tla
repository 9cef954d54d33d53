---------------------------- MODULE IpcNsProofs -----------------------------
(***************************************************************************)
(* Theorems about IpcNs (ipc/namespace.c, ipc/ipcns_notifier.c, the mounts *)
(* and inodes of ipc/mqueue.c, the recomputation of msgmni in ipc/msg.c):  *)
(* every step keeps the inductive invariant IInv, hence the properties the *)
(* run checks hold for any number of tasks, namespaces and queues.         *)
(***************************************************************************)
EXTENDS IpcNsLemmas

-----------------------------------------------------------------------------
(* The creation of a queue.                                                *)

(* What is pushed below a frame, and what was there, is below it.          *)
LEMMA BelowNext ==
    ASSUME stack \in [Threads -> Seq(FrameSet)], NEW t \in Threads, NEW fs \in Seq(FrameSet), Moves(t, fs),
           NEW i \in 1 .. Len(fs), NEW j \in 1 .. Len(fs), i < j, NEW S, fs[j] \in S
    PROVE  Below(t, i, S)'
<1>1. /\ stack' \in [Threads -> Seq(FrameSet)] /\ Len(stack'[t]) = Len(fs) + Len(stack[t]) - Drop(t)
      /\ \A k \in 1 .. Len(fs) : stack'[t][k] = fs[k]
  BY MoveStack
<1>2. Drop(t) <= Len(stack[t]) /\ Drop(t) \in {0, 1} /\ Len(stack[t]) \in Nat /\ Len(fs) \in Nat
  BY DEF Drop
<1>3. j \in DOMAIN stack'[t]
  BY <1>1, <1>2
<1> QED BY <1>1, <1>3 DEF Below

(* What was below the frame that ran is below each of the new ones.        *)
LEMMA BelowRest ==
    ASSUME stack \in [Threads -> Seq(FrameSet)], NEW t \in Threads, NEW fs \in Seq(FrameSet), Moves(t, fs),
           stack[t] # <<>>, NEW i \in 1 .. Len(fs), NEW S, Below(t, 1, S)
    PROVE  Below(t, i, S)'
<1>1. /\ stack' \in [Threads -> Seq(FrameSet)] /\ Len(stack'[t]) = Len(fs) + Len(stack[t]) - Drop(t)
      /\ \A k \in 1 .. Len(stack[t]) : k > Drop(t) => stack'[t][k + Len(fs) - Drop(t)] = stack[t][k]
  BY MoveStack
<1>2. Drop(t) = 1 /\ Len(stack[t]) \in Nat /\ Len(fs) \in Nat /\ DOMAIN stack[t] = 1 .. Len(stack[t])
  BY DEF Drop
<1>3. PICK k \in 1 .. Len(stack[t]) : k > 1 /\ stack[t][k] \in S
  BY <1>2 DEF Below
<1>4. k + Len(fs) - 1 \in DOMAIN stack'[t] /\ k + Len(fs) - 1 > i /\ stack'[t][k + Len(fs) - 1] = stack[t][k]
  BY <1>1, <1>2, <1>3
<1> QED BY <1>3, <1>4 DEF Below

(* The namespace of a super block that has one, and no other, has it.      *)
LEMMA OneNs ==
    ASSUME MountT, NEW s \in Sbs, NEW x \in Nss, count[x] > 0
    PROVE  mq_mnt[x] = s <=> s_fs_info[s] = x
    BY DEF MountT

(* A creation takes a reference to the namespace, which has queues enough.   *)
LEMMA Ref_mqueue_create_full ==
    ASSUME IInv, NEW t \in Tasks, NEW s \in Sbs, mqueue_create(t, s), may' = may,
           AtLimit(t, s_fs_info[s])
    PROVE  RefInv'
<1>0. /\ TypeInv /\ ShapeInv /\ RefInv /\ stack \in [Threads -> Seq(FrameSet)]
      /\ LifeT /\ RefT /\ MountT /\ QueueT /\ CountedT /\ CountsNat /\ OwnerInv /\ CallInv
  BY Before
<1>00. RefsAdd /\ Unowned
  BY <1>0, RefsAre, NoOwners
<1>1. /\ stack[t] = <<>> /\ t \in Threads /\ Reaches(t, s)
      /\ UNCHANGED <<alive, nsproxy, mq_mnt, s_fs_info, usermnt, inode, mq_bytes>>
  BY DEF mqueue_create, Idle, Reaches, Threads, sbv
<1>2. PICK n, a, b : n = s_fs_info[s] /\ a = Frame("put", n) /\ b = Frame("mntput", s)
  OBVIOUS
<1>3. n \in Nss /\ n # NoNs
  BY <1>2, After_mqueue_create, NsConstants
<1>4. /\ a \in FrameSet /\ a.at = "put" /\ a.of = n
      /\ b \in FrameSet /\ b.at = "mntput" /\ b.of = s
  BY <1>2, <1>3, FrameType DEF Labels
<1>40. ArgsOK(t, a) /\ ArgsOK(t, b)
  <2>1. t # kworker
    BY NsConstants
  <2>2. b = Frame(b.at, b.of) /\ a = Frame(a.at, a.of)
    BY <1>2, <1>4
  <2> QED BY <1>3, <1>4, <2>1, <2>2 DEF ArgsOK, NsLabels
<1>5. count[n] > 0 /\ mq_mnt[n] = s
  BY <1>0, <1>2, <1>3 DEF MountT
<1>6. count' = [count EXCEPT ![n] = @ + 1] /\ \A x \in Nss : count'[x] = count[x] + (IF x = n THEN 1 ELSE 0) /\ count[x] \in Nat
  <2>1. count' = [count EXCEPT ![n] = @ + 1]
    BY <1>2, <1>3 DEF mqueue_create, get_ns_from_inode
  <2>2. \A x \in Nss : count[x] \in Nat
    BY <1>0, CountParts DEF RefInv
  <2> QED BY <1>0, <2>1, <2>2 DEF TypeInv
<1>7. Moves(t, <<a, b>>) /\ TypeInv' /\ <<a, b>> \in Seq(FrameSet)
  BY <1>2, After_mqueue_create DEF Ends
<1>8. /\ \A x \in Nss : tH(x)' = tH(x) + (IF x = n THEN 1 ELSE 0)
      /\ \A x \in Nss : tK(x)' = tK(x)
      /\ \A x \in Nss : tP(x)' = tP(x)
      /\ \A x \in Sbs : tM(x)' = tM(x) + (IF x = s THEN 1 ELSE 0)
      /\ \A x \in Sbs : tX(x)' = tX(x)
      /\ \A x \in Queues : tO(x)' = tO(x)
      /\ \A x \in Nss : tC(x)' = tC(x)
  <2>1. /\ \A x : hH(a, x) = IF x = n THEN 1 ELSE 0
        /\ \A x : hK(a, x) = 0
        /\ \A x : hP(a, x) = 0
        /\ \A x : hM(a, x) = 0
        /\ \A x : hX(a, x) = 0
        /\ \A x : hO(a, x) = 0
        /\ \A x : hC(a, x) = 0
        /\ \A x : hH(b, x) = 0
        /\ \A x : hK(b, x) = 0
        /\ \A x : hP(b, x) = 0
        /\ \A x : hM(b, x) = IF x = s THEN 1 ELSE 0
        /\ \A x : hX(b, x) = 0
        /\ \A x : hO(b, x) = 0
        /\ \A x : hC(b, x) = 0
    BY <1>0, <1>1, <1>4, <1>40, <1>7 DEF hH, hK, hP, hM, hX, hO, hC
  <2>2. /\ \A x \in Nss : tH(x)' = tH(x) + hH(a, x) + hH(b, x)
        /\ \A x \in Nss : tK(x)' = tK(x) + hK(a, x) + hK(b, x)
        /\ \A x \in Nss : tP(x)' = tP(x) + hP(a, x) + hP(b, x)
        /\ \A x \in Sbs : tM(x)' = tM(x) + hM(a, x) + hM(b, x)
        /\ \A x \in Sbs : tX(x)' = tX(x) + hX(a, x) + hX(b, x)
        /\ \A x \in Queues : tO(x)' = tO(x) + hO(a, x) + hO(b, x)
        /\ \A x \in Nss : tC(x)' = tC(x) + hC(a, x) + hC(b, x)
    BY <1>0, <1>1, <1>4, <1>40, <1>7, Call2
  <2>3. \A x \in Nss : tH(x)' = tH(x) + (IF x = n THEN 1 ELSE 0)
    BY <1>0, <2>1, <2>2 DEF CountsNat
  <2>4. \A x \in Nss : tK(x)' = tK(x)
    BY <1>0, <2>1, <2>2 DEF CountsNat
  <2>5. \A x \in Nss : tP(x)' = tP(x)
    BY <1>0, <2>1, <2>2 DEF CountsNat
  <2>6. \A x \in Sbs : tM(x)' = tM(x) + (IF x = s THEN 1 ELSE 0)
    BY <1>0, <2>1, <2>2 DEF CountsNat
  <2>7. \A x \in Sbs : tX(x)' = tX(x)
    BY <1>0, <2>1, <2>2 DEF CountsNat
  <2>8. \A x \in Queues : tO(x)' = tO(x)
    BY <1>0, <2>1, <2>2 DEF CountsNat
  <2>9. \A x \in Nss : tC(x)' = tC(x)
    BY <1>0, <2>1, <2>2 DEF CountsNat
  <2> QED BY <2>3, <2>4, <2>5, <2>6, <2>7, <2>8, <2>9
<1>9. ZeroSame
  BY <1>5, <1>6 DEF ZeroSame
<1>10. RefT'
  <2>1. \A x \in Nss : nT(x)' = nT(x) /\ nT(x) \in Nat
    BY <1>1, TasksStay, TasksNat
  <2>3. \A x \in Nss : tH(x) \in Nat /\ tH(x)' = tH(x) + (IF x = n THEN 1 ELSE 0)
    BY <1>0, <1>8 DEF CountsNat
  <2>4. \A x \in Nss : /\ count'[x] - count[x] = (nT(x)' - nT(x)) + (tH(x)' - tH(x)) /\ tH(x)' \in Int
                       /\ count'[x] \in Int
    BY <1>6, <2>1, <2>3
  <2> QED BY <1>1, <1>0, <1>6, <1>9, <2>1, <2>3, <2>4, RefMoves DEF ZeroSame
<1>11. LifeT'
  BY <1>0, <1>1, <1>8, <1>9, LifeKept
<1>12. RZero
  <2>1. \A x \in Sbs : /\ MntRefs(x)' = MntRefs(x) + tM(x)' - tM(x)
                       /\ MntRefs(x) \in Nat /\ MntRefs(x)' \in Nat /\ tM(x) \in Nat /\ tM(x)' \in Nat
    BY <1>0, <1>1, <1>7, FrameRefs
  <2>2. MntRefs(s) > 0
    BY <1>0, <1>1, ReachRefs
  <2>3. \A x \in Sbs : tM(x)' = tM(x) + (IF x = s THEN 1 ELSE 0)
    BY <1>8
  <2> QED BY <2>1, <2>2, <2>3 DEF RZero
<1>13. MountT'
  BY <1>0, <1>1, <1>8, <1>9, <1>12, MountKept
<1>14. QueueT'
  BY <1>0, <1>1, <1>8, QueueKept
<1>15. CountedT'
  <2>1. mq_queues_count' = mq_queues_count
    BY DEF mqueue_create
  <2> QED BY <1>0, <1>1, <1>8, <1>9, <2>1, CountedKept
<1>16. PICK fs : fs = <<a, b>>
  OBVIOUS
<1>17. /\ fs \in Seq(FrameSet) /\ Moves(t, fs) /\ \A i \in 1 .. Len(fs) : fs[i] \in {a, b}
  BY <1>7, <1>16
<1>18. OwnerInv'
  BY <1>0, <1>1, <1>4, <1>17, OwnersStay
<1>19. CallInv'
  BY <1>0, <1>1, <1>4, <1>17, CallsStay
<1> QED BY <1>10, <1>11, <1>13, <1>14, <1>15, <1>18, <1>19, Behind

(* A creation takes a reference to the namespace and is counted in it.      *)
LEMMA Ref_mqueue_create_ok ==
    ASSUME IInv, NEW t \in Tasks, NEW s \in Sbs, mqueue_create(t, s), may' = may,
           ~AtLimit(t, s_fs_info[s])
    PROVE  RefInv'
<1>0. /\ TypeInv /\ ShapeInv /\ RefInv /\ stack \in [Threads -> Seq(FrameSet)]
      /\ LifeT /\ RefT /\ MountT /\ QueueT /\ CountedT /\ CountsNat /\ OwnerInv /\ CallInv
  BY Before
<1>00. RefsAdd /\ Unowned
  BY <1>0, RefsAre, NoOwners
<1>1. /\ stack[t] = <<>> /\ t \in Threads /\ Reaches(t, s)
      /\ UNCHANGED <<alive, nsproxy, mq_mnt, s_fs_info, usermnt, inode, mq_bytes>>
  BY DEF mqueue_create, Idle, Reaches, Threads, sbv
<1>2. PICK n, a, b : n = s_fs_info[s] /\ a = MkFrame("inode", s, n, ByHand, NoNs) /\ b = Frame("mntput", s)
  OBVIOUS
<1>3. n \in Nss /\ n # NoNs
  BY <1>2, After_mqueue_create, NsConstants
<1>4. /\ a \in FrameSet /\ a.at = "inode" /\ a.of = s /\ a.ns = n
      /\ b \in FrameSet /\ b.at = "mntput" /\ b.of = s
  BY <1>2, <1>3, FrameType DEF Labels
<1>40. ArgsOK(t, a) /\ ArgsOK(t, b)
  <2>1. t # kworker
    BY NsConstants
  <2>2. b = Frame(b.at, b.of) 
    BY <1>2, <1>4
  <2> QED BY <1>3, <1>4, <2>1, <2>2 DEF ArgsOK, NsLabels
<1>5. count[n] > 0 /\ mq_mnt[n] = s
  BY <1>0, <1>2, <1>3 DEF MountT
<1>6. count' = [count EXCEPT ![n] = @ + 1] /\ \A x \in Nss : count'[x] = count[x] + (IF x = n THEN 1 ELSE 0) /\ count[x] \in Nat
  <2>1. count' = [count EXCEPT ![n] = @ + 1]
    BY <1>2, <1>3 DEF mqueue_create, get_ns_from_inode
  <2>2. \A x \in Nss : count[x] \in Nat
    BY <1>0, CountParts DEF RefInv
  <2> QED BY <1>0, <2>1, <2>2 DEF TypeInv
<1>7. Moves(t, <<a, b>>) /\ TypeInv' /\ <<a, b>> \in Seq(FrameSet)
  BY <1>2, After_mqueue_create DEF Ends
<1>8. /\ \A x \in Nss : tH(x)' = tH(x) + (IF x = n THEN 1 ELSE 0)
      /\ \A x \in Nss : tK(x)' = tK(x)
      /\ \A x \in Nss : tP(x)' = tP(x)
      /\ \A x \in Sbs : tM(x)' = tM(x) + (IF x = s THEN 1 ELSE 0)
      /\ \A x \in Sbs : tX(x)' = tX(x)
      /\ \A x \in Queues : tO(x)' = tO(x)
      /\ \A x \in Nss : tC(x)' = tC(x) + (IF x = n THEN 1 ELSE 0)
  <2>1. /\ \A x : hH(a, x) = IF x = n THEN 1 ELSE 0
        /\ \A x : hK(a, x) = 0
        /\ \A x : hP(a, x) = 0
        /\ \A x : hM(a, x) = 0
        /\ \A x : hX(a, x) = 0
        /\ \A x : hO(a, x) = 0
        /\ \A x : hC(a, x) = IF x = n THEN 1 ELSE 0
        /\ \A x : hH(b, x) = 0
        /\ \A x : hK(b, x) = 0
        /\ \A x : hP(b, x) = 0
        /\ \A x : hM(b, x) = IF x = s THEN 1 ELSE 0
        /\ \A x : hX(b, x) = 0
        /\ \A x : hO(b, x) = 0
        /\ \A x : hC(b, x) = 0
    BY <1>0, <1>1, <1>4, <1>40, <1>7 DEF hH, hK, hP, hM, hX, hO, hC
  <2>2. /\ \A x \in Nss : tH(x)' = tH(x) + hH(a, x) + hH(b, x)
        /\ \A x \in Nss : tK(x)' = tK(x) + hK(a, x) + hK(b, x)
        /\ \A x \in Nss : tP(x)' = tP(x) + hP(a, x) + hP(b, x)
        /\ \A x \in Sbs : tM(x)' = tM(x) + hM(a, x) + hM(b, x)
        /\ \A x \in Sbs : tX(x)' = tX(x) + hX(a, x) + hX(b, x)
        /\ \A x \in Queues : tO(x)' = tO(x) + hO(a, x) + hO(b, x)
        /\ \A x \in Nss : tC(x)' = tC(x) + hC(a, x) + hC(b, x)
    BY <1>0, <1>1, <1>4, <1>40, <1>7, Call2
  <2>3. \A x \in Nss : tH(x)' = tH(x) + (IF x = n THEN 1 ELSE 0)
    BY <1>0, <2>1, <2>2 DEF CountsNat
  <2>4. \A x \in Nss : tK(x)' = tK(x)
    BY <1>0, <2>1, <2>2 DEF CountsNat
  <2>5. \A x \in Nss : tP(x)' = tP(x)
    BY <1>0, <2>1, <2>2 DEF CountsNat
  <2>6. \A x \in Sbs : tM(x)' = tM(x) + (IF x = s THEN 1 ELSE 0)
    BY <1>0, <2>1, <2>2 DEF CountsNat
  <2>7. \A x \in Sbs : tX(x)' = tX(x)
    BY <1>0, <2>1, <2>2 DEF CountsNat
  <2>8. \A x \in Queues : tO(x)' = tO(x)
    BY <1>0, <2>1, <2>2 DEF CountsNat
  <2>9. \A x \in Nss : tC(x)' = tC(x) + (IF x = n THEN 1 ELSE 0)
    BY <1>0, <2>1, <2>2 DEF CountsNat
  <2> QED BY <2>3, <2>4, <2>5, <2>6, <2>7, <2>8, <2>9
<1>9. ZeroSame
  BY <1>5, <1>6 DEF ZeroSame
<1>10. RefT'
  <2>1. \A x \in Nss : nT(x)' = nT(x) /\ nT(x) \in Nat
    BY <1>1, TasksStay, TasksNat
  <2>3. \A x \in Nss : tH(x) \in Nat /\ tH(x)' = tH(x) + (IF x = n THEN 1 ELSE 0)
    BY <1>0, <1>8 DEF CountsNat
  <2>4. \A x \in Nss : /\ count'[x] - count[x] = (nT(x)' - nT(x)) + (tH(x)' - tH(x)) /\ tH(x)' \in Int
                       /\ count'[x] \in Int
    BY <1>6, <2>1, <2>3
  <2> QED BY <1>1, <1>0, <1>6, <1>9, <2>1, <2>3, <2>4, RefMoves DEF ZeroSame
<1>11. LifeT'
  BY <1>0, <1>1, <1>8, <1>9, LifeKept
<1>12. RZero
  <2>1. \A x \in Sbs : /\ MntRefs(x)' = MntRefs(x) + tM(x)' - tM(x)
                       /\ MntRefs(x) \in Nat /\ MntRefs(x)' \in Nat /\ tM(x) \in Nat /\ tM(x)' \in Nat
    BY <1>0, <1>1, <1>7, FrameRefs
  <2>2. MntRefs(s) > 0
    BY <1>0, <1>1, ReachRefs
  <2>3. \A x \in Sbs : tM(x)' = tM(x) + (IF x = s THEN 1 ELSE 0)
    BY <1>8
  <2> QED BY <2>1, <2>2, <2>3 DEF RZero
<1>13. MountT'
  BY <1>0, <1>1, <1>8, <1>9, <1>12, MountKept
<1>14. QueueT'
  BY <1>0, <1>1, <1>8, QueueKept
<1>15. CountedT'
  <2>1. mq_queues_count' = [mq_queues_count EXCEPT ![n] = @ + 1]
    BY <1>2 DEF mqueue_create
  <2>2. \A x \in Nss : mq_queues_count'[x] = mq_queues_count[x] + (IF x = n THEN 1 ELSE 0) /\ mq_queues_count[x] \in Int
    BY <1>0, <1>3, <2>1 DEF TypeInv
  <2>3. \A x \in Nss : tC(x)' = tC(x) + (IF x = n THEN 1 ELSE 0) /\ tC(x) \in Nat
    BY <1>0, <1>8 DEF CountsNat
  <2>4. \A x : nQ(x)' = nQ(x) /\ nU(x)' = nU(x)
    BY <1>1 DEF nQ, nU
  <2>5. \A x \in Nss : nQ(x) \in Nat
    <3> SUFFICES ASSUME NEW x \in Nss PROVE nQ(x) \in Nat
        OBVIOUS
    <3>1. IsFiniteSet({q \in Queues : inode[q] # NoQueue /\ inode[q].sb = mq_mnt[x] /\ inode[q].user # NoUser})
        BY NsConstants, FS_Subset
    <3> QED BY <3>1, FS_CardinalityType DEF nQ
  <2>6. ASSUME NEW x \in alive, count'[x] > 0
        PROVE  mq_queues_count'[x] = nQ(x)' + tC(x)'
    <3>1. x \in Nss /\ count[x] > 0
        BY <1>0, <1>9, <2>6 DEF TypeInv, ZeroSame
    <3>2. mq_queues_count[x] = nQ(x) + tC(x)
        BY <1>0, <2>6, <3>1 DEF CountedT
    <3>3. mq_queues_max \in Nat
        BY NsConstants
    <3> QED BY <2>1, <2>2, <2>3, <2>4, <2>5, <3>1, <3>2, <3>3
  <2>7. alive' = alive /\ mq_bytes' = mq_bytes
    BY <1>1
  <2> QED BY <1>0, <2>4, <2>6, <2>7 DEF CountedT
<1>16. PICK fs : fs = <<a, b>>
  OBVIOUS
<1>17. /\ fs \in Seq(FrameSet) /\ Moves(t, fs) /\ \A i \in 1 .. Len(fs) : fs[i] \in {a, b}
  BY <1>7, <1>16
<1>18. OwnerInv'
  BY <1>0, <1>1, <1>4, <1>17, OwnersStay
<1>19. CallInv'
  <2>1. \A i \in 1 .. Len(fs) : CallOK(fs[i])'
    BY <1>1, <1>2, <1>4, <1>17 DEF CallOK
  <2>2. \A f : CallOK(f) => CallOK(f)'
    BY <1>1 DEF CallOK
  <2> QED BY <1>0, <1>1, <1>17, <2>1, <2>2, CallStep
<1> QED BY <1>10, <1>11, <1>13, <1>14, <1>15, <1>18, <1>19, Behind

(* new_inode() fails: what the creation had is given back by two frames.   *)
LEMMA Ref_new_inode_fails ==
    ASSUME IInv, NEW t \in Threads, new_inode_fails(t), may' = may
    PROVE  RefInv'
<1>0. /\ TypeInv /\ ShapeInv /\ RefInv /\ stack \in [Threads -> Seq(FrameSet)]
      /\ LifeT /\ RefT /\ MountT /\ QueueT /\ CountedT /\ CountsNat /\ OwnerInv /\ CallInv
  BY Before
<1>00. RefsAdd /\ Unowned
  BY <1>0, RefsAre, NoOwners
<1>1. stack[t] # <<>> /\ At(t, "inode") /\ UNCHANGED <<alive, count, nsproxy, mq_mnt, s_fs_info, usermnt, inode, mq_queues_count, mq_bytes>>
  BY DEF new_inode_fails, At, nsv, sbv, queuev
<1>2. PICK h, s, n : h = Head(stack[t]) /\ s = Arg(t) /\ n = Head(stack[t]).ns
  OBVIOUS
<1>3. /\ h \in FrameSet /\ ArgsOK(t, h) /\ h.at = "inode" /\ h.of = s /\ h.ns = n /\ n \in Nss /\ s \in Sbs
      /\ h \in Frames(t) /\ t \in Tasks
  BY <1>0, <1>1, <1>2, HeadFacts, TaskRuns DEF At, Arg, ArgsOK, NsLabels
<1>4. s_fs_info[s] = n /\ count[n] > 0 /\ mq_mnt[n] = s /\ s_fs_info[s] # NoSb
  <2>1. s_fs_info[s] = n /\ count[n] > 0
    BY <1>0, <1>3, Held DEF CallInv
  <2> QED BY <1>0, <1>3, <2>1, NsConstants DEF MountT
<1>5. Below(t, 1, {Frame("mntput", s)})
  BY <1>0, <1>1, <1>2, <1>3, HeadFacts DEF Shape
<1>6. PICK a, b : a = Frame("uncount", n) /\ b = Frame("put", n)
  OBVIOUS
<1>60. /\ a \in FrameSet /\ ArgsOK(t, a) /\ a.at = "uncount" /\ a.of = n
      /\ b \in FrameSet /\ ArgsOK(t, b) /\ b.at = "put" /\ b.of = n
  BY <1>3, <1>6, PlainFrames DEF NsLabels
<1>7. Moves(t, <<a, b>>) /\ TypeInv' /\ <<a, b>> \in Seq(FrameSet)
  BY <1>2, <1>6, After_new_inode_fails DEF Ends
<1>8. /\ \A x \in Nss : tH(x)' = tH(x) + (IF x = n THEN 1 ELSE 0) - (IF x = n THEN 1 ELSE 0)
      /\ \A x \in Nss : tK(x)' = tK(x)
      /\ \A x \in Nss : tP(x)' = tP(x)
      /\ \A x \in Sbs : tM(x)' = tM(x)
      /\ \A x \in Sbs : tX(x)' = tX(x)
      /\ \A x \in Queues : tO(x)' = tO(x)
      /\ \A x \in Nss : tC(x)' = tC(x) + (IF x = n THEN 1 ELSE 0) - (IF x = n THEN 1 ELSE 0)
  <2>1. /\ \A x : hH(a, x) = 0
        /\ \A x : hK(a, x) = 0
        /\ \A x : hP(a, x) = 0
        /\ \A x : hM(a, x) = 0
        /\ \A x : hX(a, x) = 0
        /\ \A x : hO(a, x) = 0
        /\ \A x : hC(a, x) = IF x = n THEN 1 ELSE 0
        /\ \A x : hH(b, x) = IF x = n THEN 1 ELSE 0
        /\ \A x : hK(b, x) = 0
        /\ \A x : hP(b, x) = 0
        /\ \A x : hM(b, x) = 0
        /\ \A x : hX(b, x) = 0
        /\ \A x : hO(b, x) = 0
        /\ \A x : hC(b, x) = 0
        /\ \A x : hH(h, x) = IF x = n THEN 1 ELSE 0
        /\ \A x : hK(h, x) = 0
        /\ \A x : hP(h, x) = 0
        /\ \A x : hM(h, x) = 0
        /\ \A x : hX(h, x) = 0
        /\ \A x : hO(h, x) = 0
        /\ \A x : hC(h, x) = IF x = n THEN 1 ELSE 0
    BY <1>0, <1>1, <1>2, <1>3, <1>60, <1>7 DEF hH, hK, hP, hM, hX, hO, hC
  <2>2. /\ \A x \in Nss : tH(x)' = tH(x) + hH(a, x) + hH(b, x) - hH(h, x)
        /\ \A x \in Nss : tK(x)' = tK(x) + hK(a, x) + hK(b, x) - hK(h, x)
        /\ \A x \in Nss : tP(x)' = tP(x) + hP(a, x) + hP(b, x) - hP(h, x)
        /\ \A x \in Sbs : tM(x)' = tM(x) + hM(a, x) + hM(b, x) - hM(h, x)
        /\ \A x \in Sbs : tX(x)' = tX(x) + hX(a, x) + hX(b, x) - hX(h, x)
        /\ \A x \in Queues : tO(x)' = tO(x) + hO(a, x) + hO(b, x) - hO(h, x)
        /\ \A x \in Nss : tC(x)' = tC(x) + hC(a, x) + hC(b, x) - hC(h, x)
    BY <1>0, <1>1, <1>2, <1>3, <1>60, <1>7, Pop2
  <2>3. \A x \in Nss : tH(x)' = tH(x) + (IF x = n THEN 1 ELSE 0) - (IF x = n THEN 1 ELSE 0)
    BY <1>0, <2>1, <2>2 DEF CountsNat
  <2>4. \A x \in Nss : tK(x)' = tK(x)
    BY <1>0, <2>1, <2>2 DEF CountsNat
  <2>5. \A x \in Nss : tP(x)' = tP(x)
    BY <1>0, <2>1, <2>2 DEF CountsNat
  <2>6. \A x \in Sbs : tM(x)' = tM(x)
    BY <1>0, <2>1, <2>2 DEF CountsNat
  <2>7. \A x \in Sbs : tX(x)' = tX(x)
    BY <1>0, <2>1, <2>2 DEF CountsNat
  <2>8. \A x \in Queues : tO(x)' = tO(x)
    BY <1>0, <2>1, <2>2 DEF CountsNat
  <2>9. \A x \in Nss : tC(x)' = tC(x) + (IF x = n THEN 1 ELSE 0) - (IF x = n THEN 1 ELSE 0)
    BY <1>0, <2>1, <2>2 DEF CountsNat
  <2> QED BY <2>3, <2>4, <2>5, <2>6, <2>7, <2>8, <2>9
<1>9. HSame /\ KSame /\ PSame /\ MSame /\ XSame /\ OSame /\ CSame
  <2>1. \A x \in Nss : tH(x)' = tH(x) /\ tC(x)' = tC(x)
    BY <1>0, <1>8 DEF CountsNat
  <2> QED BY <1>8, <2>1, SameCounts
<1>10. LifeInv' /\ RefCount' /\ MountInv'
  BY <1>0, <1>1, <1>9, LifeSame, RefSame, RefsSame, MountSame DEF RefInv
<1>11. QueueInv' /\ QueueCounts'
  BY <1>0, <1>1, <1>9, QueueSame, CountedSame DEF RefInv, TypeInv
<1>12. OwnerInv' /\ CallInv'
  <2>1. PICK fs : fs = <<a, b>>
    OBVIOUS
  <2>2. \A i \in 1 .. Len(fs) : fs[i] \in {a, b}
    BY <2>1
  <2> QED BY <1>0, <1>1, <1>60, <1>7, <2>1, <2>2, OwnersStay, CallsStay
<1> QED BY <1>10, <1>11, <1>12 DEF RefInv

(* A creation that failed is not counted any more.                         *)
LEMMA Ref_uncount ==
    ASSUME IInv, NEW t \in Threads, uncount(t), may' = may
    PROVE  RefInv'
<1>0. /\ TypeInv /\ ShapeInv /\ RefInv /\ stack \in [Threads -> Seq(FrameSet)]
      /\ LifeT /\ RefT /\ MountT /\ QueueT /\ CountedT /\ CountsNat /\ OwnerInv /\ CallInv
  BY Before
<1>00. RefsAdd /\ Unowned
  BY <1>0, RefsAre, NoOwners
<1>1. stack[t] # <<>> /\ At(t, "uncount") /\ UNCHANGED <<alive, count, nsproxy, mq_mnt, s_fs_info, usermnt, inode, mq_bytes>>
  BY DEF uncount, At, nsv, sbv
<1>2. PICK h, n : h = Head(stack[t]) /\ n = Arg(t)
  OBVIOUS
<1>3. /\ h \in FrameSet /\ ArgsOK(t, h) /\ h.at = "uncount" /\ h.of = n /\ n \in Nss /\ h \in Frames(t)
      /\ t \in Tasks
  BY <1>0, <1>1, <1>2, HeadFacts, TaskRuns DEF At, Arg, ArgsOK, NsLabels
<1>7. Moves(t, <<>>) /\ TypeInv' /\ <<>> \in Seq(FrameSet)
  BY After_uncount DEF Ends
<1>8. /\ \A x \in Nss : tH(x)' = tH(x)
      /\ \A x \in Nss : tK(x)' = tK(x)
      /\ \A x \in Nss : tP(x)' = tP(x)
      /\ \A x \in Sbs : tM(x)' = tM(x)
      /\ \A x \in Sbs : tX(x)' = tX(x)
      /\ \A x \in Queues : tO(x)' = tO(x)
      /\ \A x \in Nss : tC(x)' = tC(x) - (IF x = n THEN 1 ELSE 0)
  <2>1. /\ \A x : hH(h, x) = 0
        /\ \A x : hK(h, x) = 0
        /\ \A x : hP(h, x) = 0
        /\ \A x : hM(h, x) = 0
        /\ \A x : hX(h, x) = 0
        /\ \A x : hO(h, x) = 0
        /\ \A x : hC(h, x) = IF x = n THEN 1 ELSE 0
    BY <1>0, <1>1, <1>2, <1>3, <1>7 DEF hH, hK, hP, hM, hX, hO, hC
  <2>2. /\ \A x \in Nss : tH(x)' = tH(x) - hH(h, x)
        /\ \A x \in Nss : tK(x)' = tK(x) - hK(h, x)
        /\ \A x \in Nss : tP(x)' = tP(x) - hP(h, x)
        /\ \A x \in Sbs : tM(x)' = tM(x) - hM(h, x)
        /\ \A x \in Sbs : tX(x)' = tX(x) - hX(h, x)
        /\ \A x \in Queues : tO(x)' = tO(x) - hO(h, x)
        /\ \A x \in Nss : tC(x)' = tC(x) - hC(h, x)
    BY <1>0, <1>1, <1>2, <1>3, <1>7, Pop0
  <2>3. \A x \in Nss : tH(x)' = tH(x)
    BY <1>0, <2>1, <2>2 DEF CountsNat
  <2>4. \A x \in Nss : tK(x)' = tK(x)
    BY <1>0, <2>1, <2>2 DEF CountsNat
  <2>5. \A x \in Nss : tP(x)' = tP(x)
    BY <1>0, <2>1, <2>2 DEF CountsNat
  <2>6. \A x \in Sbs : tM(x)' = tM(x)
    BY <1>0, <2>1, <2>2 DEF CountsNat
  <2>7. \A x \in Sbs : tX(x)' = tX(x)
    BY <1>0, <2>1, <2>2 DEF CountsNat
  <2>8. \A x \in Queues : tO(x)' = tO(x)
    BY <1>0, <2>1, <2>2 DEF CountsNat
  <2>9. \A x \in Nss : tC(x)' = tC(x) - (IF x = n THEN 1 ELSE 0)
    BY <1>0, <2>1, <2>2 DEF CountsNat
  <2> QED BY <2>3, <2>4, <2>5, <2>6, <2>7, <2>8, <2>9
<1>9. HSame /\ KSame /\ PSame /\ MSame /\ XSame /\ OSame
  BY <1>8, SameCounts
<1>10. LifeInv' /\ RefCount' /\ MountInv' /\ QueueInv'
  BY <1>0, <1>1, <1>9, LifeSame, RefSame, RefsSame, MountSame, QueueSame DEF RefInv
<1>11. CountedT'
  <2>1. mq_queues_count' = [mq_queues_count EXCEPT ![n] = @ - 1]
    BY <1>2 DEF uncount
  <2>2. \A x \in Nss : mq_queues_count'[x] = mq_queues_count[x] - (IF x = n THEN 1 ELSE 0) /\ mq_queues_count[x] \in Int
    BY <1>0, <1>3, <2>1 DEF TypeInv
  <2>3. \A x \in Nss : tC(x)' = tC(x) - (IF x = n THEN 1 ELSE 0) /\ tC(x) \in Nat
    BY <1>0, <1>8 DEF CountsNat
  <2>4. \A x : nQ(x)' = nQ(x) /\ nU(x)' = nU(x)
    BY <1>1 DEF nQ, nU
  <2>5. \A x \in Nss : nQ(x) \in Nat
    <3> SUFFICES ASSUME NEW x \in Nss PROVE nQ(x) \in Nat
        OBVIOUS
    <3>1. IsFiniteSet({q \in Queues : inode[q] # NoQueue /\ inode[q].sb = mq_mnt[x] /\ inode[q].user # NoUser})
        BY NsConstants, FS_Subset
    <3> QED BY <3>1, FS_CardinalityType DEF nQ
  <2>6. ASSUME NEW x \in alive, count[x] > 0
        PROVE  mq_queues_count'[x] = nQ(x)' + tC(x)'
    <3>1. x \in Nss
        BY <1>0 DEF TypeInv
    <3>2. mq_queues_count[x] = nQ(x) + tC(x)
        BY <1>0, <2>6, <3>1 DEF CountedT
    <3>3. mq_queues_max \in Nat
        BY NsConstants
    <3> QED BY <2>1, <2>2, <2>3, <2>4, <2>5, <3>1, <3>2, <3>3
  <2>7. alive' = alive /\ mq_bytes' = mq_bytes /\ count' = count
    BY <1>1
  <2> QED BY <1>0, <2>4, <2>6, <2>7 DEF CountedT
<1>12. OwnerInv' /\ CallInv'
  <2>2. PICK fs : fs = <<>>
    OBVIOUS
  <2>1. fs \in Seq(FrameSet) /\ \A i \in 1 .. Len(fs) : FALSE
    BY <2>2
  <2> QED BY <1>0, <1>1, <1>7, <2>1, <2>2, OwnersStay, CallsStay
<1> QED BY <1>10, <1>11, <1>12, Restated DEF RefInv

(* A new queue, which its user pays for and the creation owns.             *)
LEMMA Ref_mqueue_get_inode ==
    ASSUME IInv, NEW t \in Threads, mqueue_get_inode(t), may' = may
    PROVE  RefInv'
<1>0. /\ TypeInv /\ ShapeInv /\ RefInv /\ stack \in [Threads -> Seq(FrameSet)]
      /\ LifeT /\ RefT /\ MountT /\ QueueT /\ CountedT /\ CountsNat /\ OwnerInv /\ CallInv
  BY Before
<1>00. RefsAdd /\ Unowned
  BY <1>0, RefsAre, NoOwners
<1>1. stack[t] # <<>> /\ At(t, "inode") /\ UNCHANGED <<alive, count, nsproxy, mq_mnt, s_fs_info, usermnt, mq_queues_count>>
  BY DEF mqueue_get_inode, At, nsv, sbv
<1>2. PICK h, s, n : h = Head(stack[t]) /\ s = Arg(t) /\ n = Head(stack[t]).ns
  OBVIOUS
<1>3. /\ h \in FrameSet /\ ArgsOK(t, h) /\ h.at = "inode" /\ h.of = s /\ h.ns = n /\ n \in Nss /\ s \in Sbs
      /\ h \in Frames(t) /\ t \in Tasks
  BY <1>0, <1>1, <1>2, HeadFacts, TaskRuns DEF At, Arg, ArgsOK, NsLabels
<1>4. s_fs_info[s] = n /\ count[n] > 0 /\ mq_mnt[n] = s /\ s_fs_info[s] # NoSb
  <2>1. s_fs_info[s] = n /\ count[n] > 0
    BY <1>0, <1>3, Held DEF CallInv
  <2> QED BY <1>0, <1>3, <2>1, NsConstants DEF MountT
<1>5. Below(t, 1, {Frame("mntput", s)})
  BY <1>0, <1>1, <1>2, <1>3, HeadFacts DEF Shape
<1>50. \E q \in Queues : /\ First(q, FreeQueues) /\ inode' = [inode EXCEPT ![q] = NewQueue(s, UserOf[t])]
                         /\ Ends(t, <<Frame("put", n), Frame("instantiate", q)>>)
  BY <1>2, After_mqueue_get_inode
<1>51. PICK p \in Queues : /\ First(p, FreeQueues) /\ inode' = [inode EXCEPT ![p] = NewQueue(s, UserOf[t])]
                          /\ Ends(t, <<Frame("put", n), Frame("instantiate", p)>>)
  BY <1>50
<1>52. PICK v : v = UserOf[t]
  OBVIOUS
<1>53. /\ inode[p] = NoQueue /\ inode' = [inode EXCEPT ![p] = NewQueue(s, v)]
       /\ v \in Users /\ v # NoUser
  BY <1>3, <1>51, <1>52, NsConstants DEF First, FreeQueues, Users
<1>54. /\ inode'[p].sb = s /\ inode'[p].user = v /\ inode'[p].link = FALSE /\ inode'[p].fds = {}
       /\ inode'[p] # NoQueue /\ \A q \in Queues : q # p => inode'[q] = inode[q]
  <2>1. inode'[p] = NewQueue(s, v) /\ \A q \in Queues : q # p => inode'[q] = inode[q]
    BY <1>0, <1>53 DEF TypeInv
  <2>2. NewQueue(s, v) \in QueueRecord
    BY <1>3, <1>53 DEF NewQueue, QueueRecord
  <2>3. inode'[p] # NoQueue
    BY <2>1, <2>2, NsConstants
  <2> QED BY <2>1, <2>3 DEF NewQueue
<1>6. PICK a, b : a = Frame("put", n) /\ b = Frame("instantiate", p)
  OBVIOUS
<1>60. /\ a \in FrameSet /\ ArgsOK(t, a) /\ a.at = "put" /\ a.of = n
      /\ b \in FrameSet /\ ArgsOK(t, b) /\ b.at = "instantiate" /\ b.of = p
  BY <1>3, <1>6, PlainFrames DEF NsLabels
<1>7. Moves(t, <<a, b>>) /\ TypeInv' /\ <<a, b>> \in Seq(FrameSet)
  BY <1>51, <1>6 DEF Ends
<1>8. /\ \A x \in Nss : tH(x)' = tH(x) + (IF x = n THEN 1 ELSE 0) - (IF x = n THEN 1 ELSE 0)
      /\ \A x \in Nss : tK(x)' = tK(x)
      /\ \A x \in Nss : tP(x)' = tP(x)
      /\ \A x \in Sbs : tM(x)' = tM(x)
      /\ \A x \in Sbs : tX(x)' = tX(x)
      /\ \A x \in Queues : tO(x)' = tO(x) + (IF x = p THEN 1 ELSE 0)
      /\ \A x \in Nss : tC(x)' = tC(x) - (IF x = n THEN 1 ELSE 0)
  <2>1. /\ \A x : hH(a, x) = IF x = n THEN 1 ELSE 0
        /\ \A x : hK(a, x) = 0
        /\ \A x : hP(a, x) = 0
        /\ \A x : hM(a, x) = 0
        /\ \A x : hX(a, x) = 0
        /\ \A x : hO(a, x) = 0
        /\ \A x : hC(a, x) = 0
        /\ \A x : hH(b, x) = 0
        /\ \A x : hK(b, x) = 0
        /\ \A x : hP(b, x) = 0
        /\ \A x : hM(b, x) = 0
        /\ \A x : hX(b, x) = 0
        /\ \A x : hO(b, x) = IF x = p THEN 1 ELSE 0
        /\ \A x : hC(b, x) = 0
        /\ \A x : hH(h, x) = IF x = n THEN 1 ELSE 0
        /\ \A x : hK(h, x) = 0
        /\ \A x : hP(h, x) = 0
        /\ \A x : hM(h, x) = 0
        /\ \A x : hX(h, x) = 0
        /\ \A x : hO(h, x) = 0
        /\ \A x : hC(h, x) = IF x = n THEN 1 ELSE 0
    BY <1>0, <1>1, <1>2, <1>3, <1>60, <1>7 DEF hH, hK, hP, hM, hX, hO, hC
  <2>2. /\ \A x \in Nss : tH(x)' = tH(x) + hH(a, x) + hH(b, x) - hH(h, x)
        /\ \A x \in Nss : tK(x)' = tK(x) + hK(a, x) + hK(b, x) - hK(h, x)
        /\ \A x \in Nss : tP(x)' = tP(x) + hP(a, x) + hP(b, x) - hP(h, x)
        /\ \A x \in Sbs : tM(x)' = tM(x) + hM(a, x) + hM(b, x) - hM(h, x)
        /\ \A x \in Sbs : tX(x)' = tX(x) + hX(a, x) + hX(b, x) - hX(h, x)
        /\ \A x \in Queues : tO(x)' = tO(x) + hO(a, x) + hO(b, x) - hO(h, x)
        /\ \A x \in Nss : tC(x)' = tC(x) + hC(a, x) + hC(b, x) - hC(h, x)
    BY <1>0, <1>1, <1>2, <1>3, <1>60, <1>7, Pop2
  <2>3. \A x \in Nss : tH(x)' = tH(x) + (IF x = n THEN 1 ELSE 0) - (IF x = n THEN 1 ELSE 0)
    BY <1>0, <2>1, <2>2 DEF CountsNat
  <2>4. \A x \in Nss : tK(x)' = tK(x)
    BY <1>0, <2>1, <2>2 DEF CountsNat
  <2>5. \A x \in Nss : tP(x)' = tP(x)
    BY <1>0, <2>1, <2>2 DEF CountsNat
  <2>6. \A x \in Sbs : tM(x)' = tM(x)
    BY <1>0, <2>1, <2>2 DEF CountsNat
  <2>7. \A x \in Sbs : tX(x)' = tX(x)
    BY <1>0, <2>1, <2>2 DEF CountsNat
  <2>8. \A x \in Queues : tO(x)' = tO(x) + (IF x = p THEN 1 ELSE 0)
    BY <1>0, <2>1, <2>2 DEF CountsNat
  <2>9. \A x \in Nss : tC(x)' = tC(x) - (IF x = n THEN 1 ELSE 0)
    BY <1>0, <2>1, <2>2 DEF CountsNat
  <2> QED BY <2>3, <2>4, <2>5, <2>6, <2>7, <2>8, <2>9
<1>9. HSame /\ KSame /\ PSame /\ XSame
  <2>1. \A x \in Nss : tH(x)' = tH(x)
    BY <1>0, <1>8 DEF CountsNat
  <2> QED BY <1>8, <2>1, SameCounts
<1>10. LifeInv' /\ RefCount'
  BY <1>0, <1>1, <1>9, LifeSame, RefSame DEF RefInv
<1>11. \A x \in Sbs : MntRefs(x)' = MntRefs(x) /\ tX(x)' = tX(x)
  <2>1. RefsAdd /\ RefsAdd'
    BY <1>0, <1>7, RefsAre, PTL
  <2>2. \A x : OwnMounts(x)' = OwnMounts(x) /\ UserMount(x)' = UserMount(x)
    BY <1>1 DEF OwnMounts, UserMount
  <2>3. \A x \in Sbs : Fds(x)' = Fds(x)
    <3>1. \A x \in Sbs : Fds(x)' = Fds(x) + FdsOf(p, x)' - FdsOf(p, x)
        BY <1>0, <1>7, <1>54, FdsChange
    <3>2. Cardinality({}) = 0
        BY FS_EmptySet
    <3>3. \A x : FdsOf(p, x)' = 0 /\ FdsOf(p, x) = 0
        BY <1>53, <1>54, <3>2 DEF FdsOf
    <3> QED BY <2>1, <3>1, <3>3 DEF RefsAdd
  <2> QED BY <1>8, <2>1, <2>2, <2>3 DEF RefsAdd
<1>12. MountT'
  BY <1>0, <1>1, <1>11 DEF MountT
<1>13. tO(p) = 0 /\ tO(p)' = 1 /\ \A q \in Queues : q # p => tO(q)' = tO(q)
  <2>1. tO(p) = 0
    BY <1>0, <1>53 DEF QueueT
  <2> QED BY <1>0, <1>8, <2>1 DEF CountsNat
<1>14. QueueT'
  <2>1. \A q \in Queues : inode[q] # NoQueue => inode[q].sb \in Sbs
    BY <1>0 DEF TypeInv, QueueRecord
  <2>2. s_fs_info' = s_fs_info
    BY <1>1
  <2> QED BY <1>0, <1>4, <1>11, <1>13, <1>54, <2>1, <2>2 DEF QueueT
<1>15. CountedT'
  <2>1. /\ \A x \in Nss : nQ(x)' = nQ(x) + cQ(p, x)' - cQ(p, x) /\ nQ(x) \in Nat /\ nQ(x)' \in Nat
        /\ \A u \in Users : nU(u)' = nU(u) + cU(p, u)' - cU(p, u) /\ nU(u) \in Nat /\ nU(u)' \in Nat
    BY <1>1, <1>54, QueuesChange
  <2>2. /\ \A x : cQ(p, x) = 0 /\ cU(p, x) = 0
        /\ \A x \in Nss : count[x] > 0 => cQ(p, x)' = IF x = n THEN 1 ELSE 0
        /\ \A u \in Users : cU(p, u)' = IF u = v THEN 1 ELSE 0
    <3>1. \A x \in Nss : count[x] > 0 => (mq_mnt'[x] = s <=> x = n)
        BY <1>0, <1>1, <1>3, <1>4, OneNs
    <3> QED BY <1>53, <1>54, <3>1 DEF cQ, cU
  <2>3. \A x \in Nss : tC(x)' = tC(x) - (IF x = n THEN 1 ELSE 0) /\ tC(x) \in Nat
    BY <1>0, <1>8 DEF CountsNat
  <2>4. ASSUME NEW x \in alive, count[x] > 0
        PROVE  mq_queues_count[x] = nQ(x)' + tC(x)'
    <3>1. x \in Nss
        BY <1>0 DEF TypeInv
    <3>2. mq_queues_count[x] = nQ(x) + tC(x)
        BY <1>0, <2>4, <3>1 DEF CountedT
    <3> QED BY <2>1, <2>2, <2>3, <2>4, <3>1, <3>2
  <2>5. \A u \in Users : mq_bytes'[u] = nU(u)'
    <3>1. mq_bytes' = [mq_bytes EXCEPT ![v] = @ + 1]
        BY <1>52 DEF mqueue_get_inode
    <3>2. \A u \in Users : mq_bytes'[u] = mq_bytes[u] + (IF u = v THEN 1 ELSE 0) /\ mq_bytes[u] \in Int
        BY <1>0, <1>53, <3>1 DEF TypeInv
    <3>3. \A u \in Users : mq_bytes[u] = nU(u)
        BY <1>0 DEF CountedT
    <3> QED BY <2>1, <2>2, <3>2, <3>3
  <2>6. alive' = alive /\ count' = count /\ mq_queues_count' = mq_queues_count
    BY <1>1
  <2> QED BY <2>4, <2>5, <2>6 DEF CountedT
<1>16. PICK fs : fs = <<a, b>>
  OBVIOUS
<1>17. /\ fs \in Seq(FrameSet) /\ Moves(t, fs) /\ Len(fs) = 2 /\ fs[1] = a /\ fs[2] = b
       /\ \A i \in 1 .. Len(fs) : i \in 1 .. 2 /\ fs[i] \in {a, b}
  BY <1>7, <1>16
<1>18. \A u \in Threads : \A f \in Frames(u) : f \notin Owners(p)
  BY <1>00, <1>13 DEF Unowned
<1>19. OwnerInv'
  <2>1. ASSUME NEW i \in 1 .. Len(fs), NEW q \in Queues, fs[i] \in Owners(q)
        PROVE  Below(t, i, Keepers(fs[i], inode[q].sb))'
    <3>1. i = 2 /\ q = p /\ fs[i] = b
        BY <1>17, <1>60, <2>1 DEF Owners
    <3>2. PICK S : S = {Frame("mntput", s)}
        OBVIOUS
    <3>3. Below(t, i, S)'
        BY <1>0, <1>1, <1>5, <1>17, <3>2, BelowRest
    <3>4. S \subseteq Keepers(fs[i], inode'[q].sb)
        BY <1>54, <3>1, <3>2 DEF Keepers
    <3>5. PICK K : K = Keepers(fs[i], inode'[q].sb)
        OBVIOUS
    <3>6. Below(t, i, K)'
        BY <3>3, <3>4, <3>5 DEF Below
    <3> QED BY <3>5, <3>6 DEF Below, Keepers
  <2>2. \A q \in Queues : \/ inode'[q].sb = inode[q].sb
                           \/ \A u \in Threads : \A f \in Frames(u) : f \notin Owners(q)
    BY <1>18, <1>54
  <2> QED BY <1>0, <1>17, <2>1, <2>2, OwnerStep
<1>20. CallInv'
  <2>1. \A i \in 1 .. Len(fs) : CallOK(fs[i])'
    BY <1>17, <1>54, <1>60 DEF CallOK
  <2>2. ASSUME NEW u \in Threads, NEW f \in Frames(u), CallOK(f) PROVE CallOK(f)'
    <3>1. f \in FrameSet /\ ArgsOK(u, f) /\ f \notin Owners(p)
        BY <1>0, <1>18, AllArgs
    <3>2. f.at \in {"instantiate", "release"} => f.of # p /\ f.of \in Queues
        BY <3>1 DEF Owners, ArgsOK
    <3> QED BY <1>1, <1>54, <2>2, <3>2 DEF CallOK
  <2> QED BY <1>0, <1>17, <2>1, <2>2, CallStep
<1> QED BY <1>10, <1>12, <1>14, <1>15, <1>19, <1>20, Restated DEF RefInv

(* A new queue that nobody pays for, deleted at once.                      *)
LEMMA Ref_mqueue_get_inode_fails ==
    ASSUME IInv, NEW t \in Threads, mqueue_get_inode_fails(t), may' = may
    PROVE  RefInv'
<1>0. /\ TypeInv /\ ShapeInv /\ RefInv /\ stack \in [Threads -> Seq(FrameSet)]
      /\ LifeT /\ RefT /\ MountT /\ QueueT /\ CountedT /\ CountsNat /\ OwnerInv /\ CallInv
  BY Before
<1>00. RefsAdd /\ Unowned
  BY <1>0, RefsAre, NoOwners
<1>1. stack[t] # <<>> /\ At(t, "inode") /\ UNCHANGED <<alive, count, nsproxy, mq_mnt, s_fs_info, usermnt, mq_queues_count, mq_bytes>>
  BY DEF mqueue_get_inode_fails, At, nsv, sbv
<1>2. PICK h, s, n : h = Head(stack[t]) /\ s = Arg(t) /\ n = Head(stack[t]).ns
  OBVIOUS
<1>3. /\ h \in FrameSet /\ ArgsOK(t, h) /\ h.at = "inode" /\ h.of = s /\ h.ns = n /\ n \in Nss /\ s \in Sbs
      /\ h \in Frames(t) /\ t \in Tasks
  BY <1>0, <1>1, <1>2, HeadFacts, TaskRuns DEF At, Arg, ArgsOK, NsLabels
<1>4. s_fs_info[s] = n /\ count[n] > 0 /\ mq_mnt[n] = s /\ s_fs_info[s] # NoSb
  <2>1. s_fs_info[s] = n /\ count[n] > 0
    BY <1>0, <1>3, Held DEF CallInv
  <2> QED BY <1>0, <1>3, <2>1, NsConstants DEF MountT
<1>5. Below(t, 1, {Frame("mntput", s)})
  BY <1>0, <1>1, <1>2, <1>3, HeadFacts DEF Shape
<1>50. \E q \in Queues : /\ First(q, FreeQueues) /\ inode' = [inode EXCEPT ![q] = NewQueue(s, NoUser)]
                         /\ Ends(t, <<Frame("delete", q), Frame("uncount", n), Frame("put", n)>>)
  BY <1>2, After_mqueue_get_inode_fails
<1>51. PICK p \in Queues : /\ First(p, FreeQueues) /\ inode' = [inode EXCEPT ![p] = NewQueue(s, NoUser)]
                          /\ Ends(t, <<Frame("delete", p), Frame("uncount", n), Frame("put", n)>>)
  BY <1>50
<1>52. PICK v : v = NoUser
  OBVIOUS
<1>53. /\ inode[p] = NoQueue /\ inode' = [inode EXCEPT ![p] = NewQueue(s, v)]
       /\ v = NoUser
  BY <1>3, <1>51, <1>52, NsConstants DEF First, FreeQueues, Users
<1>54. /\ inode'[p].sb = s /\ inode'[p].user = v /\ inode'[p].link = FALSE /\ inode'[p].fds = {}
       /\ inode'[p] # NoQueue /\ \A q \in Queues : q # p => inode'[q] = inode[q]
  <2>1. inode'[p] = NewQueue(s, v) /\ \A q \in Queues : q # p => inode'[q] = inode[q]
    BY <1>0, <1>53 DEF TypeInv
  <2>2. NewQueue(s, v) \in QueueRecord
    BY <1>3, <1>53 DEF NewQueue, QueueRecord
  <2>3. inode'[p] # NoQueue
    BY <2>1, <2>2, NsConstants
  <2> QED BY <2>1, <2>3 DEF NewQueue
<1>6. PICK a, b, c : a = Frame("delete", p) /\ b = Frame("uncount", n) /\ c = Frame("put", n)
  OBVIOUS
<1>60. /\ a \in FrameSet /\ ArgsOK(t, a) /\ a.at = "delete" /\ a.of = p
      /\ b \in FrameSet /\ ArgsOK(t, b) /\ b.at = "uncount" /\ b.of = n
      /\ c \in FrameSet /\ ArgsOK(t, c) /\ c.at = "put" /\ c.of = n
  BY <1>3, <1>6, PlainFrames DEF NsLabels
<1>7. Moves(t, <<a, b, c>>) /\ TypeInv' /\ <<a, b, c>> \in Seq(FrameSet)
  BY <1>51, <1>6 DEF Ends
<1>8. /\ \A x \in Nss : tH(x)' = tH(x) + (IF x = n THEN 1 ELSE 0) - (IF x = n THEN 1 ELSE 0)
      /\ \A x \in Nss : tK(x)' = tK(x)
      /\ \A x \in Nss : tP(x)' = tP(x)
      /\ \A x \in Sbs : tM(x)' = tM(x)
      /\ \A x \in Sbs : tX(x)' = tX(x)
      /\ \A x \in Queues : tO(x)' = tO(x) + (IF x = p THEN 1 ELSE 0)
      /\ \A x \in Nss : tC(x)' = tC(x) + (IF x = n THEN 1 ELSE 0) - (IF x = n THEN 1 ELSE 0)
  <2>1. /\ \A x : hH(a, x) = 0
        /\ \A x : hK(a, x) = 0
        /\ \A x : hP(a, x) = 0
        /\ \A x : hM(a, x) = 0
        /\ \A x : hX(a, x) = 0
        /\ \A x : hO(a, x) = IF x = p THEN 1 ELSE 0
        /\ \A x : hC(a, x) = 0
        /\ \A x : hH(b, x) = 0
        /\ \A x : hK(b, x) = 0
        /\ \A x : hP(b, x) = 0
        /\ \A x : hM(b, x) = 0
        /\ \A x : hX(b, x) = 0
        /\ \A x : hO(b, x) = 0
        /\ \A x : hC(b, x) = IF x = n THEN 1 ELSE 0
        /\ \A x : hH(c, x) = IF x = n THEN 1 ELSE 0
        /\ \A x : hK(c, x) = 0
        /\ \A x : hP(c, x) = 0
        /\ \A x : hM(c, x) = 0
        /\ \A x : hX(c, x) = 0
        /\ \A x : hO(c, x) = 0
        /\ \A x : hC(c, x) = 0
        /\ \A x : hH(h, x) = IF x = n THEN 1 ELSE 0
        /\ \A x : hK(h, x) = 0
        /\ \A x : hP(h, x) = 0
        /\ \A x : hM(h, x) = 0
        /\ \A x : hX(h, x) = 0
        /\ \A x : hO(h, x) = 0
        /\ \A x : hC(h, x) = IF x = n THEN 1 ELSE 0
    BY <1>0, <1>1, <1>2, <1>3, <1>60, <1>7 DEF hH, hK, hP, hM, hX, hO, hC
  <2>2. /\ \A x \in Nss : tH(x)' = tH(x) + hH(a, x) + hH(b, x) + hH(c, x) - hH(h, x)
        /\ \A x \in Nss : tK(x)' = tK(x) + hK(a, x) + hK(b, x) + hK(c, x) - hK(h, x)
        /\ \A x \in Nss : tP(x)' = tP(x) + hP(a, x) + hP(b, x) + hP(c, x) - hP(h, x)
        /\ \A x \in Sbs : tM(x)' = tM(x) + hM(a, x) + hM(b, x) + hM(c, x) - hM(h, x)
        /\ \A x \in Sbs : tX(x)' = tX(x) + hX(a, x) + hX(b, x) + hX(c, x) - hX(h, x)
        /\ \A x \in Queues : tO(x)' = tO(x) + hO(a, x) + hO(b, x) + hO(c, x) - hO(h, x)
        /\ \A x \in Nss : tC(x)' = tC(x) + hC(a, x) + hC(b, x) + hC(c, x) - hC(h, x)
    BY <1>0, <1>1, <1>2, <1>3, <1>60, <1>7, Pop3
  <2>3. \A x \in Nss : tH(x)' = tH(x) + (IF x = n THEN 1 ELSE 0) - (IF x = n THEN 1 ELSE 0)
    BY <1>0, <2>1, <2>2 DEF CountsNat
  <2>4. \A x \in Nss : tK(x)' = tK(x)
    BY <1>0, <2>1, <2>2 DEF CountsNat
  <2>5. \A x \in Nss : tP(x)' = tP(x)
    BY <1>0, <2>1, <2>2 DEF CountsNat
  <2>6. \A x \in Sbs : tM(x)' = tM(x)
    BY <1>0, <2>1, <2>2 DEF CountsNat
  <2>7. \A x \in Sbs : tX(x)' = tX(x)
    BY <1>0, <2>1, <2>2 DEF CountsNat
  <2>8. \A x \in Queues : tO(x)' = tO(x) + (IF x = p THEN 1 ELSE 0)
    BY <1>0, <2>1, <2>2 DEF CountsNat
  <2>9. \A x \in Nss : tC(x)' = tC(x) + (IF x = n THEN 1 ELSE 0) - (IF x = n THEN 1 ELSE 0)
    BY <1>0, <2>1, <2>2 DEF CountsNat
  <2> QED BY <2>3, <2>4, <2>5, <2>6, <2>7, <2>8, <2>9
<1>9. HSame /\ KSame /\ PSame /\ XSame
  <2>1. \A x \in Nss : tH(x)' = tH(x)
    BY <1>0, <1>8 DEF CountsNat
  <2> QED BY <1>8, <2>1, SameCounts
<1>10. LifeInv' /\ RefCount'
  BY <1>0, <1>1, <1>9, LifeSame, RefSame DEF RefInv
<1>11. \A x \in Sbs : MntRefs(x)' = MntRefs(x) /\ tX(x)' = tX(x)
  <2>1. RefsAdd /\ RefsAdd'
    BY <1>0, <1>7, RefsAre, PTL
  <2>2. \A x : OwnMounts(x)' = OwnMounts(x) /\ UserMount(x)' = UserMount(x)
    BY <1>1 DEF OwnMounts, UserMount
  <2>3. \A x \in Sbs : Fds(x)' = Fds(x)
    <3>1. \A x \in Sbs : Fds(x)' = Fds(x) + FdsOf(p, x)' - FdsOf(p, x)
        BY <1>0, <1>7, <1>54, FdsChange
    <3>2. Cardinality({}) = 0
        BY FS_EmptySet
    <3>3. \A x : FdsOf(p, x)' = 0 /\ FdsOf(p, x) = 0
        BY <1>53, <1>54, <3>2 DEF FdsOf
    <3> QED BY <2>1, <3>1, <3>3 DEF RefsAdd
  <2> QED BY <1>8, <2>1, <2>2, <2>3 DEF RefsAdd
<1>12. MountT'
  BY <1>0, <1>1, <1>11 DEF MountT
<1>13. tO(p) = 0 /\ tO(p)' = 1 /\ \A q \in Queues : q # p => tO(q)' = tO(q)
  <2>1. tO(p) = 0
    BY <1>0, <1>53 DEF QueueT
  <2> QED BY <1>0, <1>8, <2>1 DEF CountsNat
<1>14. QueueT'
  <2>1. \A q \in Queues : inode[q] # NoQueue => inode[q].sb \in Sbs
    BY <1>0 DEF TypeInv, QueueRecord
  <2>2. s_fs_info' = s_fs_info
    BY <1>1
  <2> QED BY <1>0, <1>4, <1>11, <1>13, <1>54, <2>1, <2>2 DEF QueueT
<1>15. CountedT'
  <2>1. /\ \A x \in Nss : nQ(x)' = nQ(x) + cQ(p, x)' - cQ(p, x) /\ nQ(x) \in Nat /\ nQ(x)' \in Nat
        /\ \A u \in Users : nU(u)' = nU(u) + cU(p, u)' - cU(p, u) /\ nU(u) \in Nat /\ nU(u)' \in Nat
    BY <1>1, <1>54, QueuesChange
  <2>2. /\ \A x : cQ(p, x) = 0 /\ cU(p, x) = 0
        /\ \A x \in Nss : count[x] > 0 => cQ(p, x)' = 0
        /\ \A u \in Users : cU(p, u)' = 0
    <3>1. \A x \in Nss : count[x] > 0 => (mq_mnt'[x] = s <=> x = n)
        BY <1>0, <1>1, <1>3, <1>4, OneNs
    <3> QED BY <1>53, <1>54, <3>1, NsConstants DEF cQ, cU
  <2>3. \A x \in Nss : tC(x)' = tC(x)  /\ tC(x) \in Nat
    BY <1>0, <1>8 DEF CountsNat
  <2>4. ASSUME NEW x \in alive, count[x] > 0
        PROVE  mq_queues_count[x] = nQ(x)' + tC(x)'
    <3>1. x \in Nss
        BY <1>0 DEF TypeInv
    <3>2. mq_queues_count[x] = nQ(x) + tC(x)
        BY <1>0, <2>4, <3>1 DEF CountedT
    <3> QED BY <2>1, <2>2, <2>3, <2>4, <3>1, <3>2
  <2>5. \A u \in Users : mq_bytes'[u] = nU(u)'
    <3>3. \A u \in Users : mq_bytes[u] = nU(u)
        BY <1>0 DEF CountedT
    <3> QED BY <1>1, <2>1, <2>2, <3>3
  <2>6. alive' = alive /\ count' = count /\ mq_queues_count' = mq_queues_count
    BY <1>1
  <2> QED BY <2>4, <2>5, <2>6 DEF CountedT
<1>16. PICK fs : fs = <<a, b, c>>
  OBVIOUS
<1>17. /\ fs \in Seq(FrameSet) /\ Moves(t, fs) /\ Len(fs) = 3 /\ fs[1] = a /\ fs[2] = b /\ fs[3] = c
       /\ \A i \in 1 .. Len(fs) : i \in 1 .. 3 /\ fs[i] \in {a, b, c}
  BY <1>7, <1>16
<1>18. \A u \in Threads : \A f \in Frames(u) : f \notin Owners(p)
  BY <1>00, <1>13 DEF Unowned
<1>19. OwnerInv'
  <2>1. ASSUME NEW i \in 1 .. Len(fs), NEW q \in Queues, fs[i] \in Owners(q)
        PROVE  Below(t, i, Keepers(fs[i], inode[q].sb))'
    <3>1. i = 1 /\ q = p /\ fs[i] = a
        BY <1>17, <1>60, <2>1 DEF Owners
    <3>2. PICK S : S = {Frame("mntput", s)}
        OBVIOUS
    <3>3. Below(t, i, S)'
        BY <1>0, <1>1, <1>5, <1>17, <3>2, BelowRest
    <3>4. S \subseteq Keepers(fs[i], inode'[q].sb)
        BY <1>54, <3>1, <3>2 DEF Keepers
    <3>5. PICK K : K = Keepers(fs[i], inode'[q].sb)
        OBVIOUS
    <3>6. Below(t, i, K)'
        BY <3>3, <3>4, <3>5 DEF Below
    <3> QED BY <3>5, <3>6 DEF Below, Keepers
  <2>2. \A q \in Queues : \/ inode'[q].sb = inode[q].sb
                           \/ \A u \in Threads : \A f \in Frames(u) : f \notin Owners(q)
    BY <1>18, <1>54
  <2> QED BY <1>0, <1>17, <2>1, <2>2, OwnerStep
<1>20. CallInv'
  <2>1. \A i \in 1 .. Len(fs) : CallOK(fs[i])'
    BY <1>17, <1>54, <1>60 DEF CallOK
  <2>2. ASSUME NEW u \in Threads, NEW f \in Frames(u), CallOK(f) PROVE CallOK(f)'
    <3>1. f \in FrameSet /\ ArgsOK(u, f) /\ f \notin Owners(p)
        BY <1>0, <1>18, AllArgs
    <3>2. f.at \in {"instantiate", "release"} => f.of # p /\ f.of \in Queues
        BY <3>1 DEF Owners, ArgsOK
    <3> QED BY <1>1, <1>54, <2>2, <3>2 DEF CallOK
  <2> QED BY <1>0, <1>17, <2>1, <2>2, CallStep
<1> QED BY <1>10, <1>12, <1>14, <1>15, <1>19, <1>20, Restated DEF RefInv

-----------------------------------------------------------------------------
(* The queue that the running frame owns.                                  *)
OwnQ(t, p) == /\ p \in Queues /\ inode[p] # NoQueue /\ inode[p] \in QueueRecord /\ tO(p) = 1
              /\ inode[p].sb \in Sbs /\ s_fs_info[inode[p].sb] \in Nss \cup {NoNs}
              /\ Below(t, 1, Keepers(Head(stack[t]), inode[p].sb))
              /\ CallOK(Head(stack[t]))

(* A task that deletes, releases or instantiates a queue is its owner.     *)
LEMMA RunsOwner ==
    ASSUME IInv, NEW t \in Threads, stack[t] # <<>>,
           Head(stack[t]).at \in {"delete", "release", "instantiate"}
    PROVE  OwnQ(t, Arg(t))
<1>0. TypeInv /\ ShapeInv /\ OwnerInv /\ CallInv
  BY DEF IInv
<1>1. PICK h, p : h = Head(stack[t]) /\ p = Arg(t)
  OBVIOUS
<1>2. h \in Frames(t) /\ h = stack[t][1] /\ 1 \in DOMAIN stack[t] /\ h \in FrameSet /\ h.of = p
  BY <1>0, <1>1, HeadFacts DEF Arg
<1>3. /\ p \in Queues /\ inode[p] # NoQueue /\ inode[p] \in QueueRecord /\ tO(p) = 1
      /\ s_fs_info[inode[p].sb] \in Nss \cup {NoNs}
  BY <1>1, <1>2, OwnedQueue DEF tO
<1>4. inode[p].sb \in Sbs
  BY <1>3 DEF QueueRecord
<1>5. h \in Owners(p)
  BY <1>1, <1>2 DEF Owners
<1>6. Below(t, 1, Keepers(h, inode[p].sb))
  BY <1>0, <1>2, <1>3, <1>5 DEF OwnerInv
<1>7. CallOK(h)
  BY <1>0, <1>2 DEF CallInv, CallOK
<1> QED BY <1>1, <1>3, <1>4, <1>6, <1>7 DEF OwnQ

(* The queue gets its name, and perhaps a file.                            *)
LEMMA Ref_instantiate ==
    ASSUME IInv, NEW t \in Threads, instantiate(t), may' = may
    PROVE  RefInv'
<1>0. /\ TypeInv /\ ShapeInv /\ RefInv /\ stack \in [Threads -> Seq(FrameSet)]
      /\ LifeT /\ RefT /\ MountT /\ QueueT /\ CountedT /\ CountsNat /\ OwnerInv /\ CallInv
  BY Before
<1>00. RefsAdd /\ Unowned
  BY <1>0, RefsAre, NoOwners
<1>1. stack[t] # <<>> /\ At(t, "instantiate") /\ UNCHANGED <<alive, count, nsproxy, mq_mnt, s_fs_info, usermnt, mq_queues_count, mq_bytes>>
  BY DEF instantiate, At, nsv, sbv
<1>2. PICK h, p : h = Head(stack[t]) /\ p = Arg(t)
  OBVIOUS
<1>3. /\ h \in FrameSet /\ ArgsOK(t, h) /\ h.at = "instantiate" /\ h.of = p /\ p \in Queues /\ h \in Frames(t)
      /\ t \in Tasks
  BY <1>0, <1>1, <1>2, HeadFacts, TaskRuns DEF At, Arg, ArgsOK, NsLabels
<1>4. OwnQ(t, p)
  BY <1>1, <1>2, <1>3, RunsOwner
<1>40. PICK s : s = inode[p].sb
  OBVIOUS
<1>41. /\ p \in Queues /\ inode[p] # NoQueue /\ inode[p] \in QueueRecord /\ tO(p) = 1
       /\ s \in Sbs /\ s_fs_info[s] \in Nss \cup {NoNs} /\ Below(t, 1, {Frame("mntput", s)})
       /\ inode[p].fds = {}
  <2>1. Keepers(h, s) = {Frame("mntput", s)}
    BY <1>3 DEF Keepers
  <2> QED BY <1>2, <1>3, <1>4, <1>40, <2>1 DEF OwnQ, CallOK
<1>42. MntRefs(s) > 0 /\ s_fs_info[s] # NoSb
  BY <1>0, <1>1, <1>41, HeadFacts, MntputRefs, NsConstants
<1>5. \E fds \in {{}, {t}} : inode' = [inode EXCEPT ![p].link = TRUE, ![p].fds = fds]
  BY <1>2 DEF instantiate
<1>6. PICK fds \in {{}, {t}} : inode' = [inode EXCEPT ![p].link = TRUE, ![p].fds = fds]
  BY <1>5
<1>61. /\ inode'[p].sb = s /\ inode'[p].user = inode[p].user /\ inode'[p].link = TRUE /\ inode'[p].fds = fds
       /\ \A q \in Queues : q # p => inode'[q] = inode[q]
  BY <1>0, <1>40, <1>41, <1>6 DEF TypeInv, QueueRecord
<1>7. Moves(t, <<>>) /\ TypeInv' /\ <<>> \in Seq(FrameSet)
  BY After_instantiate DEF Ends
<1>62. inode'[p] # NoQueue
  <2>1. inode'[p] \in QueueRecord
    BY <1>0, <1>3, <1>41, <1>6 DEF TypeInv, QueueRecord
  <2> QED BY <2>1, NsConstants
<1>8. /\ \A x \in Nss : tH(x)' = tH(x)
      /\ \A x \in Nss : tK(x)' = tK(x)
      /\ \A x \in Nss : tP(x)' = tP(x)
      /\ \A x \in Sbs : tM(x)' = tM(x)
      /\ \A x \in Sbs : tX(x)' = tX(x)
      /\ \A x \in Queues : tO(x)' = tO(x) - (IF x = p THEN 1 ELSE 0)
      /\ \A x \in Nss : tC(x)' = tC(x)
  <2>1. /\ \A x : hH(h, x) = 0
        /\ \A x : hK(h, x) = 0
        /\ \A x : hP(h, x) = 0
        /\ \A x : hM(h, x) = 0
        /\ \A x : hX(h, x) = 0
        /\ \A x : hO(h, x) = IF x = p THEN 1 ELSE 0
        /\ \A x : hC(h, x) = 0
    BY <1>0, <1>1, <1>2, <1>3, <1>7 DEF hH, hK, hP, hM, hX, hO, hC
  <2>2. /\ \A x \in Nss : tH(x)' = tH(x) - hH(h, x)
        /\ \A x \in Nss : tK(x)' = tK(x) - hK(h, x)
        /\ \A x \in Nss : tP(x)' = tP(x) - hP(h, x)
        /\ \A x \in Sbs : tM(x)' = tM(x) - hM(h, x)
        /\ \A x \in Sbs : tX(x)' = tX(x) - hX(h, x)
        /\ \A x \in Queues : tO(x)' = tO(x) - hO(h, x)
        /\ \A x \in Nss : tC(x)' = tC(x) - hC(h, x)
    BY <1>0, <1>1, <1>2, <1>3, <1>7, Pop0
  <2>3. \A x \in Nss : tH(x)' = tH(x)
    BY <1>0, <2>1, <2>2 DEF CountsNat
  <2>4. \A x \in Nss : tK(x)' = tK(x)
    BY <1>0, <2>1, <2>2 DEF CountsNat
  <2>5. \A x \in Nss : tP(x)' = tP(x)
    BY <1>0, <2>1, <2>2 DEF CountsNat
  <2>6. \A x \in Sbs : tM(x)' = tM(x)
    BY <1>0, <2>1, <2>2 DEF CountsNat
  <2>7. \A x \in Sbs : tX(x)' = tX(x)
    BY <1>0, <2>1, <2>2 DEF CountsNat
  <2>8. \A x \in Queues : tO(x)' = tO(x) - (IF x = p THEN 1 ELSE 0)
    BY <1>0, <2>1, <2>2 DEF CountsNat
  <2>9. \A x \in Nss : tC(x)' = tC(x)
    BY <1>0, <2>1, <2>2 DEF CountsNat
  <2> QED BY <2>3, <2>4, <2>5, <2>6, <2>7, <2>8, <2>9
<1>9. HSame /\ KSame /\ PSame /\ XSame
  BY <1>8, SameCounts
<1>10. LifeInv' /\ RefCount'
  BY <1>0, <1>1, <1>9, LifeSame, RefSame DEF RefInv
<1>11. \A x \in Sbs : tX(x)' = tX(x) /\ (MntRefs(x)' = 0 <=> MntRefs(x) = 0)
  <2>1. RefsAdd /\ RefsAdd'
    BY <1>0, <1>7, RefsAre, PTL
  <2>2. \A x : OwnMounts(x)' = OwnMounts(x) /\ UserMount(x)' = UserMount(x)
    BY <1>1 DEF OwnMounts, UserMount
  <2>3. \A x \in Sbs : tM(x)' = tM(x) /\ tX(x)' = tX(x)
    BY <1>8
  <2>4. \A x \in Sbs : Fds(x)' = Fds(x) + FdsOf(p, x)' - FdsOf(p, x)
    BY <1>0, <1>3, <1>7, <1>61, FdsChange
  <2>5. Cardinality(fds) \in Nat /\ Cardinality({}) = 0
    BY FS_EmptySet, FS_Singleton, FS_CardinalityType
  <2>6. /\ \A x : FdsOf(p, x) = 0
        /\ \A x : FdsOf(p, x)' = IF x = s THEN Cardinality(fds) ELSE 0
    BY <1>41, <1>61, <1>62, <2>5 DEF FdsOf
  <2>7. \A x \in Sbs : MntRefs(x)' = MntRefs(x) + (IF x = s THEN Cardinality(fds) ELSE 0) /\ MntRefs(x) \in Nat
    BY <2>1, <2>2, <2>3, <2>4, <2>5, <2>6 DEF RefsAdd
  <2> QED BY <1>42, <2>3, <2>5, <2>7
<1>12. MountT'
  BY <1>0, <1>1, <1>11 DEF MountT
<1>13. tO(p)' = 0 /\ \A q \in Queues : q # p => tO(q)' = tO(q)
  BY <1>0, <1>3, <1>8, <1>41 DEF CountsNat
<1>14. QueueT'
  <2>1. \A q \in Queues : inode[q] # NoQueue => inode[q].sb \in Sbs
    BY <1>0 DEF TypeInv, QueueRecord
  <2>2. s_fs_info' = s_fs_info
    BY <1>1
  <2> QED BY <1>0, <1>11, <1>13, <1>41, <1>42, <1>61, <1>62, <2>1, <2>2 DEF QueueT
<1>15. CountedT'
  <2>1. /\ \A x \in Nss : nQ(x)' = nQ(x) + cQ(p, x)' - cQ(p, x) /\ nQ(x) \in Nat /\ nQ(x)' \in Nat
        /\ \A u \in Users : nU(u)' = nU(u) + cU(p, u)' - cU(p, u) /\ nU(u) \in Nat /\ nU(u)' \in Nat
    BY <1>1, <1>3, <1>61, QueuesChange
  <2>2. /\ \A x : cQ(p, x)' = cQ(p, x) /\ cU(p, x)' = cU(p, x) /\ cQ(p, x) \in Nat /\ cU(p, x) \in Nat
    BY <1>1, <1>40, <1>41, <1>61, <1>62 DEF cQ, cU
  <2>3. \A x \in Nss : nQ(x)' = nQ(x) /\ tC(x)' = tC(x)
    BY <1>8, <2>1, <2>2
  <2>4. \A u \in Users : nU(u)' = nU(u)
    BY <2>1, <2>2
  <2>5. alive' = alive /\ count' = count /\ mq_queues_count' = mq_queues_count /\ mq_bytes' = mq_bytes /\ alive \subseteq Nss
    BY <1>0, <1>1 DEF TypeInv
  <2> QED BY <1>0, <2>3, <2>4, <2>5 DEF CountedT
<1>16. PICK fs : fs = <<>>
  OBVIOUS
<1>17. fs \in Seq(FrameSet) /\ Moves(t, fs) /\ \A i \in 1 .. Len(fs) : FALSE
  BY <1>7, <1>16
<1>18. OwnerInv'
  <2>1. \A q \in Queues : inode'[q].sb = inode[q].sb
    BY <1>40, <1>61
  <2> QED BY <1>0, <1>17, <2>1, OwnersStay
<1>19. CallInv'
  <2>1. Unowned'
    BY <1>7, NoOwners, PTL
  <2>2. ASSUME NEW u \in Threads, NEW f \in Frames(u), f \in Frames(u)', CallOK(f) PROVE CallOK(f)'
    <3>1. f \in FrameSet /\ ArgsOK(u, f)
        BY <1>0, AllArgs
    <3>2. f \notin Owners(p)
        BY <1>3, <1>13, <2>1, <2>2 DEF Unowned, Owners
    <3>3. f.at \in {"instantiate", "release"} => f.of # p /\ f.of \in Queues
        BY <3>1, <3>2 DEF Owners, ArgsOK
    <3> QED BY <1>1, <1>61, <2>2, <3>3 DEF CallOK
  <2> QED BY <1>0, <1>17, <2>2, CallStep
<1> QED BY <1>10, <1>12, <1>14, <1>15, <1>18, <1>19, Restated DEF RefInv

(* The deletion takes a reference to the namespace, if there is one.       *)
LEMMA Ref_mqueue_delete_inode ==
    ASSUME IInv, NEW t \in Threads, mqueue_delete_inode(t), may' = may
    PROVE  RefInv'
<1>0. /\ TypeInv /\ ShapeInv /\ RefInv /\ stack \in [Threads -> Seq(FrameSet)]
      /\ LifeT /\ RefT /\ MountT /\ QueueT /\ CountedT /\ CountsNat /\ OwnerInv /\ CallInv
  BY Before
<1>00. RefsAdd /\ Unowned
  BY <1>0, RefsAre, NoOwners
<1>1. stack[t] # <<>> /\ At(t, "delete") /\ UNCHANGED <<alive, nsproxy, mq_mnt, s_fs_info, usermnt, inode, mq_queues_count, mq_bytes>>
  BY DEF mqueue_delete_inode, At, sbv, queuev
<1>2. PICK h, p : h = Head(stack[t]) /\ p = Arg(t)
  OBVIOUS
<1>3. /\ h \in FrameSet /\ ArgsOK(t, h) /\ h.at = "delete" /\ h.of = p /\ p \in Queues /\ h \in Frames(t)
      /\ t \in Tasks
  BY <1>0, <1>1, <1>2, HeadFacts, TaskRuns DEF At, Arg, ArgsOK, NsLabels
<1>4. OwnQ(t, p)
  BY <1>1, <1>2, <1>3, RunsOwner
<1>40. PICK s, v, a : s = inode[p].sb /\ v = s_fs_info[inode[p].sb] /\ a = MkFrame("release", p, v, ByHand, NoNs)
  OBVIOUS
<1>41. /\ s \in Sbs /\ v \in Nss \cup {NoNs} /\ Below(t, 1, Keepers(h, s)) /\ s_fs_info[s] = v
  BY <1>2, <1>4, <1>40 DEF OwnQ
<1>42. a \in FrameSet /\ a.at = "release" /\ a.of = p /\ a.ns = v
  <2>1. /\ "release" \in Labels /\ p \in Nss \cup Sbs \cup Queues \cup {NoNs}
        /\ v \in Nss \cup {NoNs} /\ NoNs \in Nss \cup {NoNs}
    BY <1>3, <1>41 DEF Labels
  <2>2. ByHand \in Int \X Int
    BY FrameType
  <2>3. PICK l : l = "release"
    OBVIOUS
  <2>4. MkFrame(l, p, v, ByHand, NoNs) = a /\ l \in Labels
    BY <1>40, <2>1, <2>3
  <2>5. /\ MkFrame(l, p, v, ByHand, NoNs) \in FrameSet /\ MkFrame(l, p, v, ByHand, NoNs).at = l
        /\ MkFrame(l, p, v, ByHand, NoNs).of = p /\ MkFrame(l, p, v, ByHand, NoNs).ns = v
    BY <2>1, <2>2, <2>4, FrameType
  <2> QED BY <2>3, <2>4, <2>5
<1>43. ArgsOK(t, a)
  <2>1. t # kworker
    BY <1>3, NsConstants
  <2> QED BY <1>3, <1>42, <2>1 DEF ArgsOK, NsLabels
<1>44. NoNs \notin Nss
  BY NsConstants
<1>5. v \in Nss => count[v] > 0
  BY <1>0, <1>41 DEF MountT
<1>6. \A x \in Nss : count'[x] = count[x] + (IF x = v THEN 1 ELSE 0) /\ count[x] \in Nat
  <2>1. count' = IF v = NoNs THEN count ELSE [count EXCEPT ![v] = @ + 1]
    BY <1>2, <1>40 DEF mqueue_delete_inode, get_ns_from_inode
  <2>2. \A x \in Nss : count[x] \in Nat
    BY <1>0, CountParts DEF RefInv
  <2>3. count \in [Nss -> Int]
    BY <1>0 DEF TypeInv
  <2> QED BY <1>41, <1>44, <2>1, <2>2, <2>3
<1>7. Moves(t, <<a>>) /\ TypeInv' /\ <<a>> \in Seq(FrameSet)
  BY <1>2, <1>40, After_mqueue_delete_inode DEF Ends
<1>8. /\ \A x \in Nss : tH(x)' = tH(x) + (IF x = v THEN 1 ELSE 0)
      /\ \A x \in Nss : tK(x)' = tK(x)
      /\ \A x \in Nss : tP(x)' = tP(x)
      /\ \A x \in Sbs : tM(x)' = tM(x)
      /\ \A x \in Sbs : tX(x)' = tX(x)
      /\ \A x \in Queues : tO(x)' = tO(x) + (IF x = p THEN 1 ELSE 0) - (IF x = p THEN 1 ELSE 0)
      /\ \A x \in Nss : tC(x)' = tC(x)
  <2>1. /\ \A x : hH(a, x) = IF x = v THEN 1 ELSE 0
        /\ \A x : hK(a, x) = 0
        /\ \A x : hP(a, x) = 0
        /\ \A x : hM(a, x) = 0
        /\ \A x : hX(a, x) = 0
        /\ \A x : hO(a, x) = IF x = p THEN 1 ELSE 0
        /\ \A x : hC(a, x) = 0
        /\ \A x : hH(h, x) = 0
        /\ \A x : hK(h, x) = 0
        /\ \A x : hP(h, x) = 0
        /\ \A x : hM(h, x) = 0
        /\ \A x : hX(h, x) = 0
        /\ \A x : hO(h, x) = IF x = p THEN 1 ELSE 0
        /\ \A x : hC(h, x) = 0
    BY <1>0, <1>1, <1>2, <1>3, <1>42, <1>43, <1>7 DEF hH, hK, hP, hM, hX, hO, hC
  <2>2. /\ \A x \in Nss : tH(x)' = tH(x) + hH(a, x) - hH(h, x)
        /\ \A x \in Nss : tK(x)' = tK(x) + hK(a, x) - hK(h, x)
        /\ \A x \in Nss : tP(x)' = tP(x) + hP(a, x) - hP(h, x)
        /\ \A x \in Sbs : tM(x)' = tM(x) + hM(a, x) - hM(h, x)
        /\ \A x \in Sbs : tX(x)' = tX(x) + hX(a, x) - hX(h, x)
        /\ \A x \in Queues : tO(x)' = tO(x) + hO(a, x) - hO(h, x)
        /\ \A x \in Nss : tC(x)' = tC(x) + hC(a, x) - hC(h, x)
    BY <1>0, <1>1, <1>2, <1>3, <1>42, <1>43, <1>7, Pop1
  <2>3. \A x \in Nss : tH(x)' = tH(x) + (IF x = v THEN 1 ELSE 0)
    BY <1>0, <2>1, <2>2 DEF CountsNat
  <2>4. \A x \in Nss : tK(x)' = tK(x)
    BY <1>0, <2>1, <2>2 DEF CountsNat
  <2>5. \A x \in Nss : tP(x)' = tP(x)
    BY <1>0, <2>1, <2>2 DEF CountsNat
  <2>6. \A x \in Sbs : tM(x)' = tM(x)
    BY <1>0, <2>1, <2>2 DEF CountsNat
  <2>7. \A x \in Sbs : tX(x)' = tX(x)
    BY <1>0, <2>1, <2>2 DEF CountsNat
  <2>8. \A x \in Queues : tO(x)' = tO(x) + (IF x = p THEN 1 ELSE 0) - (IF x = p THEN 1 ELSE 0)
    BY <1>0, <2>1, <2>2 DEF CountsNat
  <2>9. \A x \in Nss : tC(x)' = tC(x)
    BY <1>0, <2>1, <2>2 DEF CountsNat
  <2> QED BY <2>3, <2>4, <2>5, <2>6, <2>7, <2>8, <2>9
<1>80. \A q \in Queues : tO(q)' = tO(q)
  BY <1>0, <1>8 DEF CountsNat
<1>9. ZeroSame
  BY <1>5, <1>6 DEF ZeroSame
<1>10. RefT'
  <2>1. \A x \in Nss : nT(x)' = nT(x) /\ nT(x) \in Nat
    BY <1>1, TasksStay, TasksNat
  <2>3. \A x \in Nss : tH(x) \in Nat /\ tH(x)' = tH(x) + (IF x = v THEN 1 ELSE 0)
    BY <1>0, <1>8 DEF CountsNat
  <2>4. \A x \in Nss : /\ count'[x] - count[x] = (nT(x)' - nT(x)) + (tH(x)' - tH(x)) /\ tH(x)' \in Int
                       /\ count'[x] \in Int
    BY <1>6, <2>1, <2>3
  <2> QED BY <1>1, <1>0, <1>6, <1>9, <2>1, <2>3, <2>4, RefMoves DEF ZeroSame
<1>11. LifeT'
  BY <1>0, <1>1, <1>8, <1>9, LifeKept
<1>12. RZero
  BY <1>0, <1>1, <1>7, <1>8, FrameRefs DEF RZero
<1>13. MountT' /\ CountedT'
  BY <1>0, <1>1, <1>8, <1>9, <1>12, MountKept, CountedKept
<1>14. QueueT'
  BY <1>0, <1>1, <1>8, <1>80, QueueKept
<1>16. PICK fs : fs = <<a>>
  OBVIOUS
<1>17. fs \in Seq(FrameSet) /\ Moves(t, fs) /\ Len(fs) = 1 /\ \A i \in 1 .. Len(fs) : i = 1 /\ fs[i] = a
  BY <1>7, <1>16
<1>18. OwnerInv'
  <2>1. ASSUME NEW i \in 1 .. Len(fs), NEW q \in Queues, fs[i] \in Owners(q)
        PROVE  Below(t, i, Keepers(fs[i], inode[q].sb))'
    <3>1. q = p /\ fs[i] = a
        BY <1>17, <1>42, <2>1 DEF Owners
    <3>2. PICK S : S = Keepers(h, s)
        OBVIOUS
    <3>3. Below(t, i, S)'
        BY <1>0, <1>1, <1>17, <1>41, <3>2, BelowRest
    <3>4. S = Keepers(fs[i], inode'[q].sb)
        BY <1>1, <1>3, <1>40, <1>42, <3>1, <3>2 DEF Keepers
    <3> QED BY <3>3, <3>4 DEF Below, Keepers
  <2>2. \A q \in Queues : inode'[q].sb = inode[q].sb
    BY <1>1
  <2> QED BY <1>0, <1>17, <2>1, <2>2, OwnerStep
<1>19. CallInv'
  <2>1. \A i \in 1 .. Len(fs) : CallOK(fs[i])'
    BY <1>1, <1>17, <1>40, <1>42 DEF CallOK
  <2>2. \A f : CallOK(f) => CallOK(f)'
    BY <1>1 DEF CallOK
  <2> QED BY <1>0, <1>17, <2>1, <2>2, CallStep
<1> QED BY <1>10, <1>11, <1>13, <1>14, <1>18, <1>19, Behind

(* The queue goes, and no namespace is there to count it.                  *)
LEMMA Ref_release_gone ==
    ASSUME IInv, NEW t \in Threads, release_inode(t), may' = may, Head(stack[t]).ns = NoNs
    PROVE  RefInv'
<1>0. /\ TypeInv /\ ShapeInv /\ RefInv /\ stack \in [Threads -> Seq(FrameSet)]
      /\ LifeT /\ RefT /\ MountT /\ QueueT /\ CountedT /\ CountsNat /\ OwnerInv /\ CallInv
  BY Before
<1>00. RefsAdd /\ Unowned
  BY <1>0, RefsAre, NoOwners
<1>1. stack[t] # <<>> /\ At(t, "release") /\ UNCHANGED <<alive, count, nsproxy, mq_mnt, s_fs_info, usermnt>>
  BY DEF release_inode, At, nsv, sbv
<1>2. PICK h, p : h = Head(stack[t]) /\ p = Arg(t)
  OBVIOUS
<1>3. /\ h \in FrameSet /\ ArgsOK(t, h) /\ h.at = "release" /\ h.of = p /\ p \in Queues /\ h \in Frames(t)
      /\ t \in Tasks
  BY <1>0, <1>1, <1>2, HeadFacts, TaskRuns DEF At, Arg, ArgsOK, NsLabels
<1>4. OwnQ(t, p)
  BY <1>1, <1>2, <1>3, RunsOwner
<1>40. PICK s, v, usr : s = inode[p].sb /\ v = h.ns /\ usr = inode[p].user
  OBVIOUS
<1>41. /\ inode[p] # NoQueue /\ inode[p] \in QueueRecord /\ tO(p) = 1
       /\ s \in Sbs /\ s_fs_info[s] = v /\ v \in Nss \cup {NoNs} /\ s_fs_info[s] # NoSb
       /\ usr \in Users \cup {NoUser}
  <2>1. NoSb \notin Nss /\ NoSb # NoNs
    BY NsConstants
  <2> QED BY <1>2, <1>3, <1>4, <1>40, <2>1 DEF OwnQ, CallOK, QueueRecord
<1>42. NoNs \notin Nss /\ NoUser \notin Users
  BY NsConstants
<1>43. v = NoNs
  BY <1>0, <1>2, <1>40, <1>41 DEF MountT
<1>44. inode[p].fds = {}
  <2> SUFFICES ASSUME inode[p].fds # {} PROVE FALSE
    OBVIOUS
  <2>1. tX(s) = 1
    BY <1>0, <1>3, <1>40, <1>41 DEF QueueT
  <2>2. MntRefs(s) > 0
    BY <1>0, <1>3, <1>40, <1>41, SbParts
  <2> QED BY <1>0, <1>41, <2>1, <2>2 DEF MountT
<1>5. /\ inode' = [inode EXCEPT ![p] = NoQueue]
      /\ mq_bytes' = (IF usr = NoUser THEN mq_bytes ELSE [mq_bytes EXCEPT ![usr] = @ - 1])
      /\ mq_queues_count' = (IF usr = NoUser \/ v = NoNs THEN mq_queues_count ELSE [mq_queues_count EXCEPT ![v] = @ - 1])
  BY <1>2, <1>3, <1>40 DEF release_inode, refund
<1>6. inode'[p] = NoQueue /\ \A q \in Queues : q # p => inode'[q] = inode[q]
  BY <1>0, <1>3, <1>5 DEF TypeInv
<1>7. Moves(t, <<>>) /\ TypeInv' /\ <<>> \in Seq(FrameSet)
  BY After_release_inode DEF Ends
<1>8. /\ \A x \in Nss : tH(x)' = tH(x) - (IF x = v THEN 1 ELSE 0)
      /\ \A x \in Nss : tK(x)' = tK(x)
      /\ \A x \in Nss : tP(x)' = tP(x)
      /\ \A x \in Sbs : tM(x)' = tM(x)
      /\ \A x \in Sbs : tX(x)' = tX(x)
      /\ \A x \in Queues : tO(x)' = tO(x) - (IF x = p THEN 1 ELSE 0)
      /\ \A x \in Nss : tC(x)' = tC(x)
  <2>1. /\ \A x : hH(h, x) = IF x = v THEN 1 ELSE 0
        /\ \A x : hK(h, x) = 0
        /\ \A x : hP(h, x) = 0
        /\ \A x : hM(h, x) = 0
        /\ \A x : hX(h, x) = 0
        /\ \A x : hO(h, x) = IF x = p THEN 1 ELSE 0
        /\ \A x : hC(h, x) = 0
    BY <1>0, <1>1, <1>2, <1>3, <1>40, <1>7 DEF hH, hK, hP, hM, hX, hO, hC
  <2>2. /\ \A x \in Nss : tH(x)' = tH(x) - hH(h, x)
        /\ \A x \in Nss : tK(x)' = tK(x) - hK(h, x)
        /\ \A x \in Nss : tP(x)' = tP(x) - hP(h, x)
        /\ \A x \in Sbs : tM(x)' = tM(x) - hM(h, x)
        /\ \A x \in Sbs : tX(x)' = tX(x) - hX(h, x)
        /\ \A x \in Queues : tO(x)' = tO(x) - hO(h, x)
        /\ \A x \in Nss : tC(x)' = tC(x) - hC(h, x)
    BY <1>0, <1>1, <1>2, <1>3, <1>40, <1>7, Pop0
  <2>3. \A x \in Nss : tH(x)' = tH(x) - (IF x = v THEN 1 ELSE 0)
    BY <1>0, <2>1, <2>2 DEF CountsNat
  <2>4. \A x \in Nss : tK(x)' = tK(x)
    BY <1>0, <2>1, <2>2 DEF CountsNat
  <2>5. \A x \in Nss : tP(x)' = tP(x)
    BY <1>0, <2>1, <2>2 DEF CountsNat
  <2>6. \A x \in Sbs : tM(x)' = tM(x)
    BY <1>0, <2>1, <2>2 DEF CountsNat
  <2>7. \A x \in Sbs : tX(x)' = tX(x)
    BY <1>0, <2>1, <2>2 DEF CountsNat
  <2>8. \A x \in Queues : tO(x)' = tO(x) - (IF x = p THEN 1 ELSE 0)
    BY <1>0, <2>1, <2>2 DEF CountsNat
  <2>9. \A x \in Nss : tC(x)' = tC(x)
    BY <1>0, <2>1, <2>2 DEF CountsNat
  <2> QED BY <2>3, <2>4, <2>5, <2>6, <2>7, <2>8, <2>9
<1>9. HSame /\ KSame /\ PSame /\ XSame /\ CSame
  <2>1. \A x \in Nss : tH(x)' = tH(x)
    BY <1>0, <1>8, <1>42, <1>43 DEF CountsNat
  <2> QED BY <1>8, <2>1, SameCounts
<1>10. LifeInv' /\ RefCount'
  BY <1>0, <1>1, <1>9, LifeSame, RefSame DEF RefInv
<1>11. \A x \in Sbs : MntRefs(x)' = MntRefs(x) /\ tX(x)' = tX(x)
  <2>1. RefsAdd /\ RefsAdd'
    BY <1>0, <1>7, RefsAre, PTL
  <2>2. \A x : OwnMounts(x)' = OwnMounts(x) /\ UserMount(x)' = UserMount(x)
    BY <1>1 DEF OwnMounts, UserMount
  <2>3. \A x \in Sbs : Fds(x)' = Fds(x)
    <3>1. \A x \in Sbs : Fds(x)' = Fds(x) + FdsOf(p, x)' - FdsOf(p, x)
        BY <1>0, <1>3, <1>7, <1>6, FdsChange
    <3>2. Cardinality({}) = 0
        BY FS_EmptySet
    <3>3. \A x : FdsOf(p, x)' = 0 /\ FdsOf(p, x) = 0
        BY <1>6, <1>44, <3>2 DEF FdsOf
    <3> QED BY <2>1, <3>1, <3>3 DEF RefsAdd
  <2> QED BY <1>8, <2>1, <2>2, <2>3 DEF RefsAdd
<1>12. MountT'
  BY <1>0, <1>1, <1>11 DEF MountT
<1>13. tO(p)' = 0 /\ \A q \in Queues : q # p => tO(q)' = tO(q)
  BY <1>0, <1>3, <1>8, <1>41 DEF CountsNat
<1>14. QueueT'
  <2>1. \A q \in Queues : inode[q] # NoQueue => inode[q].sb \in Sbs
    BY <1>0 DEF TypeInv, QueueRecord
  <2>2. s_fs_info' = s_fs_info
    BY <1>1
  <2> QED BY <1>0, <1>6, <1>11, <1>13, <2>1, <2>2 DEF QueueT
<1>15. CountedT'
  <2>1. /\ \A x \in Nss : nQ(x)' = nQ(x) + cQ(p, x)' - cQ(p, x) /\ nQ(x) \in Nat /\ nQ(x)' \in Nat
        /\ \A u \in Users : nU(u)' = nU(u) + cU(p, u)' - cU(p, u) /\ nU(u) \in Nat /\ nU(u)' \in Nat
    BY <1>1, <1>3, <1>6, QueuesChange
  <2>2. /\ \A x : cQ(p, x)' = 0 /\ cU(p, x)' = 0
        /\ \A x \in Nss : count[x] > 0 => cQ(p, x) = IF x = v /\ usr # NoUser THEN 1 ELSE 0
        /\ \A u \in Users : cU(p, u) = IF u = usr THEN 1 ELSE 0
    <3>1. \A x \in Nss : count[x] > 0 => (mq_mnt[x] = s <=> x = v)
        BY <1>0, <1>41, OneNs
    <3> QED BY <1>6, <1>40, <1>41, <3>1 DEF cQ, cU
  <2>3. \A x \in Nss : tC(x)' = tC(x) /\ tC(x) \in Nat
    BY <1>0, <1>8 DEF CountsNat
  <2>4. ASSUME NEW x \in alive, count[x] > 0
        PROVE  mq_queues_count'[x] = nQ(x)' + tC(x)'
    <3>1. x \in Nss
        BY <1>0, NsConstants DEF TypeInv
    <3>2. mq_queues_count[x] = nQ(x) + tC(x)
        BY <1>0, <2>4, <3>1 DEF CountedT
    <3>3. mq_queues_count'[x] = mq_queues_count[x] - (IF x = v /\ usr # NoUser THEN 1 ELSE 0)
          /\ mq_queues_count[x] \in Int
        BY <1>0, <1>5, <1>42, <1>43, <3>1 DEF TypeInv
    <3> QED BY <2>1, <2>2, <2>3, <2>4, <3>1, <3>2, <3>3
  <2>5. \A u \in Users : mq_bytes'[u] = nU(u)'
    <3>2. \A u \in Users : mq_bytes'[u] = mq_bytes[u] - (IF u = usr THEN 1 ELSE 0) /\ mq_bytes[u] \in Int
        BY <1>0, <1>5, <1>41, <1>42 DEF TypeInv
    <3>3. \A u \in Users : mq_bytes[u] = nU(u)
        BY <1>0 DEF CountedT
    <3> QED BY <2>1, <2>2, <3>2, <3>3
  <2>6. alive' = alive /\ count' = count
    BY <1>1
  <2> QED BY <2>4, <2>5, <2>6 DEF CountedT
<1>16. PICK fs : fs = <<>>
  OBVIOUS
<1>17. fs \in Seq(FrameSet) /\ Moves(t, fs) /\ \A i \in 1 .. Len(fs) : FALSE
  BY <1>7, <1>16
<1>20. Unowned'
  BY <1>7, NoOwners, PTL
<1>21. \A u \in Threads : \A f \in Frames(u)' : f \notin Owners(p)
  BY <1>3, <1>13, <1>20 DEF Unowned, Owners
<1>18. OwnerInv'
  <2>1. \A i \in 1 .. Len(fs) : \A q \in Queues : fs[i] \notin Owners(q)
    BY <1>17 DEF Owners
  <2>2. \A q \in Queues : \/ inode'[q].sb = inode[q].sb
                           \/ \A u \in Threads : \A f \in Frames(u)' : f \notin Owners(q)
    BY <1>6, <1>21
  <2> QED BY <1>0, <1>17, <2>1, <2>2, OwnerStep
<1>19. CallInv'
  <2>1. \A i \in 1 .. Len(fs) : CallOK(fs[i])'
    BY <1>17 DEF CallOK
  <2>2. ASSUME NEW u \in Threads, NEW f \in Frames(u), f \in Frames(u)', CallOK(f) PROVE CallOK(f)'
    <3>1. f \in FrameSet /\ ArgsOK(u, f) /\ f \notin Owners(p)
        BY <1>0, <1>21, <2>2, AllArgs
    <3>3. f.at \in {"instantiate", "release"} => f.of # p /\ f.of \in Queues
        BY <3>1 DEF Owners, ArgsOK
    <3> QED BY <1>1, <1>6, <2>2, <3>3 DEF CallOK
  <2> QED BY <1>0, <1>17, <2>1, <2>2, CallStep
<1> QED BY <1>10, <1>12, <1>14, <1>15, <1>18, <1>19, Restated DEF RefInv

(* The queue goes, and the namespace counts one less.                      *)
LEMMA Ref_release_held ==
    ASSUME IInv, NEW t \in Threads, release_inode(t), may' = may, Head(stack[t]).ns # NoNs
    PROVE  RefInv'
<1>0. /\ TypeInv /\ ShapeInv /\ RefInv /\ stack \in [Threads -> Seq(FrameSet)]
      /\ LifeT /\ RefT /\ MountT /\ QueueT /\ CountedT /\ CountsNat /\ OwnerInv /\ CallInv
  BY Before
<1>00. RefsAdd /\ Unowned
  BY <1>0, RefsAre, NoOwners
<1>1. stack[t] # <<>> /\ At(t, "release") /\ UNCHANGED <<alive, count, nsproxy, mq_mnt, s_fs_info, usermnt>>
  BY DEF release_inode, At, nsv, sbv
<1>2. PICK h, p : h = Head(stack[t]) /\ p = Arg(t)
  OBVIOUS
<1>3. /\ h \in FrameSet /\ ArgsOK(t, h) /\ h.at = "release" /\ h.of = p /\ p \in Queues /\ h \in Frames(t)
      /\ t \in Tasks
  BY <1>0, <1>1, <1>2, HeadFacts, TaskRuns DEF At, Arg, ArgsOK, NsLabels
<1>4. OwnQ(t, p)
  BY <1>1, <1>2, <1>3, RunsOwner
<1>40. PICK s, v, usr : s = inode[p].sb /\ v = h.ns /\ usr = inode[p].user
  OBVIOUS
<1>41. /\ inode[p] # NoQueue /\ inode[p] \in QueueRecord /\ tO(p) = 1
       /\ s \in Sbs /\ s_fs_info[s] = v /\ v \in Nss \cup {NoNs} /\ s_fs_info[s] # NoSb
       /\ usr \in Users \cup {NoUser}
  <2>1. NoSb \notin Nss /\ NoSb # NoNs
    BY NsConstants
  <2> QED BY <1>2, <1>3, <1>4, <1>40, <2>1 DEF OwnQ, CallOK, QueueRecord
<1>42. NoNs \notin Nss /\ NoUser \notin Users
  BY NsConstants
<1>43. v \in Nss /\ v # NoNs /\ count[v] > 0
  BY <1>0, <1>2, <1>40, <1>41 DEF MountT
<1>44. inode[p].fds = {}
  <2> SUFFICES ASSUME inode[p].fds # {} PROVE FALSE
    OBVIOUS
  <2>1. tX(s) = 1
    BY <1>0, <1>3, <1>40, <1>41 DEF QueueT
  <2>2. MntRefs(s) > 0
    BY <1>0, <1>3, <1>40, <1>41, SbParts
  <2> QED BY <1>0, <1>41, <2>1, <2>2 DEF MountT
<1>5. /\ inode' = [inode EXCEPT ![p] = NoQueue]
      /\ mq_bytes' = (IF usr = NoUser THEN mq_bytes ELSE [mq_bytes EXCEPT ![usr] = @ - 1])
      /\ mq_queues_count' = (IF usr = NoUser \/ v = NoNs THEN mq_queues_count ELSE [mq_queues_count EXCEPT ![v] = @ - 1])
  BY <1>2, <1>3, <1>40 DEF release_inode, refund
<1>6. inode'[p] = NoQueue /\ \A q \in Queues : q # p => inode'[q] = inode[q]
  BY <1>0, <1>3, <1>5 DEF TypeInv
<1>70. PICK a : a = Frame("put", v)
  OBVIOUS
<1>71. /\ a \in FrameSet /\ ArgsOK(t, a) /\ a.at = "put" /\ a.of = v
  BY <1>3, <1>43, <1>70, PlainFrames DEF NsLabels
<1>7. Moves(t, <<a>>) /\ TypeInv' /\ <<a>> \in Seq(FrameSet)
  BY <1>2, <1>40, <1>70, After_release_inode DEF Ends
<1>8. /\ \A x \in Nss : tH(x)' = tH(x) + (IF x = v THEN 1 ELSE 0) - (IF x = v THEN 1 ELSE 0)
      /\ \A x \in Nss : tK(x)' = tK(x)
      /\ \A x \in Nss : tP(x)' = tP(x)
      /\ \A x \in Sbs : tM(x)' = tM(x)
      /\ \A x \in Sbs : tX(x)' = tX(x)
      /\ \A x \in Queues : tO(x)' = tO(x) - (IF x = p THEN 1 ELSE 0)
      /\ \A x \in Nss : tC(x)' = tC(x)
  <2>1. /\ \A x : hH(a, x) = IF x = v THEN 1 ELSE 0
        /\ \A x : hK(a, x) = 0
        /\ \A x : hP(a, x) = 0
        /\ \A x : hM(a, x) = 0
        /\ \A x : hX(a, x) = 0
        /\ \A x : hO(a, x) = 0
        /\ \A x : hC(a, x) = 0
        /\ \A x : hH(h, x) = IF x = v THEN 1 ELSE 0
        /\ \A x : hK(h, x) = 0
        /\ \A x : hP(h, x) = 0
        /\ \A x : hM(h, x) = 0
        /\ \A x : hX(h, x) = 0
        /\ \A x : hO(h, x) = IF x = p THEN 1 ELSE 0
        /\ \A x : hC(h, x) = 0
    BY <1>0, <1>1, <1>2, <1>3, <1>40, <1>7, <1>71 DEF hH, hK, hP, hM, hX, hO, hC
  <2>2. /\ \A x \in Nss : tH(x)' = tH(x) + hH(a, x) - hH(h, x)
        /\ \A x \in Nss : tK(x)' = tK(x) + hK(a, x) - hK(h, x)
        /\ \A x \in Nss : tP(x)' = tP(x) + hP(a, x) - hP(h, x)
        /\ \A x \in Sbs : tM(x)' = tM(x) + hM(a, x) - hM(h, x)
        /\ \A x \in Sbs : tX(x)' = tX(x) + hX(a, x) - hX(h, x)
        /\ \A x \in Queues : tO(x)' = tO(x) + hO(a, x) - hO(h, x)
        /\ \A x \in Nss : tC(x)' = tC(x) + hC(a, x) - hC(h, x)
    BY <1>0, <1>1, <1>2, <1>3, <1>40, <1>7, <1>71, Pop1
  <2>3. \A x \in Nss : tH(x)' = tH(x) + (IF x = v THEN 1 ELSE 0) - (IF x = v THEN 1 ELSE 0)
    BY <1>0, <2>1, <2>2 DEF CountsNat
  <2>4. \A x \in Nss : tK(x)' = tK(x)
    BY <1>0, <2>1, <2>2 DEF CountsNat
  <2>5. \A x \in Nss : tP(x)' = tP(x)
    BY <1>0, <2>1, <2>2 DEF CountsNat
  <2>6. \A x \in Sbs : tM(x)' = tM(x)
    BY <1>0, <2>1, <2>2 DEF CountsNat
  <2>7. \A x \in Sbs : tX(x)' = tX(x)
    BY <1>0, <2>1, <2>2 DEF CountsNat
  <2>8. \A x \in Queues : tO(x)' = tO(x) - (IF x = p THEN 1 ELSE 0)
    BY <1>0, <2>1, <2>2 DEF CountsNat
  <2>9. \A x \in Nss : tC(x)' = tC(x)
    BY <1>0, <2>1, <2>2 DEF CountsNat
  <2> QED BY <2>3, <2>4, <2>5, <2>6, <2>7, <2>8, <2>9
<1>9. HSame /\ KSame /\ PSame /\ XSame /\ CSame
  <2>1. \A x \in Nss : tH(x)' = tH(x)
    BY <1>0, <1>8, <1>42, <1>43 DEF CountsNat
  <2> QED BY <1>8, <2>1, SameCounts
<1>10. LifeInv' /\ RefCount'
  BY <1>0, <1>1, <1>9, LifeSame, RefSame DEF RefInv
<1>11. \A x \in Sbs : MntRefs(x)' = MntRefs(x) /\ tX(x)' = tX(x)
  <2>1. RefsAdd /\ RefsAdd'
    BY <1>0, <1>7, RefsAre, PTL
  <2>2. \A x : OwnMounts(x)' = OwnMounts(x) /\ UserMount(x)' = UserMount(x)
    BY <1>1 DEF OwnMounts, UserMount
  <2>3. \A x \in Sbs : Fds(x)' = Fds(x)
    <3>1. \A x \in Sbs : Fds(x)' = Fds(x) + FdsOf(p, x)' - FdsOf(p, x)
        BY <1>0, <1>3, <1>7, <1>6, FdsChange
    <3>2. Cardinality({}) = 0
        BY FS_EmptySet
    <3>3. \A x : FdsOf(p, x)' = 0 /\ FdsOf(p, x) = 0
        BY <1>6, <1>44, <3>2 DEF FdsOf
    <3> QED BY <2>1, <3>1, <3>3 DEF RefsAdd
  <2> QED BY <1>8, <2>1, <2>2, <2>3 DEF RefsAdd
<1>12. MountT'
  BY <1>0, <1>1, <1>11 DEF MountT
<1>13. tO(p)' = 0 /\ \A q \in Queues : q # p => tO(q)' = tO(q)
  BY <1>0, <1>3, <1>8, <1>41 DEF CountsNat
<1>14. QueueT'
  <2>1. \A q \in Queues : inode[q] # NoQueue => inode[q].sb \in Sbs
    BY <1>0 DEF TypeInv, QueueRecord
  <2>2. s_fs_info' = s_fs_info
    BY <1>1
  <2> QED BY <1>0, <1>6, <1>11, <1>13, <2>1, <2>2 DEF QueueT
<1>15. CountedT'
  <2>1. /\ \A x \in Nss : nQ(x)' = nQ(x) + cQ(p, x)' - cQ(p, x) /\ nQ(x) \in Nat /\ nQ(x)' \in Nat
        /\ \A u \in Users : nU(u)' = nU(u) + cU(p, u)' - cU(p, u) /\ nU(u) \in Nat /\ nU(u)' \in Nat
    BY <1>1, <1>3, <1>6, QueuesChange
  <2>2. /\ \A x : cQ(p, x)' = 0 /\ cU(p, x)' = 0
        /\ \A x \in Nss : count[x] > 0 => cQ(p, x) = IF x = v /\ usr # NoUser THEN 1 ELSE 0
        /\ \A u \in Users : cU(p, u) = IF u = usr THEN 1 ELSE 0
    <3>1. \A x \in Nss : count[x] > 0 => (mq_mnt[x] = s <=> x = v)
        BY <1>0, <1>41, OneNs
    <3> QED BY <1>6, <1>40, <1>41, <3>1 DEF cQ, cU
  <2>3. \A x \in Nss : tC(x)' = tC(x) /\ tC(x) \in Nat
    BY <1>0, <1>8 DEF CountsNat
  <2>4. ASSUME NEW x \in alive, count[x] > 0
        PROVE  mq_queues_count'[x] = nQ(x)' + tC(x)'
    <3>1. x \in Nss
        BY <1>0, NsConstants DEF TypeInv
    <3>2. mq_queues_count[x] = nQ(x) + tC(x)
        BY <1>0, <2>4, <3>1 DEF CountedT
    <3>3. mq_queues_count'[x] = mq_queues_count[x] - (IF x = v /\ usr # NoUser THEN 1 ELSE 0)
          /\ mq_queues_count[x] \in Int
        BY <1>0, <1>5, <1>42, <1>43, <3>1 DEF TypeInv
    <3> QED BY <2>1, <2>2, <2>3, <2>4, <3>1, <3>2, <3>3
  <2>5. \A u \in Users : mq_bytes'[u] = nU(u)'
    <3>2. \A u \in Users : mq_bytes'[u] = mq_bytes[u] - (IF u = usr THEN 1 ELSE 0) /\ mq_bytes[u] \in Int
        BY <1>0, <1>5, <1>41, <1>42 DEF TypeInv
    <3>3. \A u \in Users : mq_bytes[u] = nU(u)
        BY <1>0 DEF CountedT
    <3> QED BY <2>1, <2>2, <3>2, <3>3
  <2>6. alive' = alive /\ count' = count
    BY <1>1
  <2> QED BY <2>4, <2>5, <2>6 DEF CountedT
<1>16. PICK fs : fs = <<a>>
  OBVIOUS
<1>17. fs \in Seq(FrameSet) /\ Moves(t, fs) /\ \A i \in 1 .. Len(fs) : fs[i].at = "put"
  BY <1>7, <1>16, <1>71
<1>20. Unowned'
  BY <1>7, NoOwners, PTL
<1>21. \A u \in Threads : \A f \in Frames(u)' : f \notin Owners(p)
  BY <1>3, <1>13, <1>20 DEF Unowned, Owners
<1>18. OwnerInv'
  <2>1. \A i \in 1 .. Len(fs) : \A q \in Queues : fs[i] \notin Owners(q)
    BY <1>17 DEF Owners
  <2>2. \A q \in Queues : \/ inode'[q].sb = inode[q].sb
                           \/ \A u \in Threads : \A f \in Frames(u)' : f \notin Owners(q)
    BY <1>6, <1>21
  <2> QED BY <1>0, <1>17, <2>1, <2>2, OwnerStep
<1>19. CallInv'
  <2>1. \A i \in 1 .. Len(fs) : CallOK(fs[i])'
    BY <1>17 DEF CallOK
  <2>2. ASSUME NEW u \in Threads, NEW f \in Frames(u), f \in Frames(u)', CallOK(f) PROVE CallOK(f)'
    <3>1. f \in FrameSet /\ ArgsOK(u, f) /\ f \notin Owners(p)
        BY <1>0, <1>21, <2>2, AllArgs
    <3>3. f.at \in {"instantiate", "release"} => f.of # p /\ f.of \in Queues
        BY <3>1 DEF Owners, ArgsOK
    <3> QED BY <1>1, <1>6, <2>2, <3>3 DEF CallOK
  <2> QED BY <1>0, <1>17, <2>1, <2>2, CallStep
<1> QED BY <1>10, <1>12, <1>14, <1>15, <1>18, <1>19, Restated DEF RefInv

-----------------------------------------------------------------------------
(* Files and mounts.                                                       *)

(* A queue with a name or a file, in a super block that is not taken down, *)
(* has no owner.                                                           *)
LEMMA NamedQueue ==
    ASSUME IInv, NEW p \in Queues, inode[p] # NoQueue, inode[p].link \/ inode[p].fds # {},
           MntRefs(inode[p].sb) > 0
    PROVE  /\ tO(p) = 0 /\ inode[p] \in QueueRecord /\ inode[p].sb \in Sbs
           /\ s_fs_info[inode[p].sb] # NoSb
<1>0. TypeInv /\ MountT /\ QueueT
  BY Before
<1>1. inode[p] \in QueueRecord /\ inode[p].sb \in Sbs
  BY <1>0 DEF TypeInv, QueueRecord
<1>2. tX(inode[p].sb) = 0
  BY <1>0, <1>1 DEF MountT
<1> QED BY <1>0, <1>1, <1>2 DEF QueueT

(* One file more, or less, of one queue.                                   *)
LEMMA FdsOne ==
    ASSUME TypeInv, TypeInv', NEW p \in Queues, NEW t \in Tasks, NEW s \in Sbs,
           inode[p] # NoQueue, inode[p].sb = s, inode'[p] # NoQueue, inode'[p].sb = s,
           \A q \in Queues : q # p => inode'[q] = inode[q]
    PROVE  /\ inode'[p].fds = inode[p].fds \cup {t} /\ t \notin inode[p].fds =>
                \A x \in Sbs : Fds(x)' = Fds(x) + (IF x = s THEN 1 ELSE 0)
           /\ inode'[p].fds = inode[p].fds \ {t} /\ t \in inode[p].fds =>
                \A x \in Sbs : Fds(x)' = Fds(x) - (IF x = s THEN 1 ELSE 0)
           /\ inode'[p].fds = inode[p].fds => \A x \in Sbs : Fds(x)' = Fds(x)
<1>1. PICK A, B : A = inode[p].fds /\ B = inode'[p].fds
  OBVIOUS
<1>2. A \in SUBSET Tasks /\ B \in SUBSET Tasks
  BY <1>1 DEF TypeInv, QueueRecord
<1>3. IsFiniteSet(Tasks)
  BY NsConstants
<1>4. \A x \in Sbs : Fds(x)' = Fds(x) + FdsOf(p, x)' - FdsOf(p, x)
  BY FdsChange
<1>5. /\ \A x : FdsOf(p, x) = IF x = s THEN Cardinality(A) ELSE 0
      /\ \A x : FdsOf(p, x)' = IF x = s THEN Cardinality(B) ELSE 0
  BY <1>1 DEF FdsOf
<1>6. RefsAdd
  BY RefsAre
<1>7. \A x \in Sbs : Fds(x) \in Nat
  BY <1>6 DEF RefsAdd
<1>9. Cardinality(A) \in Nat
  BY <1>2, <1>3, FS_Subset, FS_CardinalityType
<1>10. B = A => \A x \in Sbs : Fds(x)' = Fds(x)
  BY <1>4, <1>5, <1>7, <1>9
<1>11. ASSUME B = A \cup {t} \/ B = A \ {t}
       PROVE  Cardinality(B) = Cardinality(A) + (IF t \in B THEN 1 ELSE 0) - (IF t \in A THEN 1 ELSE 0)
  <2>1. \A y \in Tasks : y # t => (y \in A <=> y \in B)
    BY <1>11
  <2> QED BY <1>2, <1>3, <2>1, CardChange
<1>12. B = A \cup {t} /\ t \notin A => \A x \in Sbs : Fds(x)' = Fds(x) + (IF x = s THEN 1 ELSE 0)
  BY <1>4, <1>5, <1>7, <1>9, <1>11
<1>13. B = A \ {t} /\ t \in A => \A x \in Sbs : Fds(x)' = Fds(x) - (IF x = s THEN 1 ELSE 0)
  BY <1>4, <1>5, <1>7, <1>9, <1>11
<1> QED BY <1>1, <1>10, <1>12, <1>13

(* A queue without an owner gets or loses its name or a file; if it was    *)
(* the last, the call becomes its owner.                                   *)
LEMMA NameChanges ==
    ASSUME IInv, TypeInv', NEW p \in Queues, NEW s \in Sbs, inode[p] # NoQueue, inode[p].sb = s, tO(p) = 0,
           inode'[p] # NoQueue, inode'[p].sb = s, inode'[p].user = inode[p].user,
           \A q \in Queues : q # p => inode'[q] = inode[q],
           UNCHANGED <<alive, count, nsproxy, mq_mnt, s_fs_info, usermnt, mq_queues_count, mq_bytes>>,
           \A x \in Nss : tH(x)' = tH(x), \A x \in Nss : tK(x)' = tK(x), \A x \in Nss : tP(x)' = tP(x),
           \A x \in Sbs : tX(x)' = tX(x), \A x \in Nss : tC(x)' = tC(x), RZero,
           \A q \in Queues : tO(q)' = IF q = p /\ ~(inode'[p].link \/ inode'[p].fds # {}) THEN 1 ELSE tO(q)
    PROVE  LifeInv' /\ RefCount' /\ MountT' /\ QueueT' /\ CountedT'
<1>0. TypeInv /\ RefInv /\ LifeT /\ RefT /\ MountT /\ QueueT /\ CountedT
  BY Before
<1>1. HSame /\ KSame /\ PSame
  BY SameCounts
<1>2. LifeInv' /\ RefCount'
  BY <1>0, <1>1, LifeSame, RefSame DEF RefInv
<1>3. ZeroSame
  BY DEF ZeroSame
<1>4. MountT'
  BY <1>0, <1>3, MountKept
<1>5. QueueT'
  <2>1. \A q \in Queues : inode[q] # NoQueue => inode[q].sb \in Sbs
    BY <1>0 DEF TypeInv, QueueRecord
  <2>2. ASSUME NEW q \in Queues, q # p
        PROVE  /\ inode'[q] = NoQueue => tO(q)' = 0
               /\ inode'[q] # NoQueue =>
                    /\ tO(q)' \in {0, 1}
                    /\ tO(q)' = 0 => inode'[q].link \/ inode'[q].fds # {}
                    /\ tO(q)' = 1 /\ (inode'[q].link \/ inode'[q].fds # {}) => tX(inode[q].sb)' = 1
                    /\ s_fs_info'[inode'[q].sb] # NoSb
    <3>1. inode'[q] = inode[q] /\ tO(q)' = tO(q)
        BY <2>2
    <3>2. \A r \in Sbs : tX(r)' = tX(r)
        OBVIOUS
    <3>3. /\ inode[q] = NoQueue => tO(q) = 0
          /\ inode[q] # NoQueue =>
               /\ tO(q) \in {0, 1}
               /\ tO(q) = 0 => inode[q].link \/ inode[q].fds # {}
               /\ tO(q) = 1 /\ (inode[q].link \/ inode[q].fds # {}) => tX(inode[q].sb) = 1
               /\ s_fs_info[inode[q].sb] # NoSb
        BY <1>0 DEF QueueT
    <3>4. inode[q] # NoQueue => tX(inode[q].sb)' = tX(inode[q].sb)
        BY <2>1, <3>1, <3>2
    <3>5. s_fs_info' = s_fs_info
        OBVIOUS
    <3> QED BY <3>1, <3>3, <3>4, <3>5
  <2>3. /\ tO(p)' \in {0, 1}
        /\ tO(p)' = 0 => inode'[p].link \/ inode'[p].fds # {}
        /\ ~(tO(p)' = 1 /\ (inode'[p].link \/ inode'[p].fds # {}))
        /\ s_fs_info'[inode'[p].sb] # NoSb
    BY <1>0 DEF QueueT
  <2>4. /\ \A q \in Queues : inode'[q] = NoQueue => tO(q)' = 0
        /\ \A q \in Queues : inode'[q] # NoQueue =>
             /\ tO(q)' \in {0, 1}
             /\ tO(q)' = 0 => inode'[q].link \/ inode'[q].fds # {}
             /\ tO(q)' = 1 /\ (inode'[q].link \/ inode'[q].fds # {}) => tX(inode[q].sb)' = 1
             /\ s_fs_info'[inode'[q].sb] # NoSb
    <3> SUFFICES ASSUME NEW q \in Queues
                 PROVE  /\ inode'[q] = NoQueue => tO(q)' = 0
                        /\ inode'[q] # NoQueue =>
                             /\ tO(q)' \in {0, 1}
                             /\ tO(q)' = 0 => inode'[q].link \/ inode'[q].fds # {}
                             /\ tO(q)' = 1 /\ (inode'[q].link \/ inode'[q].fds # {}) => tX(inode[q].sb)' = 1
                             /\ s_fs_info'[inode'[q].sb] # NoSb
        OBVIOUS
    <3>1. CASE q # p
        BY <2>2, <3>1
    <3>2. CASE q = p
        BY <2>3, <3>2
    <3> QED BY <3>1, <3>2
  <2> QED BY <2>4 DEF QueueT
<1>6. CountedT'
  <2>1. /\ \A x \in Nss : nQ(x)' = nQ(x) + cQ(p, x)' - cQ(p, x) /\ nQ(x) \in Nat /\ nQ(x)' \in Nat
        /\ \A u \in Users : nU(u)' = nU(u) + cU(p, u)' - cU(p, u) /\ nU(u) \in Nat /\ nU(u)' \in Nat
    BY QueuesChange
  <2>2. \A x : cQ(p, x)' = cQ(p, x) /\ cU(p, x)' = cU(p, x) /\ cQ(p, x) \in Nat /\ cU(p, x) \in Nat
    BY DEF cQ, cU
  <2>3. \A x \in Nss : nQ(x)' = nQ(x) /\ tC(x)' = tC(x)
    BY <2>1, <2>2
  <2>4. \A u \in Users : nU(u)' = nU(u)
    BY <2>1, <2>2
  <2>5. alive \subseteq Nss
    BY <1>0 DEF TypeInv
  <2> QED BY <1>0, <2>3, <2>4, <2>5 DEF CountedT
<1> QED BY <1>2, <1>4, <1>5, <1>6

(* The frames of the calls have what they had.                             *)
LEMMA NamesCalls ==
    ASSUME IInv, NEW p \in Queues, tO(p) = 0, s_fs_info' = s_fs_info,
           \A q \in Queues : q # p => inode'[q] = inode[q],
           NEW u \in Threads, NEW f \in Frames(u), CallOK(f)
    PROVE  CallOK(f)'
<1>0. TypeInv /\ ShapeInv
  BY Before
<1>1. f \in FrameSet /\ ArgsOK(u, f)
  BY <1>0, AllArgs
<1>2. f \notin Owners(p)
  BY <1>0, NoOwners DEF Unowned
<1>3. f.at \in {"instantiate", "release"} => f.of # p /\ f.of \in Queues
  BY <1>1, <1>2 DEF Owners, ArgsOK
<1> QED BY <1>3 DEF CallOK

(* A file is opened.                                                       *)
LEMMA Ref_do_open ==
    ASSUME IInv, NEW t \in Tasks, NEW p \in Queues, do_open(t, p), may' = may
    PROVE  RefInv'
<1>0. TypeInv /\ RefInv /\ OwnerInv /\ CallInv /\ CountsNat
  BY Before
<1>1. /\ stack' = stack /\ t \notin inode[p].fds /\ Reaches(t, inode[p].sb) /\ inode[p] # NoQueue /\ inode[p].link
      /\ UNCHANGED <<alive, count, nsproxy, mq_mnt, s_fs_info, usermnt, mq_queues_count, mq_bytes>>
  BY DEF do_open, nsv, sbv
<1>2. TypeInv'
  BY <1>1, After_rest
<1>3. PICK s : s = inode[p].sb
  OBVIOUS
<1>4. s \in Sbs /\ inode[p] \in QueueRecord
  BY <1>0, <1>1, <1>3 DEF TypeInv, QueueRecord
<1>5. MntRefs(s) > 0
  BY <1>0, <1>1, <1>3, <1>4, ReachRefs
<1>6. tO(p) = 0
  BY <1>1, <1>3, <1>5, NamedQueue
<1>7. /\ inode'[p].sb = s /\ inode'[p].user = inode[p].user /\ inode'[p].link = TRUE
      /\ inode'[p].fds = inode[p].fds \cup {t}
      /\ \A q \in Queues : q # p => inode'[q] = inode[q]
  <2>1. inode' = [inode EXCEPT ![p].fds = inode[p].fds \cup {t}]
    BY <1>0, <1>4 DEF do_open, TypeInv
  <2> QED BY <1>0, <1>1, <1>3, <1>4, <2>1 DEF TypeInv, QueueRecord
<1>8. inode'[p] # NoQueue
  <2>1. inode' = [inode EXCEPT ![p].fds = inode[p].fds \cup {t}]
    BY <1>0, <1>4 DEF do_open, TypeInv
  <2>2. inode'[p] \in QueueRecord
    BY <1>0, <1>4, <2>1 DEF TypeInv, QueueRecord
  <2> QED BY <2>2, NsConstants
<1>9. \A S : Total(S)' = Total(S)
  BY <1>1 DEF Total
<1>10. /\ \A x : tH(x)' = tH(x) /\ tK(x)' = tK(x) /\ tP(x)' = tP(x) /\ tM(x)' = tM(x) /\ tX(x)' = tX(x)
       /\ \A x : tO(x)' = tO(x) /\ tC(x)' = tC(x)
  BY <1>9 DEF tH, tK, tP, tM, tX, tO, tC, Holders, Owners, Creations
<1>11. RZero
  <2>1. RefsAdd /\ RefsAdd'
    BY <1>0, <1>2, RefsAre, PTL
  <2>2. \A x : OwnMounts(x)' = OwnMounts(x) /\ UserMount(x)' = UserMount(x)
    BY <1>1 DEF OwnMounts, UserMount
  <2>3. \A x \in Sbs : Fds(x)' = Fds(x) + (IF x = s THEN 1 ELSE 0)
    BY <1>0, <1>1, <1>2, <1>3, <1>4, <1>7, <1>8, FdsOne
  <2>4. \A x \in Sbs : MntRefs(x)' = MntRefs(x) + (IF x = s THEN 1 ELSE 0) /\ MntRefs(x) \in Nat
    BY <1>10, <2>1, <2>2, <2>3 DEF RefsAdd
  <2> QED BY <1>5, <2>4 DEF RZero
<1>12. LifeInv' /\ RefCount' /\ MountT' /\ QueueT' /\ CountedT'
  <2>1. \A q \in Queues : tO(q)' = IF q = p /\ ~(inode'[p].link \/ inode'[p].fds # {}) THEN 1 ELSE tO(q)
    BY <1>7, <1>10
  <2> QED BY <1>1, <1>2, <1>3, <1>4, <1>6, <1>7, <1>8, <1>10, <1>11, <2>1, NameChanges
<1>13. OwnerInv'
  <2>1. \A q \in Queues : inode'[q].sb = inode[q].sb
    BY <1>3, <1>7
  <2> QED BY <1>0, <1>1, <2>1 DEF OwnerInv, Owners, Below, Keepers
<1>14. CallInv'
  <2>1. \A u \in Threads : \A f \in Frames(u) : CallOK(f)
    BY <1>0 DEF CallInv, CallOK
  <2>2. \A u \in Threads : \A f \in Frames(u) : CallOK(f)'
    BY <1>1, <1>6, <1>7, <2>1, NamesCalls
  <2>3. \A u : Frames(u)' = Frames(u)
    BY <1>1 DEF Frames
  <2> QED BY <2>2, <2>3 DEF CallInv, CallOK
<1> QED BY <1>12, <1>13, <1>14, Restated DEF RefInv

(* A file is closed, the queue stays.                                      *)
LEMMA Ref_close_more ==
    ASSUME IInv, NEW t \in Tasks, NEW p \in Queues, close(t, p), may' = may,
           inode[p].link \/ inode[p].fds \ {t} # {}
    PROVE  RefInv'
<1>0. /\ TypeInv /\ ShapeInv /\ RefInv /\ stack \in [Threads -> Seq(FrameSet)]
      /\ LifeT /\ RefT /\ MountT /\ QueueT /\ CountedT /\ CountsNat /\ OwnerInv /\ CallInv
  BY Before
<1>00. RefsAdd /\ Unowned
  BY <1>0, RefsAre, NoOwners
<1>1. /\ stack[t] = <<>> /\ t \in Threads /\ inode[p] # NoQueue /\ t \in inode[p].fds
      /\ UNCHANGED <<alive, count, nsproxy, mq_mnt, s_fs_info, usermnt, mq_queues_count, mq_bytes>>
  BY DEF close, Idle, Threads, nsv, sbv
<1>2. PICK s, b : s = inode[p].sb /\ b = Frame("mntput", s)
  OBVIOUS
<1>3. s \in Sbs /\ inode[p] \in QueueRecord
  BY <1>0, <1>1, <1>2 DEF TypeInv, QueueRecord
<1>4. MntRefs(s) > 0
  BY <1>0, <1>1, <1>2, <1>3, SbParts
<1>5. tO(p) = 0
  BY <1>1, <1>2, <1>4, NamedQueue
<1>6. Moves(t, <<b>>) /\ TypeInv' /\ <<b>> \in Seq(FrameSet)
  BY <1>2, After_close DEF Ends
<1>60. /\ b \in FrameSet /\ ArgsOK(t, b) /\ b.at = "mntput" /\ b.of = s
  BY <1>2, <1>3, PlainFrames DEF NsLabels
<1>61. inode' = [inode EXCEPT ![p].fds = inode[p].fds \ {t}]
  BY <1>0, <1>3 DEF close, TypeInv
<1>7. /\ inode'[p].sb = s /\ inode'[p].user = inode[p].user /\ inode'[p].link = inode[p].link
      /\ inode'[p].fds = inode[p].fds \ {t}
      /\ \A q \in Queues : q # p => inode'[q] = inode[q]
  BY <1>0, <1>1, <1>2, <1>3, <1>61 DEF TypeInv, QueueRecord
<1>70. inode'[p] # NoQueue
  <2>2. inode'[p] \in QueueRecord
    BY <1>0, <1>3, <1>61 DEF TypeInv, QueueRecord
  <2> QED BY <2>2, NsConstants
<1>8. /\ \A x \in Nss : tH(x)' = tH(x)
      /\ \A x \in Nss : tK(x)' = tK(x)
      /\ \A x \in Nss : tP(x)' = tP(x)
      /\ \A x \in Sbs : tM(x)' = tM(x) + (IF x = s THEN 1 ELSE 0)
      /\ \A x \in Sbs : tX(x)' = tX(x)
      /\ \A x \in Queues : tO(x)' = tO(x)
      /\ \A x \in Nss : tC(x)' = tC(x)
  <2>1. /\ \A x : hH(b, x) = 0
        /\ \A x : hK(b, x) = 0
        /\ \A x : hP(b, x) = 0
        /\ \A x : hM(b, x) = IF x = s THEN 1 ELSE 0
        /\ \A x : hX(b, x) = 0
        /\ \A x : hO(b, x) = 0
        /\ \A x : hC(b, x) = 0
    BY <1>0, <1>1, <1>60, <1>6 DEF hH, hK, hP, hM, hX, hO, hC
  <2>2. /\ \A x \in Nss : tH(x)' = tH(x) + hH(b, x)
        /\ \A x \in Nss : tK(x)' = tK(x) + hK(b, x)
        /\ \A x \in Nss : tP(x)' = tP(x) + hP(b, x)
        /\ \A x \in Sbs : tM(x)' = tM(x) + hM(b, x)
        /\ \A x \in Sbs : tX(x)' = tX(x) + hX(b, x)
        /\ \A x \in Queues : tO(x)' = tO(x) + hO(b, x)
        /\ \A x \in Nss : tC(x)' = tC(x) + hC(b, x)
    BY <1>0, <1>1, <1>60, <1>6, Call1
  <2>3. \A x \in Nss : tH(x)' = tH(x)
    BY <1>0, <2>1, <2>2 DEF CountsNat
  <2>4. \A x \in Nss : tK(x)' = tK(x)
    BY <1>0, <2>1, <2>2 DEF CountsNat
  <2>5. \A x \in Nss : tP(x)' = tP(x)
    BY <1>0, <2>1, <2>2 DEF CountsNat
  <2>6. \A x \in Sbs : tM(x)' = tM(x) + (IF x = s THEN 1 ELSE 0)
    BY <1>0, <2>1, <2>2 DEF CountsNat
  <2>7. \A x \in Sbs : tX(x)' = tX(x)
    BY <1>0, <2>1, <2>2 DEF CountsNat
  <2>8. \A x \in Queues : tO(x)' = tO(x)
    BY <1>0, <2>1, <2>2 DEF CountsNat
  <2>9. \A x \in Nss : tC(x)' = tC(x)
    BY <1>0, <2>1, <2>2 DEF CountsNat
  <2> QED BY <2>3, <2>4, <2>5, <2>6, <2>7, <2>8, <2>9
<1>11. RZero
  <2>1. RefsAdd /\ RefsAdd'
    BY <1>0, <1>6, RefsAre, PTL
  <2>2. \A x : OwnMounts(x)' = OwnMounts(x) /\ UserMount(x)' = UserMount(x)
    BY <1>1 DEF OwnMounts, UserMount
  <2>3. \A x \in Sbs : Fds(x)' = Fds(x) - (IF x = s THEN 1 ELSE 0)
    BY <1>0, <1>1, <1>2, <1>3, <1>6, <1>7, <1>70, FdsOne
  <2>4. \A x \in Sbs : MntRefs(x)' = MntRefs(x) /\ MntRefs(x) \in Nat
    BY <1>8, <2>1, <2>2, <2>3 DEF RefsAdd
  <2> QED BY <1>4, <2>4 DEF RZero
<1>12. LifeInv' /\ RefCount' /\ MountT' /\ QueueT' /\ CountedT'
  <2>1. \A q \in Queues : tO(q)' = IF q = p /\ ~(inode'[p].link \/ inode'[p].fds # {}) THEN 1 ELSE tO(q)
    BY <1>0, <1>5, <1>7, <1>8 DEF CountsNat
  <2> QED BY <1>1, <1>2, <1>3, <1>5, <1>6, <1>7, <1>8, <1>70, <1>11, <2>1, NameChanges
<1>16. PICK fs : fs = <<b>>
  OBVIOUS
<1>17. /\ fs \in Seq(FrameSet) /\ Moves(t, fs) /\ \A i \in 1 .. Len(fs) : fs[i] \in {b}
  BY <1>6, <1>16
<1>18. OwnerInv'
  <2>1. \A q \in Queues : inode'[q].sb = inode[q].sb
    BY <1>2, <1>7
  <2> QED BY <1>0, <1>1, <1>17, <1>60, <2>1, OwnersStay
<1>19. CallInv'
  <2>1. \A i \in 1 .. Len(fs) : CallOK(fs[i])'
    BY <1>17, <1>60 DEF CallOK
  <2>2. ASSUME NEW u \in Threads, NEW f \in Frames(u), f \in Frames(u)', CallOK(f) PROVE CallOK(f)'
    BY <1>1, <1>5, <1>7, <2>2, NamesCalls
  <2> QED BY <1>0, <1>1, <1>17, <2>1, <2>2, CallStep
<1> QED BY <1>12, <1>18, <1>19, Restated DEF RefInv

(* The last file of an unlinked queue is closed: it is to be deleted.      *)
LEMMA Ref_close_last ==
    ASSUME IInv, NEW t \in Tasks, NEW p \in Queues, close(t, p), may' = may,
           ~(inode[p].link \/ inode[p].fds \ {t} # {})
    PROVE  RefInv'
<1>0. /\ TypeInv /\ ShapeInv /\ RefInv /\ stack \in [Threads -> Seq(FrameSet)]
      /\ LifeT /\ RefT /\ MountT /\ QueueT /\ CountedT /\ CountsNat /\ OwnerInv /\ CallInv
  BY Before
<1>00. RefsAdd /\ Unowned
  BY <1>0, RefsAre, NoOwners
<1>1. /\ stack[t] = <<>> /\ t \in Threads /\ inode[p] # NoQueue /\ t \in inode[p].fds
      /\ UNCHANGED <<alive, count, nsproxy, mq_mnt, s_fs_info, usermnt, mq_queues_count, mq_bytes>>
  BY DEF close, Idle, Threads, nsv, sbv
<1>2. PICK s, a, b : s = inode[p].sb /\ a = Frame("delete", p) /\ b = Frame("mntput", s)
  OBVIOUS
<1>3. s \in Sbs /\ inode[p] \in QueueRecord
  BY <1>0, <1>1, <1>2 DEF TypeInv, QueueRecord
<1>4. MntRefs(s) > 0
  BY <1>0, <1>1, <1>2, <1>3, SbParts
<1>5. tO(p) = 0
  BY <1>1, <1>2, <1>4, NamedQueue
<1>6. Moves(t, <<a, b>>) /\ TypeInv' /\ <<a, b>> \in Seq(FrameSet)
  BY <1>2, After_close DEF Ends
<1>60. /\ a \in FrameSet /\ ArgsOK(t, a) /\ a.at = "delete" /\ a.of = p
      /\ b \in FrameSet /\ ArgsOK(t, b) /\ b.at = "mntput" /\ b.of = s
  BY <1>2, <1>3, PlainFrames DEF NsLabels
<1>61. inode' = [inode EXCEPT ![p].fds = inode[p].fds \ {t}]
  BY <1>0, <1>3 DEF close, TypeInv
<1>7. /\ inode'[p].sb = s /\ inode'[p].user = inode[p].user /\ inode'[p].link = inode[p].link
      /\ inode'[p].fds = inode[p].fds \ {t}
      /\ \A q \in Queues : q # p => inode'[q] = inode[q]
  BY <1>0, <1>1, <1>2, <1>3, <1>61 DEF TypeInv, QueueRecord
<1>70. inode'[p] # NoQueue
  <2>2. inode'[p] \in QueueRecord
    BY <1>0, <1>3, <1>61 DEF TypeInv, QueueRecord
  <2> QED BY <2>2, NsConstants
<1>8. /\ \A x \in Nss : tH(x)' = tH(x)
      /\ \A x \in Nss : tK(x)' = tK(x)
      /\ \A x \in Nss : tP(x)' = tP(x)
      /\ \A x \in Sbs : tM(x)' = tM(x) + (IF x = s THEN 1 ELSE 0)
      /\ \A x \in Sbs : tX(x)' = tX(x)
      /\ \A x \in Queues : tO(x)' = tO(x) + (IF x = p THEN 1 ELSE 0)
      /\ \A x \in Nss : tC(x)' = tC(x)
  <2>1. /\ \A x : hH(a, x) = 0
        /\ \A x : hK(a, x) = 0
        /\ \A x : hP(a, x) = 0
        /\ \A x : hM(a, x) = 0
        /\ \A x : hX(a, x) = 0
        /\ \A x : hO(a, x) = IF x = p THEN 1 ELSE 0
        /\ \A x : hC(a, x) = 0
        /\ \A x : hH(b, x) = 0
        /\ \A x : hK(b, x) = 0
        /\ \A x : hP(b, x) = 0
        /\ \A x : hM(b, x) = IF x = s THEN 1 ELSE 0
        /\ \A x : hX(b, x) = 0
        /\ \A x : hO(b, x) = 0
        /\ \A x : hC(b, x) = 0
    BY <1>0, <1>1, <1>60, <1>6 DEF hH, hK, hP, hM, hX, hO, hC
  <2>2. /\ \A x \in Nss : tH(x)' = tH(x) + hH(a, x) + hH(b, x)
        /\ \A x \in Nss : tK(x)' = tK(x) + hK(a, x) + hK(b, x)
        /\ \A x \in Nss : tP(x)' = tP(x) + hP(a, x) + hP(b, x)
        /\ \A x \in Sbs : tM(x)' = tM(x) + hM(a, x) + hM(b, x)
        /\ \A x \in Sbs : tX(x)' = tX(x) + hX(a, x) + hX(b, x)
        /\ \A x \in Queues : tO(x)' = tO(x) + hO(a, x) + hO(b, x)
        /\ \A x \in Nss : tC(x)' = tC(x) + hC(a, x) + hC(b, x)
    BY <1>0, <1>1, <1>60, <1>6, Call2
  <2>3. \A x \in Nss : tH(x)' = tH(x)
    BY <1>0, <2>1, <2>2 DEF CountsNat
  <2>4. \A x \in Nss : tK(x)' = tK(x)
    BY <1>0, <2>1, <2>2 DEF CountsNat
  <2>5. \A x \in Nss : tP(x)' = tP(x)
    BY <1>0, <2>1, <2>2 DEF CountsNat
  <2>6. \A x \in Sbs : tM(x)' = tM(x) + (IF x = s THEN 1 ELSE 0)
    BY <1>0, <2>1, <2>2 DEF CountsNat
  <2>7. \A x \in Sbs : tX(x)' = tX(x)
    BY <1>0, <2>1, <2>2 DEF CountsNat
  <2>8. \A x \in Queues : tO(x)' = tO(x) + (IF x = p THEN 1 ELSE 0)
    BY <1>0, <2>1, <2>2 DEF CountsNat
  <2>9. \A x \in Nss : tC(x)' = tC(x)
    BY <1>0, <2>1, <2>2 DEF CountsNat
  <2> QED BY <2>3, <2>4, <2>5, <2>6, <2>7, <2>8, <2>9
<1>11. RZero
  <2>1. RefsAdd /\ RefsAdd'
    BY <1>0, <1>6, RefsAre, PTL
  <2>2. \A x : OwnMounts(x)' = OwnMounts(x) /\ UserMount(x)' = UserMount(x)
    BY <1>1 DEF OwnMounts, UserMount
  <2>3. \A x \in Sbs : Fds(x)' = Fds(x) - (IF x = s THEN 1 ELSE 0)
    BY <1>0, <1>1, <1>2, <1>3, <1>6, <1>7, <1>70, FdsOne
  <2>4. \A x \in Sbs : MntRefs(x)' = MntRefs(x) /\ MntRefs(x) \in Nat
    BY <1>8, <2>1, <2>2, <2>3 DEF RefsAdd
  <2> QED BY <1>4, <2>4 DEF RZero
<1>12. LifeInv' /\ RefCount' /\ MountT' /\ QueueT' /\ CountedT'
  <2>1. \A q \in Queues : tO(q)' = IF q = p /\ ~(inode'[p].link \/ inode'[p].fds # {}) THEN 1 ELSE tO(q)
    BY <1>0, <1>5, <1>7, <1>8 DEF CountsNat
  <2> QED BY <1>1, <1>2, <1>3, <1>5, <1>6, <1>7, <1>8, <1>70, <1>11, <2>1, NameChanges
<1>16. PICK fs : fs = <<a, b>>
  OBVIOUS
<1>17. /\ fs \in Seq(FrameSet) /\ Moves(t, fs) /\ \A i \in 1 .. Len(fs) : fs[i] \in {a, b}
  BY <1>6, <1>16
<1>18. OwnerInv'
  <2>1. \A q \in Queues : inode'[q].sb = inode[q].sb
    BY <1>2, <1>7
  <2>2. ASSUME NEW i \in 1 .. Len(fs), NEW q \in Queues, fs[i] \in Owners(q)
        PROVE  Below(t, i, Keepers(fs[i], inode[q].sb))'
    <3>1. i = 1 /\ q = p /\ Len(fs) = 2 /\ fs[2] = b /\ fs[1] = a
        BY <1>16, <1>60, <2>2 DEF Owners
    <3>2. PICK S : S = Keepers(fs[i], inode'[q].sb)
        OBVIOUS
    <3>3. fs[2] \in S
        BY <1>2, <1>7, <3>1, <3>2 DEF Keepers
    <3>5. i \in 1 .. Len(fs) /\ 2 \in 1 .. Len(fs) /\ i < 2
        BY <3>1
    <3>4. Below(t, i, S)'
        BY <1>0, <1>1, <1>17, <3>3, <3>5, BelowNext
    <3> QED BY <3>2, <3>4 DEF Below, Keepers
  <2> QED BY <1>0, <1>1, <1>17, <2>1, <2>2, OwnerStep
<1>19. CallInv'
  <2>1. \A i \in 1 .. Len(fs) : CallOK(fs[i])'
    BY <1>17, <1>60 DEF CallOK
  <2>2. ASSUME NEW u \in Threads, NEW f \in Frames(u), f \in Frames(u)', CallOK(f) PROVE CallOK(f)'
    BY <1>1, <1>5, <1>7, <2>2, NamesCalls
  <2> QED BY <1>0, <1>1, <1>17, <2>1, <2>2, CallStep
<1> QED BY <1>12, <1>18, <1>19, Restated DEF RefInv

(* An open queue loses its name.                                           *)
LEMMA Ref_mq_unlink_more ==
    ASSUME IInv, NEW t \in Tasks, NEW p \in Queues, mq_unlink(t, p), may' = may,
           inode[p].fds # {}
    PROVE  RefInv'
<1>0. /\ TypeInv /\ ShapeInv /\ RefInv /\ stack \in [Threads -> Seq(FrameSet)]
      /\ LifeT /\ RefT /\ MountT /\ QueueT /\ CountedT /\ CountsNat /\ OwnerInv /\ CallInv
  BY Before
<1>00. RefsAdd /\ Unowned
  BY <1>0, RefsAre, NoOwners
<1>1. /\ stack[t] = <<>> /\ t \in Threads /\ inode[p] # NoQueue /\ inode[p].link /\ Reaches(t, inode[p].sb)
      /\ UNCHANGED <<alive, count, nsproxy, mq_mnt, s_fs_info, usermnt, mq_queues_count, mq_bytes>>
  BY DEF mq_unlink, Idle, Threads, nsv, sbv, Reaches
<1>2. PICK s, b : s = inode[p].sb /\ b = Frame("mntput", s)
  OBVIOUS
<1>3. s \in Sbs /\ inode[p] \in QueueRecord
  BY <1>0, <1>1, <1>2 DEF TypeInv, QueueRecord
<1>4. MntRefs(s) > 0
  BY <1>0, <1>1, <1>2, <1>3, ReachRefs
<1>5. tO(p) = 0
  BY <1>1, <1>2, <1>4, NamedQueue
<1>6. Moves(t, <<b>>) /\ TypeInv' /\ <<b>> \in Seq(FrameSet)
  BY <1>2, After_mq_unlink DEF Ends
<1>60. /\ b \in FrameSet /\ ArgsOK(t, b) /\ b.at = "mntput" /\ b.of = s
  BY <1>2, <1>3, PlainFrames DEF NsLabels
<1>61. inode' = [inode EXCEPT ![p].link = FALSE]
  BY <1>0, <1>3 DEF mq_unlink, TypeInv
<1>7. /\ inode'[p].sb = s /\ inode'[p].user = inode[p].user /\ inode'[p].link = FALSE
      /\ inode'[p].fds = inode[p].fds
      /\ \A q \in Queues : q # p => inode'[q] = inode[q]
  BY <1>0, <1>1, <1>2, <1>3, <1>61 DEF TypeInv, QueueRecord
<1>70. inode'[p] # NoQueue
  <2>2. inode'[p] \in QueueRecord
    BY <1>0, <1>3, <1>61 DEF TypeInv, QueueRecord
  <2> QED BY <2>2, NsConstants
<1>8. /\ \A x \in Nss : tH(x)' = tH(x)
      /\ \A x \in Nss : tK(x)' = tK(x)
      /\ \A x \in Nss : tP(x)' = tP(x)
      /\ \A x \in Sbs : tM(x)' = tM(x) + (IF x = s THEN 1 ELSE 0)
      /\ \A x \in Sbs : tX(x)' = tX(x)
      /\ \A x \in Queues : tO(x)' = tO(x)
      /\ \A x \in Nss : tC(x)' = tC(x)
  <2>1. /\ \A x : hH(b, x) = 0
        /\ \A x : hK(b, x) = 0
        /\ \A x : hP(b, x) = 0
        /\ \A x : hM(b, x) = IF x = s THEN 1 ELSE 0
        /\ \A x : hX(b, x) = 0
        /\ \A x : hO(b, x) = 0
        /\ \A x : hC(b, x) = 0
    BY <1>0, <1>1, <1>60, <1>6 DEF hH, hK, hP, hM, hX, hO, hC
  <2>2. /\ \A x \in Nss : tH(x)' = tH(x) + hH(b, x)
        /\ \A x \in Nss : tK(x)' = tK(x) + hK(b, x)
        /\ \A x \in Nss : tP(x)' = tP(x) + hP(b, x)
        /\ \A x \in Sbs : tM(x)' = tM(x) + hM(b, x)
        /\ \A x \in Sbs : tX(x)' = tX(x) + hX(b, x)
        /\ \A x \in Queues : tO(x)' = tO(x) + hO(b, x)
        /\ \A x \in Nss : tC(x)' = tC(x) + hC(b, x)
    BY <1>0, <1>1, <1>60, <1>6, Call1
  <2>3. \A x \in Nss : tH(x)' = tH(x)
    BY <1>0, <2>1, <2>2 DEF CountsNat
  <2>4. \A x \in Nss : tK(x)' = tK(x)
    BY <1>0, <2>1, <2>2 DEF CountsNat
  <2>5. \A x \in Nss : tP(x)' = tP(x)
    BY <1>0, <2>1, <2>2 DEF CountsNat
  <2>6. \A x \in Sbs : tM(x)' = tM(x) + (IF x = s THEN 1 ELSE 0)
    BY <1>0, <2>1, <2>2 DEF CountsNat
  <2>7. \A x \in Sbs : tX(x)' = tX(x)
    BY <1>0, <2>1, <2>2 DEF CountsNat
  <2>8. \A x \in Queues : tO(x)' = tO(x)
    BY <1>0, <2>1, <2>2 DEF CountsNat
  <2>9. \A x \in Nss : tC(x)' = tC(x)
    BY <1>0, <2>1, <2>2 DEF CountsNat
  <2> QED BY <2>3, <2>4, <2>5, <2>6, <2>7, <2>8, <2>9
<1>11. RZero
  <2>1. RefsAdd /\ RefsAdd'
    BY <1>0, <1>6, RefsAre, PTL
  <2>2. \A x : OwnMounts(x)' = OwnMounts(x) /\ UserMount(x)' = UserMount(x)
    BY <1>1 DEF OwnMounts, UserMount
  <2>3. \A x \in Sbs : Fds(x)' = Fds(x)
    BY <1>0, <1>1, <1>2, <1>3, <1>6, <1>7, <1>70, FdsOne
  <2>4. \A x \in Sbs : MntRefs(x)' = MntRefs(x) + (IF x = s THEN 1 ELSE 0) /\ MntRefs(x) \in Nat
    BY <1>8, <2>1, <2>2, <2>3 DEF RefsAdd
  <2> QED BY <1>4, <2>4 DEF RZero
<1>12. LifeInv' /\ RefCount' /\ MountT' /\ QueueT' /\ CountedT'
  <2>1. \A q \in Queues : tO(q)' = IF q = p /\ ~(inode'[p].link \/ inode'[p].fds # {}) THEN 1 ELSE tO(q)
    BY <1>0, <1>5, <1>7, <1>8 DEF CountsNat
  <2> QED BY <1>1, <1>2, <1>3, <1>5, <1>6, <1>7, <1>8, <1>70, <1>11, <2>1, NameChanges
<1>16. PICK fs : fs = <<b>>
  OBVIOUS
<1>17. /\ fs \in Seq(FrameSet) /\ Moves(t, fs) /\ \A i \in 1 .. Len(fs) : fs[i] \in {b}
  BY <1>6, <1>16
<1>18. OwnerInv'
  <2>1. \A q \in Queues : inode'[q].sb = inode[q].sb
    BY <1>2, <1>7
  <2> QED BY <1>0, <1>1, <1>17, <1>60, <2>1, OwnersStay
<1>19. CallInv'
  <2>1. \A i \in 1 .. Len(fs) : CallOK(fs[i])'
    BY <1>17, <1>60 DEF CallOK
  <2>2. ASSUME NEW u \in Threads, NEW f \in Frames(u), f \in Frames(u)', CallOK(f) PROVE CallOK(f)'
    BY <1>1, <1>5, <1>7, <2>2, NamesCalls
  <2> QED BY <1>0, <1>1, <1>17, <2>1, <2>2, CallStep
<1> QED BY <1>12, <1>18, <1>19, Restated DEF RefInv

(* A queue without a file loses its name: it is to be deleted.             *)
LEMMA Ref_mq_unlink_last ==
    ASSUME IInv, NEW t \in Tasks, NEW p \in Queues, mq_unlink(t, p), may' = may,
           ~(inode[p].fds # {})
    PROVE  RefInv'
<1>0. /\ TypeInv /\ ShapeInv /\ RefInv /\ stack \in [Threads -> Seq(FrameSet)]
      /\ LifeT /\ RefT /\ MountT /\ QueueT /\ CountedT /\ CountsNat /\ OwnerInv /\ CallInv
  BY Before
<1>00. RefsAdd /\ Unowned
  BY <1>0, RefsAre, NoOwners
<1>1. /\ stack[t] = <<>> /\ t \in Threads /\ inode[p] # NoQueue /\ inode[p].link /\ Reaches(t, inode[p].sb)
      /\ UNCHANGED <<alive, count, nsproxy, mq_mnt, s_fs_info, usermnt, mq_queues_count, mq_bytes>>
  BY DEF mq_unlink, Idle, Threads, nsv, sbv, Reaches
<1>2. PICK s, a, b : s = inode[p].sb /\ a = Frame("delete", p) /\ b = Frame("mntput", s)
  OBVIOUS
<1>3. s \in Sbs /\ inode[p] \in QueueRecord
  BY <1>0, <1>1, <1>2 DEF TypeInv, QueueRecord
<1>4. MntRefs(s) > 0
  BY <1>0, <1>1, <1>2, <1>3, ReachRefs
<1>5. tO(p) = 0
  BY <1>1, <1>2, <1>4, NamedQueue
<1>6. Moves(t, <<a, b>>) /\ TypeInv' /\ <<a, b>> \in Seq(FrameSet)
  BY <1>2, After_mq_unlink DEF Ends
<1>60. /\ a \in FrameSet /\ ArgsOK(t, a) /\ a.at = "delete" /\ a.of = p
      /\ b \in FrameSet /\ ArgsOK(t, b) /\ b.at = "mntput" /\ b.of = s
  BY <1>2, <1>3, PlainFrames DEF NsLabels
<1>61. inode' = [inode EXCEPT ![p].link = FALSE]
  BY <1>0, <1>3 DEF mq_unlink, TypeInv
<1>7. /\ inode'[p].sb = s /\ inode'[p].user = inode[p].user /\ inode'[p].link = FALSE
      /\ inode'[p].fds = inode[p].fds
      /\ \A q \in Queues : q # p => inode'[q] = inode[q]
  BY <1>0, <1>1, <1>2, <1>3, <1>61 DEF TypeInv, QueueRecord
<1>70. inode'[p] # NoQueue
  <2>2. inode'[p] \in QueueRecord
    BY <1>0, <1>3, <1>61 DEF TypeInv, QueueRecord
  <2> QED BY <2>2, NsConstants
<1>8. /\ \A x \in Nss : tH(x)' = tH(x)
      /\ \A x \in Nss : tK(x)' = tK(x)
      /\ \A x \in Nss : tP(x)' = tP(x)
      /\ \A x \in Sbs : tM(x)' = tM(x) + (IF x = s THEN 1 ELSE 0)
      /\ \A x \in Sbs : tX(x)' = tX(x)
      /\ \A x \in Queues : tO(x)' = tO(x) + (IF x = p THEN 1 ELSE 0)
      /\ \A x \in Nss : tC(x)' = tC(x)
  <2>1. /\ \A x : hH(a, x) = 0
        /\ \A x : hK(a, x) = 0
        /\ \A x : hP(a, x) = 0
        /\ \A x : hM(a, x) = 0
        /\ \A x : hX(a, x) = 0
        /\ \A x : hO(a, x) = IF x = p THEN 1 ELSE 0
        /\ \A x : hC(a, x) = 0
        /\ \A x : hH(b, x) = 0
        /\ \A x : hK(b, x) = 0
        /\ \A x : hP(b, x) = 0
        /\ \A x : hM(b, x) = IF x = s THEN 1 ELSE 0
        /\ \A x : hX(b, x) = 0
        /\ \A x : hO(b, x) = 0
        /\ \A x : hC(b, x) = 0
    BY <1>0, <1>1, <1>60, <1>6 DEF hH, hK, hP, hM, hX, hO, hC
  <2>2. /\ \A x \in Nss : tH(x)' = tH(x) + hH(a, x) + hH(b, x)
        /\ \A x \in Nss : tK(x)' = tK(x) + hK(a, x) + hK(b, x)
        /\ \A x \in Nss : tP(x)' = tP(x) + hP(a, x) + hP(b, x)
        /\ \A x \in Sbs : tM(x)' = tM(x) + hM(a, x) + hM(b, x)
        /\ \A x \in Sbs : tX(x)' = tX(x) + hX(a, x) + hX(b, x)
        /\ \A x \in Queues : tO(x)' = tO(x) + hO(a, x) + hO(b, x)
        /\ \A x \in Nss : tC(x)' = tC(x) + hC(a, x) + hC(b, x)
    BY <1>0, <1>1, <1>60, <1>6, Call2
  <2>3. \A x \in Nss : tH(x)' = tH(x)
    BY <1>0, <2>1, <2>2 DEF CountsNat
  <2>4. \A x \in Nss : tK(x)' = tK(x)
    BY <1>0, <2>1, <2>2 DEF CountsNat
  <2>5. \A x \in Nss : tP(x)' = tP(x)
    BY <1>0, <2>1, <2>2 DEF CountsNat
  <2>6. \A x \in Sbs : tM(x)' = tM(x) + (IF x = s THEN 1 ELSE 0)
    BY <1>0, <2>1, <2>2 DEF CountsNat
  <2>7. \A x \in Sbs : tX(x)' = tX(x)
    BY <1>0, <2>1, <2>2 DEF CountsNat
  <2>8. \A x \in Queues : tO(x)' = tO(x) + (IF x = p THEN 1 ELSE 0)
    BY <1>0, <2>1, <2>2 DEF CountsNat
  <2>9. \A x \in Nss : tC(x)' = tC(x)
    BY <1>0, <2>1, <2>2 DEF CountsNat
  <2> QED BY <2>3, <2>4, <2>5, <2>6, <2>7, <2>8, <2>9
<1>11. RZero
  <2>1. RefsAdd /\ RefsAdd'
    BY <1>0, <1>6, RefsAre, PTL
  <2>2. \A x : OwnMounts(x)' = OwnMounts(x) /\ UserMount(x)' = UserMount(x)
    BY <1>1 DEF OwnMounts, UserMount
  <2>3. \A x \in Sbs : Fds(x)' = Fds(x)
    BY <1>0, <1>1, <1>2, <1>3, <1>6, <1>7, <1>70, FdsOne
  <2>4. \A x \in Sbs : MntRefs(x)' = MntRefs(x) + (IF x = s THEN 1 ELSE 0) /\ MntRefs(x) \in Nat
    BY <1>8, <2>1, <2>2, <2>3 DEF RefsAdd
  <2> QED BY <1>4, <2>4 DEF RZero
<1>12. LifeInv' /\ RefCount' /\ MountT' /\ QueueT' /\ CountedT'
  <2>1. \A q \in Queues : tO(q)' = IF q = p /\ ~(inode'[p].link \/ inode'[p].fds # {}) THEN 1 ELSE tO(q)
    BY <1>0, <1>5, <1>7, <1>8 DEF CountsNat
  <2> QED BY <1>1, <1>2, <1>3, <1>5, <1>6, <1>7, <1>8, <1>70, <1>11, <2>1, NameChanges
<1>16. PICK fs : fs = <<a, b>>
  OBVIOUS
<1>17. /\ fs \in Seq(FrameSet) /\ Moves(t, fs) /\ \A i \in 1 .. Len(fs) : fs[i] \in {a, b}
  BY <1>6, <1>16
<1>18. OwnerInv'
  <2>1. \A q \in Queues : inode'[q].sb = inode[q].sb
    BY <1>2, <1>7
  <2>2. ASSUME NEW i \in 1 .. Len(fs), NEW q \in Queues, fs[i] \in Owners(q)
        PROVE  Below(t, i, Keepers(fs[i], inode[q].sb))'
    <3>1. i = 1 /\ q = p /\ Len(fs) = 2 /\ fs[2] = b /\ fs[1] = a
        BY <1>16, <1>60, <2>2 DEF Owners
    <3>2. PICK S : S = Keepers(fs[i], inode'[q].sb)
        OBVIOUS
    <3>3. fs[2] \in S
        BY <1>2, <1>7, <3>1, <3>2 DEF Keepers
    <3>5. i \in 1 .. Len(fs) /\ 2 \in 1 .. Len(fs) /\ i < 2
        BY <3>1
    <3>4. Below(t, i, S)'
        BY <1>0, <1>1, <1>17, <3>3, <3>5, BelowNext
    <3> QED BY <3>2, <3>4 DEF Below, Keepers
  <2> QED BY <1>0, <1>1, <1>17, <2>1, <2>2, OwnerStep
<1>19. CallInv'
  <2>1. \A i \in 1 .. Len(fs) : CallOK(fs[i])'
    BY <1>17, <1>60 DEF CallOK
  <2>2. ASSUME NEW u \in Threads, NEW f \in Frames(u), f \in Frames(u)', CallOK(f) PROVE CallOK(f)'
    BY <1>1, <1>5, <1>7, <2>2, NamesCalls
  <2> QED BY <1>0, <1>1, <1>17, <2>1, <2>2, CallStep
<1> QED BY <1>12, <1>18, <1>19, Restated DEF RefInv

-----------------------------------------------------------------------------
(* A user mounts the super block of his namespace.                         *)
LEMMA Ref_mount ==
    ASSUME IInv, NEW t \in Tasks, mount(t), may' = may
    PROVE  RefInv'
<1>0. /\ TypeInv /\ RefInv /\ LifeT /\ RefT /\ MountT /\ QueueT /\ CountedT /\ OwnerInv /\ CallInv
  BY Before
<1>1. /\ stack' = stack /\ nsproxy[t] # NoNs
      /\ UNCHANGED <<alive, count, nsproxy, mq_mnt, s_fs_info, inode, mq_queues_count, mq_bytes>>
  BY DEF mount, nsv, queuev
<1>2. TypeInv'
  BY <1>1, After_rest
<1>3. PICK s \in Sbs : s_fs_info[s] = nsproxy[t] /\ usermnt' = usermnt \cup {s}
  BY DEF mount
<1>4. MntRefs(s) > 0
  <2>1. nsproxy[t] \in Nss
    BY <1>0, <1>1 DEF TypeInv
  <2>2. mq_mnt[nsproxy[t]] = s
    BY <1>0, <1>3, <2>1 DEF MountT
  <2> QED BY <1>0, <2>1, <2>2, SbParts
<1>5. \A S : Total(S)' = Total(S)
  BY <1>1 DEF Total
<1>6. /\ \A x : tK(x)' = tK(x) /\ tP(x)' = tP(x) /\ tM(x)' = tM(x) /\ tX(x)' = tX(x)
      /\ \A x : tO(x)' = tO(x) /\ tC(x)' = tC(x) /\ tH(x)' = tH(x)
  BY <1>5 DEF tH, tK, tP, tM, tX, tO, tC, Holders, Owners, Creations
<1>7. RZero
  <2>1. RefsAdd /\ RefsAdd'
    BY <1>0, <1>2, RefsAre, PTL
  <2>2. \A x : OwnMounts(x)' = OwnMounts(x) /\ Fds(x)' = Fds(x)
    BY <1>1 DEF OwnMounts, Fds, FdsOf
  <2>3. \A x \in Sbs : MntRefs(x)' >= MntRefs(x) /\ (x # s => MntRefs(x)' = MntRefs(x))
    BY <1>3, <1>6, <2>1, <2>2 DEF RefsAdd
  <2>4. \A x \in Sbs : MntRefs(x) \in Nat /\ MntRefs(x)' \in Nat
    BY <2>1 DEF RefsAdd
  <2> QED BY <1>4, <2>3, <2>4 DEF RZero
<1>8. ZeroSame
  BY <1>1 DEF ZeroSame
<1>9. HSame /\ KSame /\ PSame
  BY <1>6, SameCounts
<1>10. LifeInv' /\ RefCount'
  BY <1>0, <1>1, <1>9, LifeSame, RefSame DEF RefInv
<1>11. MountT'
  BY <1>0, <1>1, <1>6, <1>7, <1>8, MountKept
<1>12. QueueT'
  BY <1>0, <1>1, <1>6, QueueKept
<1>13. CountedT'
  BY <1>0, <1>1, <1>6, <1>8, CountedKept
<1>14. OwnerInv'
  BY <1>0, <1>1 DEF OwnerInv, Owners, Below, Keepers
<1>15. CallInv'
  <2>1. \A u : Frames(u)' = Frames(u)
    BY <1>1 DEF Frames
  <2> QED BY <1>0, <1>1, <2>1 DEF CallInv
<1> QED BY <1>10, <1>11, <1>12, <1>13, <1>14, <1>15, Restated DEF RefInv

(* The mount of a user becomes the reference of the frame.                 *)
LEMMA Ref_umount ==
    ASSUME IInv, NEW t \in Tasks, NEW s \in Sbs, umount(t, s), may' = may
    PROVE  RefInv'
<1>0. /\ TypeInv /\ ShapeInv /\ RefInv /\ stack \in [Threads -> Seq(FrameSet)]
      /\ LifeT /\ RefT /\ MountT /\ QueueT /\ CountedT /\ CountsNat /\ OwnerInv /\ CallInv
  BY Before
<1>00. RefsAdd /\ Unowned
  BY <1>0, RefsAre, NoOwners
<1>1. /\ stack[t] = <<>> /\ t \in Threads /\ s \in usermnt /\ usermnt' = usermnt \ {s}
      /\ UNCHANGED <<alive, count, nsproxy, mq_mnt, s_fs_info, inode, mq_queues_count, mq_bytes>>
  BY DEF umount, Idle, Threads, nsv, queuev
<1>2. PICK a : a = Frame("mntput", s)
  OBVIOUS
<1>6. Moves(t, <<a>>) /\ TypeInv' /\ <<a>> \in Seq(FrameSet)
  BY <1>2, After_umount DEF Ends
<1>60. /\ a \in FrameSet /\ ArgsOK(t, a) /\ a.at = "mntput" /\ a.of = s
  BY <1>2, PlainFrames DEF NsLabels
<1>8. /\ \A x \in Nss : tH(x)' = tH(x)
      /\ \A x \in Nss : tK(x)' = tK(x)
      /\ \A x \in Nss : tP(x)' = tP(x)
      /\ \A x \in Sbs : tM(x)' = tM(x) + (IF x = s THEN 1 ELSE 0)
      /\ \A x \in Sbs : tX(x)' = tX(x)
      /\ \A x \in Queues : tO(x)' = tO(x)
      /\ \A x \in Nss : tC(x)' = tC(x)
  <2>1. /\ \A x : hH(a, x) = 0
        /\ \A x : hK(a, x) = 0
        /\ \A x : hP(a, x) = 0
        /\ \A x : hM(a, x) = IF x = s THEN 1 ELSE 0
        /\ \A x : hX(a, x) = 0
        /\ \A x : hO(a, x) = 0
        /\ \A x : hC(a, x) = 0
    BY <1>0, <1>1, <1>60, <1>6 DEF hH, hK, hP, hM, hX, hO, hC
  <2>2. /\ \A x \in Nss : tH(x)' = tH(x) + hH(a, x)
        /\ \A x \in Nss : tK(x)' = tK(x) + hK(a, x)
        /\ \A x \in Nss : tP(x)' = tP(x) + hP(a, x)
        /\ \A x \in Sbs : tM(x)' = tM(x) + hM(a, x)
        /\ \A x \in Sbs : tX(x)' = tX(x) + hX(a, x)
        /\ \A x \in Queues : tO(x)' = tO(x) + hO(a, x)
        /\ \A x \in Nss : tC(x)' = tC(x) + hC(a, x)
    BY <1>0, <1>1, <1>60, <1>6, Call1
  <2>3. \A x \in Nss : tH(x)' = tH(x)
    BY <1>0, <2>1, <2>2 DEF CountsNat
  <2>4. \A x \in Nss : tK(x)' = tK(x)
    BY <1>0, <2>1, <2>2 DEF CountsNat
  <2>5. \A x \in Nss : tP(x)' = tP(x)
    BY <1>0, <2>1, <2>2 DEF CountsNat
  <2>6. \A x \in Sbs : tM(x)' = tM(x) + (IF x = s THEN 1 ELSE 0)
    BY <1>0, <2>1, <2>2 DEF CountsNat
  <2>7. \A x \in Sbs : tX(x)' = tX(x)
    BY <1>0, <2>1, <2>2 DEF CountsNat
  <2>8. \A x \in Queues : tO(x)' = tO(x)
    BY <1>0, <2>1, <2>2 DEF CountsNat
  <2>9. \A x \in Nss : tC(x)' = tC(x)
    BY <1>0, <2>1, <2>2 DEF CountsNat
  <2> QED BY <2>3, <2>4, <2>5, <2>6, <2>7, <2>8, <2>9
<1>7. RZero
  <2>1. RefsAdd /\ RefsAdd'
    BY <1>0, <1>6, RefsAre, PTL
  <2>2. \A x : OwnMounts(x)' = OwnMounts(x) /\ Fds(x)' = Fds(x)
    BY <1>1 DEF OwnMounts, Fds, FdsOf
  <2>3. \A x \in Sbs : UserMount(x)' = UserMount(x) - (IF x = s THEN 1 ELSE 0)
    <3>1. \A x \in Sbs : /\ UserMount(x) = (IF x \in usermnt THEN 1 ELSE 0)
                         /\ UserMount(x)' = (IF x \in usermnt' THEN 1 ELSE 0)
        BY <2>1 DEF RefsAdd
    <3> QED BY <1>1, <3>1
  <2>4. \A x \in Sbs : MntRefs(x)' = MntRefs(x)
    BY <1>8, <2>1, <2>2, <2>3 DEF RefsAdd
  <2> QED BY <2>4 DEF RZero
<1>9. ZeroSame
  BY <1>1 DEF ZeroSame
<1>10. HSame /\ KSame /\ PSame
  BY <1>8, SameCounts
<1>11. LifeInv' /\ RefCount'
  BY <1>0, <1>1, <1>10, LifeSame, RefSame DEF RefInv
<1>12. MountT' /\ QueueT' /\ CountedT'
  BY <1>0, <1>1, <1>8, <1>7, <1>9, MountKept, QueueKept, CountedKept
<1>16. PICK fs : fs = <<a>>
  OBVIOUS
<1>17. /\ fs \in Seq(FrameSet) /\ Moves(t, fs) /\ \A i \in 1 .. Len(fs) : fs[i] = a
  BY <1>6, <1>16
<1>18. OwnerInv' /\ CallInv'
  BY <1>0, <1>1, <1>17, <1>60, OwnersStay, CallsStay
<1> QED BY <1>11, <1>12, <1>18, Restated DEF RefInv

(* What nobody holds has no creation under way.                            *)
LEMMA NoCreations ==
    ASSUME IInv, NEW n \in Nss, count[n] = 0
    PROVE  tC(n) = 0
<1>0. TypeInv /\ ShapeInv /\ CountsNat /\ stack \in [Threads -> Seq(FrameSet)]
  BY Before
<1> SUFFICES ASSUME tC(n) > 0 PROVE FALSE
  BY <1>0 DEF CountsNat
<1>1. PICK S : S = Creations(n)
  OBVIOUS
<1>2. Total(S) > 0
  BY <1>1 DEF tC
<1>30. PICK u \in Threads : \E f \in Frames(u) : f \in S
  BY <1>0, <1>2, Counted
<1>3. PICK f \in Frames(u) : f \in S
  BY <1>30
<1>4. CASE f.at = "inode"
  BY <1>1, <1>3, <1>4, Held DEF Creations
<1>5. CASE f.at = "uncount" /\ f.of = n
  <2>1. PICK i \in DOMAIN stack[u] : f = stack[u][i]
    BY <1>3 DEF Frames
  <2>2. Below(u, i, {Frame("put", n)})
    BY <1>0, <1>5, <2>1 DEF ShapeInv, Shape
  <2>3. Frame("put", n) \in Frames(u)
    BY <2>2 DEF Below, Frames
  <2>4. Frame("put", n).at = "put" /\ Frame("put", n).of = n
    BY DEF Frame, MkFrame
  <2> QED BY <2>3, <2>4, Held
<1> QED BY <1>1, <1>3, <1>4, <1>5 DEF Creations

(* A new namespace and its mount: nobody knows of them but the creator.    *)
LEMMA Ref_create ==
    ASSUME IInv, NEW t \in Tasks, create_ipc_ns(t), may' = may
    PROVE  RefInv'
<1>0. /\ TypeInv /\ ShapeInv /\ RefInv /\ stack \in [Threads -> Seq(FrameSet)]
      /\ LifeT /\ RefT /\ MountT /\ QueueT /\ CountedT /\ CountsNat /\ OwnerInv /\ CallInv
  BY Before
<1>00. RefsAdd /\ Unowned
  BY <1>0, RefsAre, NoOwners
<1>1. /\ stack[t] = <<>> /\ t \in Threads
      /\ UNCHANGED <<nsproxy, usermnt, inode, mq_bytes>>
  BY DEF create_ipc_ns, Idle, Threads
<1>2. PICK n \in Nss, s \in Sbs :
              /\ n \notin alive /\ s_fs_info[s] = NoSb
              /\ alive' = alive \cup {n} /\ count' = [count EXCEPT ![n] = 1]
              /\ mq_queues_count' = [mq_queues_count EXCEPT ![n] = 0]
              /\ mq_mnt' = [mq_mnt EXCEPT ![n] = s] /\ s_fs_info' = [s_fs_info EXCEPT ![s] = n]
              /\ Ends(t, <<Frame("nr_inc", n), Frame("msg_init_ns", n), Frame("notify", NoNs),
                            Frame("register", n), Frame("switch", n)>>)
  BY After_create_ipc_ns
<1>3. PICK a, b, c, d, e : /\ a = Frame("nr_inc", n) /\ b = Frame("msg_init_ns", n) /\ c = Frame("notify", NoNs)
                           /\ d = Frame("register", n) /\ e = Frame("switch", n)
  OBVIOUS
<1>6. Moves(t, <<a, b, c, d, e>>) /\ TypeInv' /\ <<a, b, c, d, e>> \in Seq(FrameSet)
  BY <1>2, <1>3 DEF Ends
<1>60. /\ a \in FrameSet /\ ArgsOK(t, a) /\ a.at = "nr_inc" /\ a.of = n
       /\ b \in FrameSet /\ ArgsOK(t, b) /\ b.at = "msg_init_ns" /\ b.of = n
       /\ c \in FrameSet /\ ArgsOK(t, c) /\ c.at = "notify" /\ c.of = NoNs
       /\ d \in FrameSet /\ ArgsOK(t, d) /\ d.at = "register" /\ d.of = n
       /\ e \in FrameSet /\ ArgsOK(t, e) /\ e.at = "switch" /\ e.of = n
  <2>1. \A l, x : Frame(l, x).at = l /\ Frame(l, x).of = x
    BY DEF Frame, MkFrame
  <2>2. {"nr_inc", "msg_init_ns", "register", "switch"} \subseteq NsLabels \ {"store", "set"}
    BY DEF NsLabels
  <2>3. a \in FrameSet /\ ArgsOK(t, a) /\ b \in FrameSet /\ ArgsOK(t, b)
    BY <1>3, <2>2, PlainFrames
  <2>4. d \in FrameSet /\ ArgsOK(t, d) /\ e \in FrameSet /\ ArgsOK(t, e)
    BY <1>3, <2>2, PlainFrames
  <2>5. c \in FrameSet /\ ArgsOK(t, c)
    BY <1>1, <1>3, PlainFrames
  <2> QED BY <1>3, <2>1, <2>3, <2>4, <2>5
<1>8. /\ \A x \in Nss : tH(x)' = tH(x) + (IF x = n THEN 1 ELSE 0)
      /\ \A x \in Nss : tK(x)' = tK(x)
      /\ \A x \in Nss : tP(x)' = tP(x)
      /\ \A x \in Sbs : tM(x)' = tM(x)
      /\ \A x \in Sbs : tX(x)' = tX(x)
      /\ \A x \in Queues : tO(x)' = tO(x)
      /\ \A x \in Nss : tC(x)' = tC(x)
  <2>1. /\ \A x : hH(a, x) = 0
        /\ \A x : hK(a, x) = 0
        /\ \A x : hP(a, x) = 0
        /\ \A x : hM(a, x) = 0
        /\ \A x : hX(a, x) = 0
        /\ \A x : hO(a, x) = 0
        /\ \A x : hC(a, x) = 0
        /\ \A x : hH(b, x) = 0
        /\ \A x : hK(b, x) = 0
        /\ \A x : hP(b, x) = 0
        /\ \A x : hM(b, x) = 0
        /\ \A x : hX(b, x) = 0
        /\ \A x : hO(b, x) = 0
        /\ \A x : hC(b, x) = 0
        /\ \A x : hH(c, x) = 0
        /\ \A x : hK(c, x) = 0
        /\ \A x : hP(c, x) = 0
        /\ \A x : hM(c, x) = 0
        /\ \A x : hX(c, x) = 0
        /\ \A x : hO(c, x) = 0
        /\ \A x : hC(c, x) = 0
        /\ \A x : hH(d, x) = 0
        /\ \A x : hK(d, x) = 0
        /\ \A x : hP(d, x) = 0
        /\ \A x : hM(d, x) = 0
        /\ \A x : hX(d, x) = 0
        /\ \A x : hO(d, x) = 0
        /\ \A x : hC(d, x) = 0
        /\ \A x : hH(e, x) = IF x = n THEN 1 ELSE 0
        /\ \A x : hK(e, x) = 0
        /\ \A x : hP(e, x) = 0
        /\ \A x : hM(e, x) = 0
        /\ \A x : hX(e, x) = 0
        /\ \A x : hO(e, x) = 0
        /\ \A x : hC(e, x) = 0
    BY <1>0, <1>1, <1>60, <1>6 DEF hH, hK, hP, hM, hX, hO, hC
  <2>2. /\ \A x \in Nss : tH(x)' = tH(x) + hH(a, x) + hH(b, x) + hH(c, x) + hH(d, x) + hH(e, x)
        /\ \A x \in Nss : tK(x)' = tK(x) + hK(a, x) + hK(b, x) + hK(c, x) + hK(d, x) + hK(e, x)
        /\ \A x \in Nss : tP(x)' = tP(x) + hP(a, x) + hP(b, x) + hP(c, x) + hP(d, x) + hP(e, x)
        /\ \A x \in Sbs : tM(x)' = tM(x) + hM(a, x) + hM(b, x) + hM(c, x) + hM(d, x) + hM(e, x)
        /\ \A x \in Sbs : tX(x)' = tX(x) + hX(a, x) + hX(b, x) + hX(c, x) + hX(d, x) + hX(e, x)
        /\ \A x \in Queues : tO(x)' = tO(x) + hO(a, x) + hO(b, x) + hO(c, x) + hO(d, x) + hO(e, x)
        /\ \A x \in Nss : tC(x)' = tC(x) + hC(a, x) + hC(b, x) + hC(c, x) + hC(d, x) + hC(e, x)
    <3>1. a \in FrameSet /\ ArgsOK(t, a) /\ b \in FrameSet /\ ArgsOK(t, b) /\ c \in FrameSet /\ ArgsOK(t, c) /\ d \in FrameSet /\ ArgsOK(t, d) /\ e \in FrameSet /\ ArgsOK(t, e)
          /\ Moves(t, <<a, b, c, d, e>>) /\ t \in Threads /\ TypeInv /\ ShapeInv /\ stack[t] = <<>>
        BY <1>0, <1>1, <1>60, <1>6
    <3> QED BY <3>1, Call5, SMT
  <2>3. \A x \in Nss : tH(x)' = tH(x) + (IF x = n THEN 1 ELSE 0)
    BY <1>0, <2>1, <2>2 DEF CountsNat
  <2>4. \A x \in Nss : tK(x)' = tK(x)
    BY <1>0, <2>1, <2>2 DEF CountsNat
  <2>5. \A x \in Nss : tP(x)' = tP(x)
    BY <1>0, <2>1, <2>2 DEF CountsNat
  <2>6. \A x \in Sbs : tM(x)' = tM(x)
    BY <1>0, <2>1, <2>2 DEF CountsNat
  <2>7. \A x \in Sbs : tX(x)' = tX(x)
    BY <1>0, <2>1, <2>2 DEF CountsNat
  <2>8. \A x \in Queues : tO(x)' = tO(x)
    BY <1>0, <2>1, <2>2 DEF CountsNat
  <2>9. \A x \in Nss : tC(x)' = tC(x)
    BY <1>0, <2>1, <2>2 DEF CountsNat
  <2> QED BY <2>3, <2>4, <2>5, <2>6, <2>7, <2>8, <2>9
<1>4. NoNs \notin Nss /\ NoSb \notin Nss /\ NoSb \notin Sbs /\ NoSb # NoNs /\ mq_queues_max \in Nat
  BY NsConstants
<1>5. count[n] = 0 /\ nT(n) = 0 /\ tH(n) = 0 /\ n # init_ipc_ns /\ mq_mnt[n] = NoSb
  <2>1. count[n] \in Nat
    BY <1>0, CountParts DEF RefInv
  <2>2. nT(n) \in Nat /\ tH(n) \in Nat
    BY <1>0, TasksNat DEF CountsNat
  <2> QED BY <1>0, <1>2, <2>1, <2>2 DEF RefT, MountT
<1>50. tC(n) = 0
  BY <1>5, NoCreations
<1>9. /\ \A x \in Nss : count'[x] = (IF x = n THEN 1 ELSE count[x]) /\ mq_mnt'[x] = IF x = n THEN s ELSE mq_mnt[x]
      /\ \A x \in Sbs : s_fs_info'[x] = IF x = s THEN n ELSE s_fs_info[x]
      /\ \A x \in Nss : mq_queues_count'[x] = IF x = n THEN 0 ELSE mq_queues_count[x]
  BY <1>0, <1>2 DEF TypeInv
<1>10. LifeT'
  <2>1. /\ \A x \in Nss : tK(x) = IF x \in alive /\ count[x] = 0 THEN 1 ELSE 0
        /\ \A x \in Nss : tP(x) = IF x \in alive /\ count[x] = 0 /\ mq_mnt[x] # NoSb THEN 1 ELSE 0
    BY <1>0 DEF LifeT
  <2>2. alive' = alive \cup {n} /\ n \notin alive
    BY <1>2
  <2>3. \A x \in Nss : tK(x)' = tK(x) /\ tP(x)' = tP(x)
    BY <1>8
  <2>4. \A x \in Nss : tK(x)' = IF x \in alive' /\ count'[x] = 0 THEN 1 ELSE 0
    BY <1>9, <2>1, <2>2, <2>3
  <2>5. \A x \in Nss : tP(x)' = IF x \in alive' /\ count'[x] = 0 /\ mq_mnt'[x] # NoSb THEN 1 ELSE 0
    BY <1>9, <2>1, <2>2, <2>3
  <2> QED BY <2>4, <2>5 DEF LifeT
<1>11. RefT'
  <2>1. \A x \in Nss : nT(x)' = nT(x) /\ nT(x) \in Nat
    BY <1>1, TasksStay, TasksNat
  <2>2. \A x \in Nss : tH(x)' = tH(x) + (IF x = n THEN 1 ELSE 0) /\ tH(x) \in Nat
    BY <1>0, <1>8 DEF CountsNat
  <2>3. \A x \in Nss : count[x] = nT(x) + tH(x) + (IF x = init_ipc_ns THEN 1 ELSE 0)
    BY <1>0 DEF RefT
  <2>4. \A x \in Nss : count'[x] = nT(x)' + tH(x)' + (IF x = init_ipc_ns THEN 1 ELSE 0)
    BY <1>5, <1>9, <2>1, <2>2, <2>3
  <2>5. \A x \in Nss : count'[x] > 0 => x \in alive'
    BY <1>0, <1>2, <1>9 DEF RefT
  <2> QED BY <2>4, <2>5 DEF RefT
<1>12. \A x \in Sbs : MntRefs(x)' = MntRefs(x) + (IF x = s THEN 1 ELSE 0) /\ MntRefs(x) \in Nat
  <2>1. RefsAdd /\ RefsAdd'
    BY <1>0, <1>6, RefsAre, PTL
  <2>2. \A x : UserMount(x)' = UserMount(x) /\ Fds(x)' = Fds(x)
    BY <1>1 DEF UserMount, Fds, FdsOf
  <2>3. \A x \in Sbs : OwnMounts(x)' = OwnMounts(x) + (IF x = s THEN 1 ELSE 0) - (IF x = mq_mnt[n] THEN 1 ELSE 0)
    BY <1>0, <1>2, MountsChange
  <2>4. \A x \in Sbs : x # mq_mnt[n]
    BY <1>4, <1>5
  <2> QED BY <1>8, <2>1, <2>2, <2>3, <2>4 DEF RefsAdd
<1>13. MountT'
  <2>1. \A x \in Nss : count'[x] > 0 => mq_mnt'[x] \in Sbs /\ s_fs_info'[mq_mnt'[x]] = x
    <3>1. \A x \in Nss : count[x] > 0 => mq_mnt[x] \in Sbs /\ s_fs_info[mq_mnt[x]] = x /\ mq_mnt[x] # s
        BY <1>0, <1>2, <1>4 DEF MountT
    <3> QED BY <1>9, <3>1
  <2>2. \A x \in Nss \ alive' : mq_mnt'[x] = NoSb
    BY <1>0, <1>2, <1>9 DEF MountT
  <2>3. \A x \in Sbs : s_fs_info'[x] \in Nss => count'[s_fs_info'[x]] > 0 /\ mq_mnt'[s_fs_info'[x]] = x
    <3>1. \A x \in Sbs : s_fs_info[x] \in Nss => count[s_fs_info[x]] > 0 /\ mq_mnt[s_fs_info[x]] = x /\ s_fs_info[x] # n
        BY <1>0, <1>5 DEF MountT
    <3> QED BY <1>9, <3>1
  <2>4. /\ \A x \in Sbs : s_fs_info'[x] = NoSb => MntRefs(x)' = 0
        /\ \A x \in Sbs : tX(x)' = IF s_fs_info'[x] # NoSb /\ MntRefs(x)' = 0 THEN 1 ELSE 0
    BY <1>0, <1>2, <1>4, <1>8, <1>9, <1>12 DEF MountT
  <2> QED BY <2>1, <2>2, <2>3, <2>4 DEF MountT
<1>14. QueueT'
  <2>1. \A q \in Queues : inode[q] # NoQueue => inode[q].sb \in Sbs
    BY <1>0 DEF TypeInv, QueueRecord
  <2>2. \A x \in Sbs : s_fs_info[x] # NoSb => s_fs_info'[x] # NoSb
    BY <1>2, <1>4, <1>9
  <2>3. (\A x \in Sbs : tX(x)' = tX(x)) /\ (\A q \in Queues : tO(q)' = tO(q)) /\ inode' = inode
    BY <1>1, <1>8
  <2> QED BY <1>0, <2>1, <2>2, <2>3 DEF QueueT
<1>15. CountedT'
  <2>1. \A x \in Nss : x # n => nQ(x)' = nQ(x)
    <3> SUFFICES ASSUME NEW x \in Nss, x # n PROVE nQ(x)' = nQ(x)
        OBVIOUS
    <3>1. mq_mnt'[x] = mq_mnt[x]
        BY <1>9
    <3> QED BY <1>1, <3>1 DEF nQ
  <2>2. nQ(n)' = 0
    <3>1. \A q \in Queues : inode[q] # NoQueue => inode[q].sb # s
        BY <1>0, <1>2 DEF QueueT
    <3>2. {q \in Queues : inode'[q] # NoQueue /\ inode'[q].sb = mq_mnt'[n] /\ inode'[q].user # NoUser} = {}
        BY <1>1, <1>9, <3>1
    <3>3. Cardinality({}) = 0
        BY FS_EmptySet
    <3> QED BY <3>2, <3>3 DEF nQ
  <2>3. \A x \in Nss : tC(x)' = tC(x)
    BY <1>8
  <2>4. \A u : nU(u)' = nU(u)
    BY <1>1 DEF nU
  <2>5. ASSUME NEW x \in alive', count'[x] > 0
        PROVE  mq_queues_count'[x] = nQ(x)' + tC(x)'
    <3>1. x \in Nss
        BY <1>6 DEF TypeInv
    <3>2. CASE x = n
        BY <1>4, <1>9, <1>50, <2>2, <2>3, <3>1, <3>2
    <3>3. CASE x # n
      <4>1. x \in alive /\ count[x] > 0
        BY <1>2, <1>9, <2>5, <3>1, <3>3
      <4> QED BY <1>0, <1>9, <2>1, <2>3, <3>1, <3>3, <4>1 DEF CountedT
    <3> QED BY <3>2, <3>3
  <2>6. \A u \in Users : mq_bytes'[u] = nU(u)'
    BY <1>0, <1>1, <2>4 DEF CountedT
  <2> QED BY <2>5, <2>6 DEF CountedT
<1>16. PICK fs : fs = <<a, b, c, d, e>>
  OBVIOUS
<1>17. /\ fs \in Seq(FrameSet) /\ Moves(t, fs) /\ \A i \in 1 .. Len(fs) : fs[i] \in {a, b, c, d, e}
  BY <1>6, <1>16
<1>170. \A i \in 1 .. Len(fs) : fs[i].at \in {"nr_inc", "msg_init_ns", "notify", "register", "switch"}
  BY <1>17, <1>60
<1>18. OwnerInv'
  BY <1>0, <1>1, <1>17, <1>170, OwnersStay
<1>19. CallInv'
  <2>1. \A i \in 1 .. Len(fs) : CallOK(fs[i])'
    BY <1>170 DEF CallOK
  <2>2. ASSUME NEW u \in Threads, NEW f \in Frames(u), f \in Frames(u)', CallOK(f) PROVE CallOK(f)'
    <3>1. f \in FrameSet /\ ArgsOK(u, f)
        BY <1>0, AllArgs
    <3>2. CASE f.at = "inode"
      <4>1. f.of \in Sbs /\ f.ns \in Nss /\ s_fs_info[f.of] = f.ns
        BY <2>2, <3>1, <3>2 DEF ArgsOK, CallOK
      <4> QED BY <1>2, <1>4, <1>9, <3>2, <4>1 DEF CallOK
    <3>3. CASE f.at = "release"
      <4>1. f.of \in Queues /\ inode[f.of] \in QueueRecord /\ s_fs_info[inode[f.of].sb] \in Nss \cup {NoNs}
        BY <3>3, OwnedQueue
      <4>2. inode[f.of].sb \in Sbs /\ inode[f.of].sb # s
        BY <1>2, <1>4, <4>1 DEF QueueRecord
      <4> QED BY <1>1, <1>9, <2>2, <3>3, <4>2 DEF CallOK
    <3> QED BY <1>1, <2>2, <3>2, <3>3 DEF CallOK
  <2> QED BY <1>0, <1>1, <1>17, <2>1, <2>2, CallStep
<1> QED BY <1>10, <1>11, <1>13, <1>14, <1>15, <1>18, <1>19, Behind

-----------------------------------------------------------------------------
(* msgmni and the chain.  Their invariants speak of the frames that run;   *)
(* here they are said of all frames, which is the same.                    *)
Tops == {"compute", "set", "walk", "store", "oops", "nr_inc"}

StoresF(u, n) == \E f \in Frames(u) : f.at \in {"store", "set"} /\ f.of = n
WalkedF ==
    {n \in Nss : \E u \in Threads : \E f \in Frames(u) :
        (f.at \in {"walk", "store"} /\ f.of = n) \/ (f.at = "store" /\ f.next = n)}
StartingF == {n \in Nss : \E u \in Threads : \E f \in Frames(u) : f.at = "nr_inc" /\ f.of = n}
CurrentF(n) ==
    /\ \A u \in Threads : \A f \in Frames(u) : f.at \in {"store", "set"} /\ f.of = n => f.mni = Now
    /\ (\A u \in Threads : ~StoresF(u, n)) => msg_ctlmni[n] = Now
ApproachesF(u, n) ==
    \E f \in Frames(u) : \E j, k \in DOMAIN chain :
       /\ j <= k /\ chain[k] = n
       /\ (f.at = "walk" /\ f.of = chain[j]) \/ (f.at = "store" /\ f.next = chain[j])
ReadPendingF(n) ==
    \/ work
    \/ \E u \in Threads : \/ Frame("notify", NoNs) \in Frames(u)
                          \/ Frame("compute", n) \in Frames(u)
                          \/ ApproachesF(u, n)
                          \/ \E f \in Frames(u) : f.at = "oops"
VisibleF == ToSet(chain) \cup loose \cup WalkedF
AboveF(V) ==
    \A t \in Threads : \A i \in DOMAIN stack[t] :
       stack[t][i].at = "kfree" /\ stack[t][i].of \in V => Above(t, i, {Frame("unregister", stack[t][i].of)})
ChainF ==
    /\ IsInjective(chain) /\ VisibleF \subseteq alive
    /\ AboveF(VisibleF)
    /\ \A t \in Threads : \A f \in Frames(t) : f.at = "msg_init_ns" => f.of \notin VisibleF
tD == Total({Frame("nr_dec", NoNs)})
tA == Total({Frame("kfree", n) : n \in Nss})
NrF == nr_ipc_ns = Cardinality(alive \ StartingF) + tD - tA
SoleStore == \A n \in Nss \ raced : \A t, u \in Threads : StoresF(t, n) /\ StoresF(u, n) => t = u
PassedF == \A n \in PassedBy \ raced : CurrentF(n)
FreshF == \A n \in ToSet(chain) \ raced : Unregistering(n) \/ CurrentF(n) \/ ReadPendingF(n)
MniF == SoleStore /\ PassedF /\ FreshF

Views ==
    /\ \A u \in Threads : \A n : Stores(u, n) <=> StoresF(u, n)
    /\ Walked = WalkedF /\ Starting = StartingF
    /\ \A n : Current(n) <=> CurrentF(n)
    /\ \A n : ReadPending(n) <=> ReadPendingF(n)
    /\ \A n : Storing(n) <=> \E u \in Threads : StoresF(u, n)
    /\ NoReaders <=> \A u \in Threads : \A f \in Frames(u) : f.at \notin {"walk", "store", "oops"}

(* Frames with these labels run, and no others do.                         *)
LEMMA TopAt ==
    ASSUME TypeInv, ShapeInv, NEW u \in Threads
    PROVE  /\ \A f \in Frames(u) : f.at \in Tops => At(u, f.at) /\ f = Head(stack[u])
           /\ \A l : At(u, l) => stack[u] # <<>> /\ Head(stack[u]) \in Frames(u) /\ Head(stack[u]).at = l
<1>1. \A f \in Frames(u) : f.at \in Tops => stack[u] # <<>> /\ f = Head(stack[u])
  BY AtFrames DEF Tops
<1>2. stack[u] # <<>> => Head(stack[u]) \in Frames(u)
  BY HeadFacts
<1> QED BY <1>1, <1>2 DEF At

(* What the frame that runs says, said of the frames of a stack: only the  *)
(* top one can be of those kinds.                                          *)
LEMMA ViewsAre ==
    ASSUME TypeInv, ShapeInv
    PROVE  Views
<1>1. ASSUME NEW u \in Threads, NEW n
      PROVE  Stores(u, n) <=> StoresF(u, n)
  <2>1. Stores(u, n) => StoresF(u, n)
    BY TopAt DEF Stores, StoresF, Arg
  <2>2. StoresF(u, n) => Stores(u, n)
    BY TopAt DEF Stores, StoresF, Arg, Tops
  <2> QED BY <2>1, <2>2
<1>2. Walked = WalkedF
  <2>1. ASSUME NEW u \in Threads, NEW n
        PROVE  (\/ (At(u, "walk") \/ At(u, "store")) /\ Arg(u) = n
                \/ At(u, "store") /\ Head(stack[u]).next = n)
               <=> (\E f \in Frames(u) :
                      (f.at \in {"walk", "store"} /\ f.of = n) \/ (f.at = "store" /\ f.next = n))
    BY TopAt DEF Arg, Tops
  <2> QED BY <2>1 DEF Walked, WalkedF
<1>3. Starting = StartingF
  <2>1. ASSUME NEW u \in Threads, NEW n
        PROVE  At(u, "nr_inc") /\ Arg(u) = n <=> \E f \in Frames(u) : f.at = "nr_inc" /\ f.of = n
    BY TopAt DEF Arg, Tops
  <2> QED BY <2>1 DEF Starting, StartingF
<1>4. \A n : Storing(n) <=> \E u \in Threads : StoresF(u, n)
  <2>1. \A n : Storing(n) <=> \E u \in Threads : Stores(u, n)
    BY DEF Storing, Stores
  <2> QED BY <1>1, <2>1
<1>5. ASSUME NEW n PROVE Current(n) <=> CurrentF(n)
  <2>1. ASSUME NEW u \in Threads
        PROVE  (Stores(u, n) => Head(stack[u]).mni = Now)
               <=> (\A f \in Frames(u) : f.at \in {"store", "set"} /\ f.of = n => f.mni = Now)
    <3>1. \A f \in Frames(u) : f.at \in {"store", "set"} /\ f.of = n => f = Head(stack[u]) /\ Stores(u, n)
        BY <1>1, TopAt DEF StoresF, Tops
    <3>2. Stores(u, n) => Head(stack[u]) \in Frames(u) /\ Head(stack[u]).at \in {"store", "set"} /\ Head(stack[u]).of = n
        BY TopAt DEF Stores, Arg
    <3> QED BY <3>1, <3>2
  <2> QED BY <1>4, <2>1 DEF Current, CurrentF
<1>6. ASSUME NEW n PROVE ReadPending(n) <=> ReadPendingF(n)
  <2>1. ASSUME NEW u \in Threads PROVE Approaches(u, n) => ApproachesF(u, n)
    BY <2>1, TopAt DEF Approaches, ApproachesF, Arg
  <2>2. ASSUME NEW u \in Threads PROVE ApproachesF(u, n) => Approaches(u, n)
    BY <2>2, TopAt DEF Approaches, ApproachesF, Arg, Tops
  <2>3. ASSUME NEW u \in Threads PROVE At(u, "oops") <=> \E f \in Frames(u) : f.at = "oops"
    BY TopAt DEF Tops
  <2> QED BY <2>1, <2>2, <2>3 DEF ReadPending, ReadPendingF
<1>7. NoReaders <=> \A u \in Threads : \A f \in Frames(u) : f.at \notin {"walk", "store", "oops"}
  <2>1. ASSUME NEW u \in Threads
        PROVE  (~At(u, "walk") /\ ~At(u, "store") /\ ~At(u, "oops"))
               <=> \A f \in Frames(u) : f.at \notin {"walk", "store", "oops"}
    BY TopAt DEF Tops
  <2> QED BY <2>1 DEF NoReaders
<1> QED BY <1>1, <1>2, <1>3, <1>4, <1>5, <1>6, <1>7 DEF Views

(* Both ways to say the invariants.                                        *)
ViewsInv == (ChainInv <=> ChainF) /\ (NrInv <=> NrF) /\ (MniInv <=> MniF)
(* So the parts of the invariant about the chain and msgmni speak of       *)
(* frames.                                                                 *)
LEMMA InvViews ==
    ASSUME TypeInv, ShapeInv
    PROVE  ViewsInv
<1>0. Views
  BY ViewsAre
<1>1. ChainInv <=> ChainF
  BY <1>0 DEF Views, ChainInv, ChainF, Visible, VisibleF, AboveF
<1>2. NrInv <=> NrF
  BY <1>0 DEF Views, NrInv, NrF, tD, tA
<1>3. MniInv <=> MniF
  BY <1>0 DEF Views, MniInv, MniF, SoleStore, PassedF, FreshF
<1> QED BY <1>1, <1>2, <1>3 DEF ViewsInv

(* What the frames are after a step.                                       *)
Goes(t, fs) ==
    /\ \A u \in Threads : u # t => Frames(u)' = Frames(u)
    /\ \A f \in Frames(t)' : (\E i \in 1 .. Len(fs) : f = fs[i]) \/ (f \in Frames(t) /\ f.at \notin Tops)
    /\ \A f \in Frames(t) : f \in Frames(t)' \/ (stack[t] # <<>> /\ f = Head(stack[t]))
    /\ \A i \in 1 .. Len(fs) : fs[i] \in Frames(t)'
    /\ \A u \in Threads : Frames(u) \subseteq FrameSet /\ Frames(u)' \subseteq FrameSet
    /\ stack[t] = <<>> => Frames(t) = {}
(* A step replaces the frame that runs by the new ones.                    *)
LEMMA FramesGo ==
    ASSUME TypeInv, ShapeInv, NEW t \in Threads, NEW fs, Ends(t, fs)
    PROVE  Goes(t, fs)
<1>0. stack \in [Threads -> Seq(FrameSet)] /\ fs \in Seq(FrameSet) /\ Moves(t, fs)
  BY DEF TypeInv, Ends
<1>1. /\ \A u \in Threads : u # t => Frames(u)' = Frames(u)
      /\ \A f \in Frames(t) : f \in Frames(t)' \/ (stack[t] # <<>> /\ f = Head(stack[t]))
      /\ \A i \in 1 .. Len(fs) : fs[i] \in Frames(t)'
      /\ \A u \in Threads : Frames(u) \subseteq FrameSet /\ Frames(u)' \subseteq FrameSet
  BY <1>0, FramesStep
<1>2. ASSUME NEW f \in Frames(t)', \A i \in 1 .. Len(fs) : f # fs[i]
      PROVE  f \in Frames(t) /\ f.at \notin Tops
  <2>1. /\ stack' \in [Threads -> Seq(FrameSet)]
        /\ \A i \in 1 .. Len(fs) : stack'[t][i] = fs[i]
        /\ \A k \in 1 .. Len(stack'[t]) : k > Len(fs) =>
              /\ k - Len(fs) + Drop(t) \in 1 .. Len(stack[t])
              /\ stack'[t][k] = stack[t][k - Len(fs) + Drop(t)]
    BY <1>0, MoveStack
  <2>2. PICK k \in DOMAIN stack'[t] : f = stack'[t][k]
    BY <1>2 DEF Frames
  <2>3. k \in 1 .. Len(stack'[t]) /\ Len(fs) \in Nat
    BY <1>0, <2>1
  <2>4. k > Len(fs)
    BY <1>2, <2>1, <2>2, <2>3
  <2>5. PICK j : j = k - Len(fs) + Drop(t)
    OBVIOUS
  <2>6. j \in DOMAIN stack[t] /\ f = stack[t][j] /\ j > Drop(t)
    <3>1. DOMAIN stack[t] = 1 .. Len(stack[t])
        BY <1>0
    <3>2. Drop(t) \in Nat
        BY DEF Drop
    <3> QED BY <2>1, <2>2, <2>3, <2>4, <2>5, <3>1, <3>2
  <2>7. stack[t] # <<>>
    BY <1>0, <2>6
  <2>8. j # 1
    BY <2>6, <2>7 DEF Drop
  <2>9. f.at \notin Tops
    BY <2>6, <2>8 DEF ShapeInv, Shape, Tops
  <2> QED BY <2>6, <2>9 DEF Frames
<1>3. stack[t] = <<>> => Frames(t) = {}
  BY DEF Frames
<1> QED BY <1>1, <1>2, <1>3 DEF Goes

-----------------------------------------------------------------------------
(* Frames with these labels are where they were.                           *)
SameL(L) == \A u \in Threads : \A f : f.at \in L => (f \in Frames(u)' <=> f \in Frames(u))

(* Frames of labels that a step neither runs nor adds stay.                *)
LEMMA SameLabels ==
    ASSUME TypeInv, NEW t \in Threads, NEW fs, Ends(t, fs), NEW L, L \cap Touches(t, fs) = {}
    PROVE  SameL(L)
    BY Keeps DEF TypeInv, Ends, SameL

(* No task changes its namespace, nor does one get a new one.              *)
LEMMA TaskStep ==
    ASSUME TaskInv, NEW t \in Threads, NEW fs, Goes(t, fs), nsproxy' = nsproxy,
           stack[t] # <<>> => Head(stack[t]).at # "switch",
           \A i \in 1 .. Len(fs) :
              /\ fs[i].at # "switch"
              /\ fs[i].at \in Sysctl \cup {"register"} => nsproxy[t] = fs[i].of
    PROVE  TaskInv'
<1>1. \A n : Frame("switch", n).at = "switch"
  BY DEF Frame, MkFrame
<1>2. \A u \in Threads : \A f \in Frames(u) : f.at = "switch" => f \in Frames(u)'
  BY DEF Goes
<1>3. \A u \in Threads : \A f \in Frames(u)' : f \in Frames(u) \/ (u = t /\ \E i \in 1 .. Len(fs) : f = fs[i])
  BY DEF Goes
<1>4. \A u \in Threads : \A f \in Frames(u)' : f.at = "switch" => f \in Frames(u)
  BY <1>3
<1>5. ASSUME NEW u \in Threads, NEW f \in Frames(u)'
      PROVE  /\ f.at = "switch" => /\ nsproxy[u] # NoNs /\ f.of # init_ipc_ns
                                   /\ \A v \in Tasks : nsproxy[v] # f.of
             /\ f.at = "register" => nsproxy[u] = f.of \/ Frame("switch", f.of) \in Frames(u)'
             /\ f.at \in Sysctl => nsproxy[u] = f.of
  <2>1. CASE f \in Frames(u)
    BY <1>1, <1>2, <1>5, <2>1 DEF TaskInv
  <2>2. CASE f \notin Frames(u)
    BY <1>3, <1>5, <2>2
  <2> QED BY <2>1, <2>2
<1>6. ASSUME NEW u \in Threads, NEW v \in Threads, NEW n \in Nss,
             Frame("switch", n) \in Frames(u)', Frame("switch", n) \in Frames(v)'
      PROVE  u = v
  BY <1>1, <1>4, <1>6 DEF TaskInv
<1> QED BY <1>5, <1>6 DEF TaskInv

(* What is to be unregistered before it is freed stays so.                 *)
LEMMA AboveStep ==
    ASSUME TypeInv, NEW t \in Threads, NEW fs \in Seq(FrameSet), Moves(t, fs), AboveF(VisibleF), NEW V,
           \A n \in V : n \in VisibleF \/ \A u \in Threads : \A f \in Frames(u)' : ~(f.at = "kfree" /\ f.of = n),
           stack[t] # <<>> /\ Head(stack[t]).at = "unregister" => Head(stack[t]).of \notin V,
           \A i \in 1 .. Len(fs) : fs[i].at = "kfree" =>
              \E j \in 1 .. Len(fs) : j < i /\ fs[j] = Frame("unregister", fs[i].of)
    PROVE  AboveF(V)'
<1>0. stack \in [Threads -> Seq(FrameSet)] /\ Len(fs) \in Nat
  BY DEF TypeInv
<1>1. /\ stack' \in [Threads -> Seq(FrameSet)]
      /\ \A u \in Threads : u # t => stack'[u] = stack[u]
      /\ Len(stack'[t]) = Len(fs) + Len(stack[t]) - Drop(t)
      /\ \A i \in 1 .. Len(fs) : stack'[t][i] = fs[i]
      /\ \A k \in 1 .. Len(stack'[t]) : k > Len(fs) =>
            /\ k - Len(fs) + Drop(t) \in 1 .. Len(stack[t])
            /\ stack'[t][k] = stack[t][k - Len(fs) + Drop(t)]
  BY <1>0, MoveStack
<1>2. \A n : Frame("unregister", n).at = "unregister" /\ Frame("unregister", n).of = n
  BY DEF Frame, MkFrame
<1> SUFFICES ASSUME NEW u \in Threads, NEW i \in DOMAIN stack'[u], NEW n, n = stack'[u][i].of,
                    stack'[u][i].at = "kfree", n \in V
             PROVE  Above(u, i, {Frame("unregister", n)})'
  BY DEF AboveF
<1>3. n \in VisibleF
  <2>1. stack'[u][i] \in Frames(u)'
    BY DEF Frames
  <2> QED BY <2>1
<1>4. CASE u # t
  BY <1>1, <1>3, <1>4 DEF AboveF, Above
<1>5. CASE u = t /\ i <= Len(fs)
  <2>1. i \in 1 .. Len(fs) /\ fs[i] = stack'[t][i]
    BY <1>0, <1>1, <1>5
  <2>2. PICK j \in 1 .. Len(fs) : j < i /\ fs[j] = Frame("unregister", n)
    BY <1>5, <2>1
  <2>3. j \in DOMAIN stack'[t] /\ stack'[t][j] = Frame("unregister", n)
    BY <1>0, <1>1, <1>5, <2>1, <2>2
  <2> QED BY <1>5, <2>2, <2>3 DEF Above
<1>6. CASE u = t /\ i > Len(fs)
  <2>1. PICK k : k = i - Len(fs) + Drop(t)
    OBVIOUS
  <2>2. i \in 1 .. Len(stack'[t]) /\ k \in DOMAIN stack[t] /\ stack[t][k] = stack'[t][i]
    BY <1>0, <1>1, <1>6, <2>1
  <2>3. Above(t, k, {Frame("unregister", n)})
    BY <1>3, <1>6, <2>2 DEF AboveF
  <2>4. stack[t] # <<>> => Head(stack[t]) \notin {Frame("unregister", n)}
    BY <1>2
  <2>5. PICK S : S = {Frame("unregister", n)}
    OBVIOUS
  <2>6. Above(t, i, S)'
    BY <1>0, <1>6, <2>1, <2>2, <2>3, <2>4, <2>5, AboveStays
  <2> QED BY <1>6, <2>5, <2>6
<1> QED BY <1>0, <1>1, <1>4, <1>5, <1>6

(* Nothing more can be walked to.                                          *)
LEMMA ChainStep ==
    ASSUME TypeInv, ShapeInv, ChainF, NEW t \in Threads, NEW fs, Ends(t, fs), alive' = alive,
           IsInjective(chain'), VisibleF' \subseteq VisibleF,
           stack[t] # <<>> /\ Head(stack[t]).at = "unregister" => Head(stack[t]).of \notin VisibleF',
           \A i \in 1 .. Len(fs) : fs[i].at \notin {"kfree", "msg_init_ns"}
    PROVE  ChainF'
<1>0. Goes(t, fs) /\ fs \in Seq(FrameSet) /\ Moves(t, fs)
  BY FramesGo DEF Ends
<1>1. PICK V : V = VisibleF'
  OBVIOUS
<1>2. AboveF(V)'
  BY <1>0, <1>1, AboveStep DEF ChainF
<1>3. AboveF(VisibleF)'
  BY <1>1, <1>2 DEF AboveF
<1>4. \A u \in Threads : \A f \in Frames(u)' : f.at = "msg_init_ns" => f \in Frames(u)
  BY <1>0 DEF Goes
<1> QED BY <1>3, <1>4 DEF ChainF

(* Namespaces are counted as before.                                       *)
LEMMA NrStep ==
    ASSUME TypeInv, NrF, NEW t \in Threads, NEW fs, Ends(t, fs), alive' = alive, nr_ipc_ns' = nr_ipc_ns,
           Touches(t, fs) \cap {"nr_inc", "nr_dec", "kfree"} = {}
    PROVE  NrF'
<1>0. stack \in [Threads -> Seq(FrameSet)] /\ fs \in Seq(FrameSet) /\ Moves(t, fs)
  BY DEF TypeInv, Ends
<1>1. SameL({"nr_inc"})
  BY SameLabels
<1>2. StartingF' = StartingF
  BY <1>1 DEF StartingF, SameL
<1>3. \A l, n : Frame(l, n).at = l
  BY DEF Frame, MkFrame
<1>4. PICK D, A : D = {Frame("nr_dec", NoNs)} /\ A = {Frame("kfree", n) : n \in Nss}
  OBVIOUS
<1>5. \A f \in D : f.at \notin Touches(t, fs)
  BY <1>3, <1>4
<1>6. \A f \in A : f.at \notin Touches(t, fs)
  BY <1>3, <1>4
<1>7. Total(D)' = Total(D)
  BY <1>0, <1>5, Untouched
<1>8. Total(A)' = Total(A)
  BY <1>0, <1>6, Untouched
<1>9. tD' = tD /\ tA' = tA
  BY <1>4, <1>7, <1>8 DEF tD, tA
<1> QED BY <1>2, <1>9 DEF NrF

(* What depends on the frames that compute and store msgmni.               *)
LEMMA StoresSame ==
    ASSUME SameL({"store", "set"})
    PROVE  /\ \A u \in Threads : \A n : StoresF(u, n)' <=> StoresF(u, n)
           /\ \A n : Now' = Now /\ msg_ctlmni'[n] = msg_ctlmni[n] => (CurrentF(n)' <=> CurrentF(n))
<1>1. \A u \in Threads : \A n : StoresF(u, n)' <=> StoresF(u, n)
  BY DEF StoresF, SameL
<1>2. ASSUME NEW n, Now' = Now, msg_ctlmni'[n] = msg_ctlmni[n]
      PROVE  CurrentF(n)' <=> CurrentF(n)
  <2>1. (\A u \in Threads : \A f \in Frames(u) : f.at \in {"store", "set"} /\ f.of = n => f.mni = Now)'
        <=> (\A u \in Threads : \A f \in Frames(u) : f.at \in {"store", "set"} /\ f.of = n => f.mni = Now)
    BY <1>2 DEF SameL
  <2> QED BY <1>1, <1>2, <2>1 DEF CurrentF
<1> QED BY <1>1, <1>2

(* What depends on walkers and on the chain.                               *)
LEMMA WalkersSame ==
    ASSUME SameL({"walk", "store"})
    PROVE  WalkedF' = WalkedF /\ (chain' = chain => \A u \in Threads : \A n : ApproachesF(u, n)' <=> ApproachesF(u, n))
<1>1. WalkedF' = WalkedF
  BY DEF WalkedF, SameL
<1>2. ASSUME chain' = chain, NEW u \in Threads, NEW n PROVE ApproachesF(u, n)' <=> ApproachesF(u, n)
  BY <1>2 DEF ApproachesF, SameL
<1> QED BY <1>1, <1>2

(* Who registers and unregisters.                                          *)
LEMMA RegistersSame ==
    /\ SameL({"unregister"}) => \A n : Unregistering(n)' <=> Unregistering(n)
    /\ SameL({"register", "nr_inc", "msg_init_ns", "compute"}) => PassedBy' = PassedBy
<1>1. \A l, n : Frame(l, n).at = l
  BY DEF Frame, MkFrame
<1>2. SameL({"unregister"}) => \A n : Unregistering(n)' <=> Unregistering(n)
  BY <1>1 DEF Unregistering, SameL
<1>4. ASSUME SameL({"register", "nr_inc", "msg_init_ns", "compute"}) PROVE PassedBy' = PassedBy
  <2>1. ASSUME NEW u \in Threads, NEW n
        PROVE  (/\ Frame("register", n) \in Frames(u)
                /\ Frames(u) \cap {Frame("nr_inc", n), Frame("msg_init_ns", n), Frame("compute", n)} = {})'
               <=> (/\ Frame("register", n) \in Frames(u)
                    /\ Frames(u) \cap {Frame("nr_inc", n), Frame("msg_init_ns", n), Frame("compute", n)} = {})
    <3>1. /\ Frame("register", n) \in Frames(u)' <=> Frame("register", n) \in Frames(u)
          /\ Frame("nr_inc", n) \in Frames(u)' <=> Frame("nr_inc", n) \in Frames(u)
          /\ Frame("msg_init_ns", n) \in Frames(u)' <=> Frame("msg_init_ns", n) \in Frames(u)
          /\ Frame("compute", n) \in Frames(u)' <=> Frame("compute", n) \in Frames(u)
        BY <1>1, <1>4 DEF SameL
    <3> QED BY <3>1
  <2> QED BY <2>1 DEF PassedBy
<1> QED BY <1>2, <1>4

MniLabels == {"notify", "walk", "store", "oops", "register", "unregister", "compute", "set", "nr_inc", "msg_init_ns"}

(* Nothing of what msgmni depends on changes.                              *)
LEMMA MniSame ==
    ASSUME MniF, SameL(MniLabels), UNCHANGED <<nr_ipc_ns, mem, msg_ctlmni, chain, loose, work, raced>>
    PROVE  MniF' /\ WalkedF' = WalkedF /\ VisibleF' = VisibleF
<1>1. /\ SameL({"store", "set"}) /\ SameL({"walk", "store"}) /\ SameL({"unregister"})
      /\ SameL({"register", "nr_inc", "msg_init_ns", "compute"}) /\ SameL({"notify", "compute"})
      /\ SameL({"oops"})
  BY DEF SameL, MniLabels
<1>2. UNCHANGED <<nr_ipc_ns, mem, msg_ctlmni, chain, loose, work, raced, Now>>
  BY DEF Now
<1>3. /\ \A u \in Threads : \A n : StoresF(u, n)' <=> StoresF(u, n)
      /\ \A n : CurrentF(n)' <=> CurrentF(n)
  BY <1>1, <1>2, StoresSame
<1>4. WalkedF' = WalkedF /\ \A u \in Threads : \A n : ApproachesF(u, n)' <=> ApproachesF(u, n)
  BY <1>1, <1>2, WalkersSame
<1>5. \A n : ReadPendingF(n)' <=> ReadPendingF(n)
  <2>1. \A l, n : Frame(l, n).at = l
    BY DEF Frame, MkFrame
  <2>2. \A u \in Threads : \A n : /\ Frame("notify", NoNs) \in Frames(u)' <=> Frame("notify", NoNs) \in Frames(u)
                                  /\ Frame("compute", n) \in Frames(u)' <=> Frame("compute", n) \in Frames(u)
    BY <1>1, <2>1 DEF SameL
  <2>3. \A u \in Threads : (\E f \in Frames(u)' : f.at = "oops") <=> \E f \in Frames(u) : f.at = "oops"
    BY <1>1 DEF SameL
  <2> QED BY <1>2, <1>4, <2>2, <2>3 DEF ReadPendingF
<1>6. /\ \A n : Unregistering(n)' <=> Unregistering(n)
      /\ PassedBy' = PassedBy
  BY <1>1, RegistersSame
<1>7. MniF'
  BY <1>2, <1>3, <1>5, <1>6 DEF MniF, SoleStore, PassedF, FreshF
<1> QED BY <1>2, <1>4, <1>7 DEF VisibleF

(* The invariants of msgmni and the chain.                                 *)
MsgInv == TaskInv /\ ChainInv /\ NrInv /\ MniInv
FlagLabels == MniLabels \cup {"switch", "kfree", "nr_dec"}
ChainLabels == FlagLabels \cup Sysctl

(* Before and after a step, in their other form.                           *)
LEMMA MsgBefore ==
    ASSUME IInv
    PROVE  TypeInv /\ ShapeInv /\ TaskInv /\ ChainF /\ NrF /\ MniF /\ Views
<1>1. TypeInv /\ ShapeInv
  BY DEF IInv
<1>2. ViewsInv /\ Views
  BY <1>1, InvViews, ViewsAre
<1> QED BY <1>1, <1>2 DEF IInv, ViewsInv

(* Back from the parts about frames to the invariant, after a step.        *)
LEMMA MsgBehind ==
    ASSUME TypeInv', ShapeInv', TaskInv', ChainF', NrF', MniF'
    PROVE  MsgInv'
<1>1. ViewsInv'
  BY InvViews, PTL
<1> QED BY <1>1 DEF ViewsInv, MsgInv

(* A step that only stores auto_msgmni leaves all that alone.              *)
LEMMA FlagStepsQuiet ==
    ASSUME IInv, NEW t \in Threads, NEW fs, Ends(t, fs),
           UNCHANGED <<alive, nsproxy, nr_ipc_ns, mem, msg_ctlmni, chain, loose, work, raced>>,
           Touches(t, fs) \cap FlagLabels = {},
           \A i \in 1 .. Len(fs) : fs[i].at \in Sysctl => nsproxy[t] = fs[i].of
    PROVE  MsgInv'
<1>0. TypeInv /\ ShapeInv /\ TaskInv /\ ChainF /\ NrF /\ MniF
  BY MsgBefore
<1>1. TypeInv' /\ ShapeInv' /\ Goes(t, fs)
  BY <1>0, FramesGo DEF Ends
<1>2. SameL(MniLabels)
  BY <1>0, SameLabels DEF FlagLabels
<1>3. MniF' /\ VisibleF' = VisibleF
  BY <1>0, <1>2, MniSame
<1>4. UNCHANGED <<alive, nsproxy, nr_ipc_ns, chain>>
  OBVIOUS
<1>5. \A i \in 1 .. Len(fs) : fs[i].at \notin FlagLabels
  BY DEF Touches
<1>6. stack[t] # <<>> => Head(stack[t]).at \notin FlagLabels
  BY DEF Touches
<1>7. TaskInv'
  BY <1>0, <1>1, <1>4, <1>5, <1>6, TaskStep DEF FlagLabels, MniLabels
<1>8. ChainF'
  BY <1>0, <1>3, <1>4, <1>5, <1>6, ChainStep DEF FlagLabels, MniLabels, ChainF
<1>9. NrF'
  BY <1>0, <1>4, NrStep DEF FlagLabels, MniLabels
<1> QED BY <1>1, <1>3, <1>7, <1>8, <1>9, MsgBehind

(* So does a step of the queues and the mounts.                            *)
LEMMA QueueStepsQuiet ==
    ASSUME IInv, NEW t \in Threads, NEW fs, Ends(t, fs), UNCHANGED <<alive, nsproxy, mniv>>,
           Touches(t, fs) \cap ChainLabels = {}
    PROVE  MsgInv'
<1>1. \A i \in 1 .. Len(fs) : fs[i].at \notin Sysctl
  BY DEF Touches, ChainLabels
<1>2. UNCHANGED <<alive, nsproxy, nr_ipc_ns, mem, msg_ctlmni, chain, loose, work, raced>>
  BY DEF mniv
<1>3. Touches(t, fs) \cap FlagLabels = {}
  BY DEF ChainLabels
<1> QED BY <1>1, <1>2, <1>3, FlagStepsQuiet

-----------------------------------------------------------------------------
(* The frame that runs.                                                    *)
HeadIs(t, l) ==
    /\ stack[t] # <<>> /\ Head(stack[t]).at = l /\ Head(stack[t]).of = Arg(t)
    /\ Head(stack[t]) \in Frames(t) /\ Head(stack[t]) \in FrameSet
    /\ l \in NsLabels => Arg(t) \in Nss
    /\ l \notin {"store", "set", "inode", "release"} => Head(stack[t]) = Frame(l, Arg(t))
    /\ l \in {"notify", "nr_dec"} => Arg(t) = NoNs
(* The frame that runs is one of the frames of its stack.                  *)
LEMMA Begin ==
    ASSUME TypeInv, ShapeInv, NEW t \in Threads, NEW l, At(t, l)
    PROVE  HeadIs(t, l)
<1>1. /\ stack[t] # <<>> /\ Head(stack[t]).at = l /\ Head(stack[t]) \in Frames(t)
      /\ Head(stack[t]) \in FrameSet /\ ArgsOK(t, Head(stack[t]))
  BY HeadFacts DEF At
<1> QED BY <1>1 DEF HeadIs, Arg, ArgsOK

(* No namespace comes to be passed by.                                     *)
LEMMA PassedStep ==
    ASSUME NEW t \in Threads, NEW fs, Goes(t, fs),
           stack[t] # <<>> => Head(stack[t]).at \notin {"nr_inc", "msg_init_ns", "compute"},
           \A i \in 1 .. Len(fs) : fs[i].at # "register"
    PROVE  PassedBy' \subseteq PassedBy
<1>1. \A l, n : Frame(l, n).at = l
  BY DEF Frame, MkFrame
<1>2. ASSUME NEW u \in Threads, NEW n,
             Frame("register", n) \in Frames(u)',
             Frames(u)' \cap {Frame("nr_inc", n), Frame("msg_init_ns", n), Frame("compute", n)} = {}
      PROVE  /\ Frame("register", n) \in Frames(u)
             /\ Frames(u) \cap {Frame("nr_inc", n), Frame("msg_init_ns", n), Frame("compute", n)} = {}
  <2>1. Frame("register", n) \in Frames(u)
    BY <1>1, <1>2 DEF Goes
  <2>2. ASSUME NEW l \in {"nr_inc", "msg_init_ns", "compute"}, Frame(l, n) \in Frames(u)
        PROVE  Frame(l, n) \in Frames(u)'
    BY <1>1, <2>2 DEF Goes
  <2> QED BY <1>2, <2>1, <2>2
<1> QED BY <1>2 DEF PassedBy

(* Who unregisters goes on to, unless it is done.                          *)
LEMMA RegisterStep ==
    ASSUME NEW t \in Threads, NEW fs, Goes(t, fs)
    PROVE  \A n : Unregistering(n) /\ ~(stack[t] # <<>> /\ Head(stack[t]) = Frame("unregister", n)) => Unregistering(n)'
<1>1. \A u \in Threads : \A f \in Frames(u) : f \in Frames(u)' \/ (stack[t] # <<>> /\ f = Head(stack[t]))
  BY DEF Goes
<1> QED BY <1>1 DEF Unregistering

(* What is to be computed still is.                                        *)
LEMMA PendingStep ==
    ASSUME NEW t \in Threads, NEW fs, Goes(t, fs), chain' = chain, work => work',
           stack[t] # <<>> => Head(stack[t]).at \notin {"notify", "compute", "walk", "store", "oops"}
    PROVE  \A n : ReadPendingF(n) => ReadPendingF(n)'
<1>1. \A l, n : Frame(l, n).at = l
  BY DEF Frame, MkFrame
<1>2. \A u \in Threads : \A f \in Frames(u) :
          f.at \in {"notify", "compute", "walk", "store", "oops"} => f \in Frames(u)'
  BY DEF Goes
<1>3. ASSUME NEW u \in Threads, NEW n, ApproachesF(u, n) PROVE ApproachesF(u, n)'
  BY <1>2, <1>3 DEF ApproachesF
<1>4. \A u \in Threads : \A n : /\ Frame("notify", NoNs) \in Frames(u) => Frame("notify", NoNs) \in Frames(u)'
                                /\ Frame("compute", n) \in Frames(u) => Frame("compute", n) \in Frames(u)'
  BY <1>1, <1>2
<1> QED BY <1>2, <1>3, <1>4 DEF ReadPendingF

(* Nothing is computed or stored.                                          *)
LEMMA MniQuiet ==
    ASSUME MniF, SameL({"store", "set"}), Now' = Now, msg_ctlmni' = msg_ctlmni,
           raced \subseteq raced', PassedBy' \subseteq PassedBy
    PROVE  SoleStore' /\ PassedF' /\ \A n : CurrentF(n)' <=> CurrentF(n)
<1>1. /\ \A u \in Threads : \A n : StoresF(u, n)' <=> StoresF(u, n)
      /\ \A n : CurrentF(n)' <=> CurrentF(n)
  BY StoresSame
<1> QED BY <1>1 DEF MniF, SoleStore, PassedF

(* The chain stays as it is.                                               *)
LEMMA FreshStep ==
    ASSUME FreshF, NEW t \in Threads, NEW fs, Goes(t, fs), chain' = chain,
           ToSet(chain) \ raced' \subseteq ToSet(chain) \ raced, stack[t] # <<>> => Head(stack[t]).at # "unregister",
           \A n \in ToSet(chain) \ raced' : CurrentF(n) \/ ReadPendingF(n) => CurrentF(n)' \/ ReadPendingF(n)'
    PROVE  FreshF'
<1>1. \A l, n : Frame(l, n).at = l
  BY DEF Frame, MkFrame
<1>2. \A n : Unregistering(n) => Unregistering(n)'
  BY <1>1, RegisterStep
<1> QED BY <1>2 DEF FreshF

(* Where walkers come to.                                                  *)
LEMMA WalkedStep ==
    ASSUME NEW t \in Threads, NEW fs, Goes(t, fs)
    PROVE  \A x \in WalkedF' : \/ x \in WalkedF
                               \/ \E i \in 1 .. Len(fs) :
                                    \/ fs[i].at \in {"walk", "store"} /\ fs[i].of = x
                                    \/ fs[i].at = "store" /\ fs[i].next = x
<1>1. ASSUME NEW x \in WalkedF', x \notin WalkedF
      PROVE  \E i \in 1 .. Len(fs) : \/ fs[i].at \in {"walk", "store"} /\ fs[i].of = x
                                     \/ fs[i].at = "store" /\ fs[i].next = x
  <2>1. PICK u \in Threads : \E f \in Frames(u)' :
              (f.at \in {"walk", "store"} /\ f.of = x) \/ (f.at = "store" /\ f.next = x)
    BY <1>1 DEF WalkedF
  <2>2. PICK f \in Frames(u)' : (f.at \in {"walk", "store"} /\ f.of = x) \/ (f.at = "store" /\ f.next = x)
    BY <2>1
  <2>3. x \in Nss
    BY <1>1 DEF WalkedF
  <2>4. f \notin Frames(u)
    BY <1>1, <2>2, <2>3 DEF WalkedF
  <2>5. u = t /\ \E i \in 1 .. Len(fs) : f = fs[i]
    BY <2>4 DEF Goes
  <2> QED BY <2>2, <2>5
<1> QED BY <1>1

(* One more namespace can be walked to, which nobody frees.                *)
LEMMA ChainGrow ==
    ASSUME TypeInv, ShapeInv, ChainF, NEW t \in Threads, NEW fs, Ends(t, fs), alive' = alive,
           IsInjective(chain'), NEW m \in alive, VisibleF' \subseteq VisibleF \cup {m},
           \A u \in Threads : \A f \in Frames(u)' : ~(f.at \in {"kfree", "msg_init_ns"} /\ f.of = m),
           stack[t] # <<>> /\ Head(stack[t]).at = "unregister" => Head(stack[t]).of \notin VisibleF',
           \A i \in 1 .. Len(fs) : fs[i].at \notin {"kfree", "msg_init_ns"}
    PROVE  ChainF'
<1>0. Goes(t, fs) /\ fs \in Seq(FrameSet) /\ Moves(t, fs)
  BY FramesGo DEF Ends
<1>1. PICK V : V = VisibleF'
  OBVIOUS
<1>2. AboveF(V)'
  <2>1. \A n \in V : n \in VisibleF \/ \A u \in Threads : \A f \in Frames(u)' : ~(f.at = "kfree" /\ f.of = n)
    BY <1>1
  <2> QED BY <1>0, <1>1, <2>1, AboveStep DEF ChainF
<1>3. AboveF(VisibleF)'
  BY <1>1, <1>2 DEF AboveF
<1>4. \A u \in Threads : \A f \in Frames(u)' : f.at = "msg_init_ns" => f \in Frames(u)
  BY <1>0 DEF Goes
<1> QED BY <1>3, <1>4 DEF ChainF

-----------------------------------------------------------------------------
(* The entries of a list.                                                  *)
LEMMA PlaceOf ==
    ASSUME NEW S, NEW s \in Seq(S)
    PROVE  \A i \in 1 .. Len(s) : s[i] \in S
    OBVIOUS

(* Nobody is registered.                                                   *)
LEMMA Msg_notify_none ==
    ASSUME IInv, NEW t \in Threads, ipcns_notify(t), may' = may, chain = <<>>
    PROVE  MsgInv'
<1>0. TypeInv /\ ShapeInv /\ TaskInv /\ ChainF /\ NrF /\ MniF /\ Views /\ t \in Threads
  BY MsgBefore DEF Threads
<1>2. PICK fs : fs = <<>>
  OBVIOUS
<1>3. Ends(t, fs)
  BY <1>2, After_ipcns_notify
<1>4. Goes(t, fs) /\ TypeInv' /\ ShapeInv'
  BY <1>0, <1>3, FramesGo DEF Ends
<1>5. Len(fs) = 0 /\ 1 .. Len(fs) = {}
  BY <1>2 DEF Frame, MkFrame
<1>6. HeadIs(t, "notify")
  BY <1>0, Begin DEF ipcns_notify
<1>7. stack[t] # <<>> /\ Head(stack[t]).at = "notify" /\ Head(stack[t]).of = Arg(t)
  BY <1>6 DEF HeadIs
<1>8. Touches(t, fs) \subseteq {"notify"}
  BY <1>5, <1>7 DEF Touches
<1>9. UNCHANGED <<alive, nsproxy, nr_ipc_ns, mem, msg_ctlmni, auto_msgmni, chain, loose, work, raced, Now>>
  BY DEF ipcns_notify, nsv, mniv, Now
<1>t. TaskInv'
  BY <1>0, <1>4, <1>5, <1>7, <1>9, TaskStep DEF Sysctl
<1>w. VisibleF' \subseteq VisibleF
  BY <1>0, <1>4, <1>5, <1>9, WalkedStep DEF VisibleF
<1>c. ChainF'
  BY <1>0, <1>3, <1>5, <1>7, <1>9, <1>w, ChainStep DEF ChainF
<1>n. NrF'
  BY <1>0, <1>3, <1>8, <1>9, NrStep
<1>q. SoleStore' /\ PassedF' /\ \A n : CurrentF(n)' <=> CurrentF(n)
  <2>1. SameL({"store", "set"})
    BY <1>0, <1>3, <1>8, SameLabels
  <2>2. PassedBy' \subseteq PassedBy
    BY <1>0, <1>4, <1>5, <1>7, PassedStep
  <2> QED BY <1>0, <1>9, <2>1, <2>2, MniQuiet
<1>f. FreshF'
  <2>1. ToSet(chain) = {}
    BY DEF ToSet
  <2> QED BY <1>0, <1>4, <1>7, <1>9, <2>1, FreshStep DEF MniF
<1> QED BY <1>4, <1>t, <1>c, <1>n, <1>q, <1>f, MsgBehind DEF MniF

(* The walk begins: it will come to all of the chain.                      *)
LEMMA Msg_notify ==
    ASSUME IInv, NEW t \in Threads, ipcns_notify(t), may' = may, chain # <<>>
    PROVE  MsgInv'
<1>0. TypeInv /\ ShapeInv /\ TaskInv /\ ChainF /\ NrF /\ MniF /\ Views /\ t \in Threads
  BY MsgBefore DEF Threads
<1>i. chain \in Seq(Nss) /\ 1 \in DOMAIN chain /\ Head(chain) = chain[1] /\ Head(chain) \in ToSet(chain)
      /\ DOMAIN chain = 1 .. Len(chain)
  BY <1>0 DEF TypeInv, ToSet
<1>a. \A x : Frame("walk", x).of = x /\ Frame("walk", x).at = "walk"
  BY DEF Frame, MkFrame
<1>1. PICK a : a = Frame("walk", Head(chain))
  OBVIOUS
<1>2. PICK fs : fs = <<a>>
  OBVIOUS
<1>3. Ends(t, fs)
  BY <1>1, <1>2, After_ipcns_notify
<1>4. Goes(t, fs) /\ TypeInv' /\ ShapeInv'
  BY <1>0, <1>3, FramesGo DEF Ends
<1>5. /\ Len(fs) = 1
      /\ fs[1] = a /\ a.at = "walk"
      /\ \A i \in 1 .. Len(fs) : fs[i] \in {a}
  BY <1>1, <1>2 DEF Frame, MkFrame
<1>6. HeadIs(t, "notify")
  BY <1>0, Begin DEF ipcns_notify
<1>7. stack[t] # <<>> /\ Head(stack[t]).at = "notify" /\ Head(stack[t]).of = Arg(t)
  BY <1>6 DEF HeadIs
<1>8. Touches(t, fs) \subseteq {"walk", "notify"}
  BY <1>5, <1>7 DEF Touches
<1>9. UNCHANGED <<alive, nsproxy, nr_ipc_ns, mem, msg_ctlmni, auto_msgmni, chain, loose, work, raced, Now>>
  BY DEF ipcns_notify, nsv, mniv, Now
<1>t. TaskInv'
  BY <1>0, <1>4, <1>5, <1>7, <1>9, TaskStep DEF Sysctl
<1>w. VisibleF' \subseteq VisibleF
  BY <1>0, <1>4, <1>5, <1>9, WalkedStep, <1>i, <1>a, <1>1 DEF VisibleF
<1>c. ChainF'
  BY <1>0, <1>3, <1>5, <1>7, <1>9, <1>w, ChainStep DEF ChainF
<1>n. NrF'
  BY <1>0, <1>3, <1>8, <1>9, NrStep
<1>q. SoleStore' /\ PassedF' /\ \A n : CurrentF(n)' <=> CurrentF(n)
  <2>1. SameL({"store", "set"})
    BY <1>0, <1>3, <1>8, SameLabels
  <2>2. PassedBy' \subseteq PassedBy
    BY <1>0, <1>4, <1>5, <1>7, PassedStep
  <2> QED BY <1>0, <1>9, <2>1, <2>2, MniQuiet
<1>f. FreshF'
  <2>1. ASSUME NEW n \in ToSet(chain) PROVE ReadPendingF(n)'
    <3>1. PICK k \in DOMAIN chain : chain[k] = n
        BY DEF ToSet
    <3>2. a \in Frames(t)' /\ a.at = "walk" /\ a.of = chain[1]
        BY <1>1, <1>4, <1>5, <1>i, <1>a DEF Goes
    <3>3. 1 <= k
        BY <1>i, <3>1
    <3>4. ApproachesF(t, n)'
        BY <1>9, <1>i, <3>1, <3>2, <3>3 DEF ApproachesF
    <3> QED BY <1>0, <3>4 DEF ReadPendingF
  <2> QED BY <1>0, <1>4, <1>7, <1>9, <2>1, FreshStep DEF MniF
<1> QED BY <1>4, <1>t, <1>c, <1>n, <1>q, <1>f, MsgBehind DEF MniF

(* msgmni is written by hand; the namespace is to be unregistered.         *)
LEMMA Msg_sysctl_msgmni ==
    ASSUME IInv, NEW t \in Tasks, sysctl_msgmni(t), may' = may, Ends(t, <<Frame("unregister", nsproxy[t])>>),
           raced' = raced \cup ({nsproxy[t]} \cap PassedBy)
    PROVE  MsgInv'
<1>0. TypeInv /\ ShapeInv /\ TaskInv /\ ChainF /\ NrF /\ MniF /\ Views /\ t \in Threads
  BY MsgBefore DEF Threads
<1>i. PICK m : m = nsproxy[t]
  OBVIOUS
<1>j. m \in Nss /\ raced' = raced \cup ({m} \cap PassedBy) /\ msg_ctlmni' = [msg_ctlmni EXCEPT ![m] = ByHand]
  BY <1>i, After_sysctl_msgmni DEF sysctl_msgmni
<1>k. \A n : n # m => msg_ctlmni'[n] = msg_ctlmni[n]
  BY <1>0, <1>j DEF TypeInv
<1>1. PICK a : a = Frame("unregister", nsproxy[t])
  OBVIOUS
<1>2. PICK fs : fs = <<a>>
  OBVIOUS
<1>3. Ends(t, fs)
  BY <1>1, <1>2
<1>4. Goes(t, fs) /\ TypeInv' /\ ShapeInv'
  BY <1>0, <1>3, FramesGo DEF Ends
<1>5. /\ Len(fs) = 1
      /\ fs[1] = a /\ a.at = "unregister"
      /\ \A i \in 1 .. Len(fs) : fs[i] \in {a}
  BY <1>1, <1>2 DEF Frame, MkFrame
<1>7. stack[t] = <<>>
  BY DEF sysctl_msgmni, Idle
<1>8. Touches(t, fs) \subseteq {"unregister"}
  BY <1>5, <1>7 DEF Touches
<1>9. UNCHANGED <<alive, nsproxy, nr_ipc_ns, mem, auto_msgmni, chain, loose, work, Now>>
  BY DEF sysctl_msgmni, nsv, mniv, Now
<1>t. TaskInv'
  BY <1>0, <1>4, <1>5, <1>7, <1>9, TaskStep DEF Sysctl
<1>w. VisibleF' \subseteq VisibleF
  BY <1>0, <1>4, <1>5, <1>9, WalkedStep DEF VisibleF
<1>c. ChainF'
  BY <1>0, <1>3, <1>5, <1>7, <1>9, <1>w, ChainStep DEF ChainF
<1>n. NrF'
  BY <1>0, <1>3, <1>8, <1>9, NrStep
<1>q. SoleStore' /\ PassedF' /\ \A n : n # m => (CurrentF(n)' <=> CurrentF(n))
  <2>1. SameL({"store", "set"})
    BY <1>0, <1>3, <1>8, SameLabels
  <2>2. PassedBy' \subseteq PassedBy
    BY <1>0, <1>4, <1>5, <1>7, PassedStep
  <2>3. /\ \A u \in Threads : \A n : StoresF(u, n)' <=> StoresF(u, n)
        /\ \A n : n # m => (CurrentF(n)' <=> CurrentF(n))
    BY <1>9, <1>k, <2>1, StoresSame
  <2> QED BY <1>0, <1>j, <2>2, <2>3 DEF MniF, SoleStore, PassedF
<1>f. FreshF'
  <2>1. \A n : Unregistering(n) => Unregistering(n)'
    BY <1>0, <1>4, <1>7, RegisterStep
  <2>2. Unregistering(m)'
    BY <1>0, <1>1, <1>4, <1>5, <1>i DEF Unregistering, Goes
  <2>3. \A n : ReadPendingF(n) => ReadPendingF(n)'
    BY <1>0, <1>4, <1>7, <1>9, PendingStep
  <2> QED BY <1>0, <1>9, <1>j, <1>q, <2>1, <2>2, <2>3 DEF MniF, FreshF
<1> QED BY <1>4, <1>t, <1>c, <1>n, <1>q, <1>f, MsgBehind DEF MniF

(* The worker notifies the chain instead of its work.                      *)
LEMMA Msg_ipc_memory_notifier ==
    ASSUME IInv, NEW t \in Threads, t = kworker, ipc_memory_notifier, may' = may
    PROVE  MsgInv'
<1>0. TypeInv /\ ShapeInv /\ TaskInv /\ ChainF /\ NrF /\ MniF /\ Views /\ t \in Threads
  BY MsgBefore DEF Threads
<1>1. PICK a : a = Frame("notify", NoNs)
  OBVIOUS
<1>2. PICK fs : fs = <<a>>
  OBVIOUS
<1>3. Ends(t, fs)
  BY <1>1, <1>2, After_ipc_memory_notifier
<1>4. Goes(t, fs) /\ TypeInv' /\ ShapeInv'
  BY <1>0, <1>3, FramesGo DEF Ends
<1>5. /\ Len(fs) = 1
      /\ fs[1] = a /\ a.at = "notify"
      /\ \A i \in 1 .. Len(fs) : fs[i] \in {a}
  BY <1>1, <1>2 DEF Frame, MkFrame
<1>7. stack[t] = <<>>
  BY DEF ipc_memory_notifier, Idle
<1>8. Touches(t, fs) \subseteq {"notify"}
  BY <1>5, <1>7 DEF Touches
<1>9. UNCHANGED <<alive, nsproxy, nr_ipc_ns, mem, msg_ctlmni, auto_msgmni, chain, loose, raced, Now>>
  BY DEF ipc_memory_notifier, nsv, mniv, Now
<1>t. TaskInv'
  BY <1>0, <1>4, <1>5, <1>7, <1>9, TaskStep DEF Sysctl
<1>w. VisibleF' \subseteq VisibleF
  BY <1>0, <1>4, <1>5, <1>9, WalkedStep DEF VisibleF
<1>c. ChainF'
  BY <1>0, <1>3, <1>5, <1>7, <1>9, <1>w, ChainStep DEF ChainF
<1>n. NrF'
  BY <1>0, <1>3, <1>8, <1>9, NrStep
<1>q. SoleStore' /\ PassedF' /\ \A n : CurrentF(n)' <=> CurrentF(n)
  <2>1. SameL({"store", "set"})
    BY <1>0, <1>3, <1>8, SameLabels
  <2>2. PassedBy' \subseteq PassedBy
    BY <1>0, <1>4, <1>5, <1>7, PassedStep
  <2> QED BY <1>0, <1>9, <2>1, <2>2, MniQuiet
<1>f. FreshF'
  <2>1. Frame("notify", NoNs) \in Frames(t)'
    BY <1>1, <1>4, <1>5 DEF Goes
  <2>2. \A n : ReadPendingF(n)'
    BY <1>0, <2>1 DEF ReadPendingF
  <2> QED BY <1>0, <1>4, <1>7, <1>9, <2>2, FreshStep DEF MniF
<1> QED BY <1>4, <1>t, <1>c, <1>n, <1>q, <1>f, MsgBehind DEF MniF

(* The last reference goes: the namespace is to be unregistered, then freed. *)
LEMMA Msg_put_last ==
    ASSUME IInv, NEW t \in Threads, put_ipc_ns(t), may' = may, count[Arg(t)] = 1
    PROVE  MsgInv'
<1>0. TypeInv /\ ShapeInv /\ TaskInv /\ ChainF /\ NrF /\ MniF /\ Views /\ t \in Threads
  BY MsgBefore DEF Threads
<1>a. \A l, x : Frame(l, x).of = x
  BY DEF Frame, MkFrame
<1>1. PICK a, b, c, d, e : a = Frame("mq_put_mnt", Arg(t)) /\ b = Frame("unregister", Arg(t)) /\ c = Frame("kfree", Arg(t)) /\ d = Frame("nr_dec", NoNs) /\ e = Frame("notify", NoNs)
  OBVIOUS
<1>2. PICK fs : fs = <<a, b, c, d, e>>
  OBVIOUS
<1>3. Ends(t, fs)
  BY <1>1, <1>2, After_put_ipc_ns
<1>4. Goes(t, fs) /\ TypeInv' /\ ShapeInv'
  BY <1>0, <1>3, FramesGo DEF Ends
<1>5. /\ Len(fs) = 5
      /\ fs[1] = a /\ a.at = "mq_put_mnt"
      /\ fs[2] = b /\ b.at = "unregister"
      /\ fs[3] = c /\ c.at = "kfree"
      /\ fs[4] = d /\ d.at = "nr_dec"
      /\ fs[5] = e /\ e.at = "notify"
      /\ \A i \in 1 .. Len(fs) : fs[i] \in {a, b, c, d, e}
  BY <1>1, <1>2 DEF Frame, MkFrame
<1>6. HeadIs(t, "put")
  BY <1>0, Begin DEF put_ipc_ns
<1>7. stack[t] # <<>> /\ Head(stack[t]).at = "put" /\ Head(stack[t]).of = Arg(t)
  BY <1>6 DEF HeadIs
<1>8. Touches(t, fs) \subseteq {"mq_put_mnt", "unregister", "kfree", "nr_dec", "notify", "put"}
  BY <1>5, <1>7 DEF Touches
<1>9. UNCHANGED <<alive, nsproxy, nr_ipc_ns, mem, msg_ctlmni, auto_msgmni, chain, loose, work, raced, Now>>
  BY DEF put_ipc_ns, nsv, mniv, Now
<1>t. TaskInv'
  BY <1>0, <1>4, <1>5, <1>7, <1>9, TaskStep DEF Sysctl
<1>w. VisibleF' \subseteq VisibleF
  BY <1>0, <1>4, <1>5, <1>9, WalkedStep DEF VisibleF
<1>c. ChainF'
  <2>1. PICK V : V = VisibleF'
    OBVIOUS
  <2>2. \A i \in 1 .. Len(fs) : fs[i].at = "kfree" =>
           \E j \in 1 .. Len(fs) : j < i /\ fs[j] = Frame("unregister", fs[i].of)
    <3>1. fs[2] = Frame("unregister", fs[3].of) /\ 2 \in 1 .. Len(fs)
        BY <1>1, <1>5, <1>a
    <3>2. \A i \in 1 .. Len(fs) : fs[i].at = "kfree" => i = 3
        BY <1>5
    <3> QED BY <3>1, <3>2
  <2>3. fs \in Seq(FrameSet) /\ Moves(t, fs)
    BY <1>3 DEF Ends
  <2>4. AboveF(V)'
    BY <1>0, <1>7, <1>w, <2>1, <2>2, <2>3, AboveStep DEF ChainF
  <2>5. AboveF(VisibleF)'
    BY <2>1, <2>4 DEF AboveF
  <2>6. \A u \in Threads : \A f \in Frames(u)' : f.at = "msg_init_ns" => f \in Frames(u)
    BY <1>4, <1>5 DEF Goes
  <2> QED BY <1>0, <1>9, <1>w, <2>5, <2>6 DEF ChainF
<1>n. NrF'
  <2>0. stack \in [Threads -> Seq(FrameSet)] /\ fs \in Seq(FrameSet) /\ Moves(t, fs)
    BY <1>0, <1>3 DEF TypeInv, Ends
  <2>1. SameL({"nr_inc"})
    BY <1>0, <1>3, <1>8, SameLabels
  <2>2. StartingF' = StartingF
    BY <2>1 DEF StartingF, SameL
  <2>3. PICK D, A : D = {Frame("nr_dec", NoNs)} /\ A = {Frame("kfree", n) : n \in Nss}
    OBVIOUS
  <2>4. \A l, x : Frame(l, x).at = l
    BY DEF Frame, MkFrame
  <2>m. Arg(t) \in Nss
    BY <1>6 DEF HeadIs, NsLabels
  <2>5. /\ a \notin D /\ b \notin D /\ c \notin D /\ d \in D /\ e \notin D /\ Head(stack[t]) \notin D
        /\ a \notin A /\ b \notin A /\ c \in A /\ d \notin A /\ e \notin A /\ Head(stack[t]) \notin A
    BY <1>1, <1>5, <1>7, <2>3, <2>4, <2>m
  <2>6. /\ a \in FrameSet /\ b \in FrameSet /\ c \in FrameSet /\ d \in FrameSet /\ e \in FrameSet
    <3>0. Len(fs) = 5 /\ fs \in Seq(FrameSet)
        BY <1>5, <2>0
    <3>1. \A i \in 1 .. Len(fs) : fs[i] \in FrameSet
        BY <3>0, PlaceOf
    <3>2. fs[1] \in FrameSet /\ fs[2] \in FrameSet /\ fs[3] \in FrameSet /\ fs[4] \in FrameSet /\ fs[5] \in FrameSet
        BY <3>0, <3>1
    <3> QED BY <1>5, <3>2
  <2>7. Times(fs, D) = 1 /\ Times(fs, A) = 1
    BY <1>2, <2>5, <2>6, TimesFive DEF In
  <2>8. Total(D)' = Total(D) + 1 /\ Total(D) \in Nat
    BY <1>7, <2>0, <2>5, <2>7, Deltas DEF In
  <2>9. Total(A)' = Total(A) + 1 /\ Total(A) \in Nat
    BY <1>7, <2>0, <2>5, <2>7, Deltas DEF In
  <2>x. tD' = tD + 1 /\ tA' = tA + 1 /\ tD \in Nat /\ tA \in Nat
    BY <2>3, <2>8, <2>9 DEF tD, tA
  <2>y. alive' \ StartingF' = alive \ StartingF
    BY <1>9, <2>2
  <2>z. PICK N : N = Cardinality(alive \ StartingF)
    OBVIOUS
  <2>u. N \in Nat
    <3>1. IsFiniteSet(Nss)
        BY NsConstants
    <3> QED BY <1>0, <2>z, <3>1, FS_Subset, FS_CardinalityType DEF TypeInv
  <2> QED BY <1>0, <1>9, <2>x, <2>y, <2>z, <2>u DEF NrF
<1>q. SoleStore' /\ PassedF' /\ \A n : CurrentF(n)' <=> CurrentF(n)
  <2>1. SameL({"store", "set"})
    BY <1>0, <1>3, <1>8, SameLabels
  <2>2. PassedBy' \subseteq PassedBy
    BY <1>0, <1>4, <1>5, <1>7, PassedStep
  <2> QED BY <1>0, <1>9, <2>1, <2>2, MniQuiet
<1>f. FreshF'
  <2>1. \A n : ReadPendingF(n) => ReadPendingF(n)'
    BY <1>0, <1>4, <1>7, <1>9, PendingStep
  <2> QED BY <1>0, <1>4, <1>7, <1>9, <1>q, <2>1, FreshStep DEF MniF
<1> QED BY <1>4, <1>t, <1>c, <1>n, <1>q, <1>f, MsgBehind DEF MniF

-----------------------------------------------------------------------------
(* A task on its own changes its namespace.                                *)
LEMMA TaskMove ==
    ASSUME TypeInv, ShapeInv, TaskInv, NEW t \in Tasks, NEW fs, Goes(t, fs), t \in Threads,
           \A x \in Tasks : x # t => nsproxy'[x] = nsproxy[x],
           \A f \in Frames(t)' : f.at \notin Sysctl \cup {"switch", "register"},
           \A u \in Threads : \A f \in Frames(u) : u # t /\ f.at = "switch" => f.of # nsproxy'[t]
    PROVE  TaskInv'
<1>1. \A l, n : Frame(l, n).at = l
  BY DEF Frame, MkFrame
<1>2. ASSUME NEW u \in Threads, NEW f \in Frames(u), f.at \in Sysctl \cup {"switch", "register"}
      PROVE  u \in Tasks
  <2>1. ArgsOK(u, f)
    BY AllArgs
  <2>2. u # kworker
    BY <1>2, <2>1 DEF ArgsOK, Sysctl
  <2> QED BY <2>2 DEF Threads
<1>3. \A x \in Tasks : x # t => nsproxy'[x] = nsproxy[x]
  OBVIOUS
<1>4. \A u \in Threads : \A f \in Frames(u)' :
         f.at \in Sysctl \cup {"switch", "register"} => u # t /\ f \in Frames(u) /\ u \in Tasks
  BY <1>2 DEF Goes
<1>5. ASSUME NEW u \in Threads, NEW f \in Frames(u)'
      PROVE  /\ f.at = "switch" => /\ nsproxy'[u] # NoNs /\ f.of # init_ipc_ns
                                   /\ \A w \in Tasks : nsproxy'[w] # f.of
             /\ f.at = "register" => nsproxy'[u] = f.of \/ Frame("switch", f.of) \in Frames(u)'
             /\ f.at \in Sysctl => nsproxy'[u] = f.of
  <2>1. CASE f.at = "switch"
    BY <1>3, <1>4, <1>5, <2>1 DEF TaskInv
  <2>2. CASE f.at = "register"
    <3>1. u # t /\ f \in Frames(u) /\ u \in Tasks /\ Frames(u)' = Frames(u)
        BY <1>4, <1>5, <2>2 DEF Goes
    <3> QED BY <1>3, <2>2, <3>1 DEF TaskInv
  <2>3. CASE f.at \in Sysctl
    BY <1>3, <1>4, <1>5, <2>3 DEF TaskInv
  <2> QED BY <2>1, <2>2, <2>3
<1>6. ASSUME NEW u \in Threads, NEW w \in Threads, NEW n \in Nss,
             Frame("switch", n) \in Frames(u)', Frame("switch", n) \in Frames(w)'
      PROVE  u = w
  BY <1>1, <1>4, <1>6 DEF TaskInv
<1> QED BY <1>5, <1>6 DEF TaskInv

(* A task that begins a namespace is on its way into it.                   *)
LEMMA StartsOf ==
    ASSUME IInv, NEW u \in Threads, NEW f \in Frames(u), f.at \in {"nr_inc", "msg_init_ns"}
    PROVE  /\ f = Frame(f.at, f.of) /\ f.of \in Nss
           /\ Frame("msg_init_ns", f.of) \in Frames(u) /\ Frame("notify", NoNs) \in Frames(u)
           /\ Frame("register", f.of) \in Frames(u) /\ Frame("switch", f.of) \in Frames(u)
           /\ count[f.of] > 0 /\ f.of \in alive
<1>0. TypeInv /\ ShapeInv /\ ArgsOK(u, f) /\ RefCount
  BY AllArgs DEF IInv
<1>1. f = Frame(f.at, f.of) /\ f.of \in Nss
  BY <1>0 DEF ArgsOK, NsLabels
<1>2. \A l, n : Frame(l, n).at = l /\ Frame(l, n).of = n
  BY DEF Frame, MkFrame
<1>3. PICK i \in DOMAIN stack[u] : stack[u][i] = f
  BY DEF Frames
<1>4. stack[u] \in Seq(FrameSet) /\ DOMAIN stack[u] = 1 .. Len(stack[u]) /\ Len(stack[u]) \in Nat
  BY <1>0 DEF TypeInv
<1>5. Frame("msg_init_ns", f.of) \in Frames(u)
  <2>1. CASE f.at = "msg_init_ns"
    BY <1>1, <2>1
  <2>2. CASE f.at = "nr_inc"
    <3>1. 1 < Len(stack[u]) /\ stack[u][2] = Frame("msg_init_ns", f.of)
        BY <1>0, <1>3, <2>2 DEF ShapeInv, Shape
    <3> QED BY <1>4, <3>1 DEF Frames
  <2> QED BY <2>1, <2>2
<1>6. PICK k \in DOMAIN stack[u] : stack[u][k] = Frame("msg_init_ns", f.of)
  BY <1>5 DEF Frames
<1>7. /\ Len(stack[u]) = k + 3
      /\ stack[u][k + 1] = Frame("notify", NoNs)
      /\ stack[u][k + 2] = Frame("register", f.of)
      /\ stack[u][k + 3] = Frame("switch", f.of)
  <2>1. Shape(u, k)
    BY <1>0, <1>6 DEF ShapeInv
  <2>2. stack[u][k].at = "msg_init_ns" /\ stack[u][k].of = f.of
    BY <1>2, <1>6
  <2>3. /\ Len(stack[u]) = k + 3
        /\ stack[u][k + 1] = Frame("notify", NoNs)
        /\ stack[u][k + 2] = Frame("register", stack[u][k].of)
        /\ stack[u][k + 3] = Frame("switch", stack[u][k].of)
    BY <2>1, <2>2 DEF Shape
  <2> QED BY <2>2, <2>3
<1>8. k + 1 \in DOMAIN stack[u] /\ k + 2 \in DOMAIN stack[u] /\ k + 3 \in DOMAIN stack[u]
  <2>1. k \in 1 .. Len(stack[u]) /\ Len(stack[u]) = k + 3
    BY <1>4, <1>6, <1>7
  <2>2. k + 1 \in 1 .. Len(stack[u]) /\ k + 2 \in 1 .. Len(stack[u]) /\ k + 3 \in 1 .. Len(stack[u])
    BY ONLY <2>1
  <2> QED BY <1>4, <2>2
<1>9. /\ Frame("notify", NoNs) \in Frames(u)
      /\ Frame("register", f.of) \in Frames(u) /\ Frame("switch", f.of) \in Frames(u)
  BY <1>7, <1>8 DEF Frames
<1>a. count[f.of] > 0
  BY <1>2, <1>9, Held
<1>b. f.of \in alive
  BY <1>0, <1>1, <1>a DEF RefCount
<1> QED BY <1>1, <1>5, <1>9, <1>a, <1>b

(* The number of namespaces is finite.                                     *)
LEMMA AliveCard ==
    ASSUME TypeInv, NEW S
    PROVE  IsFiniteSet(alive \ S) /\ Cardinality(alive \ S) \in Nat
<1>1. IsFiniteSet(Nss)
  BY NsConstants
<1> QED BY <1>1, FS_Subset, FS_CardinalityType DEF TypeInv

(* The task moves into its new namespace.                                  *)
LEMMA Msg_switch ==
    ASSUME IInv, NEW t \in Threads, switch(t), may' = may
    PROVE  MsgInv'
<1>0. TypeInv /\ ShapeInv /\ TaskInv /\ ChainF /\ NrF /\ MniF /\ Views /\ t \in Threads
  BY MsgBefore DEF Threads
<1>1. PICK a : a = Frame("put", nsproxy[t])
  OBVIOUS
<1>2. PICK fs : fs = <<a>>
  OBVIOUS
<1>3. Ends(t, fs)
  BY <1>1, <1>2, After_switch
<1>4. Goes(t, fs) /\ TypeInv' /\ ShapeInv'
  BY <1>0, <1>3, FramesGo DEF Ends
<1>5. /\ Len(fs) = 1
      /\ fs[1] = a /\ a.at = "put"
      /\ \A i \in 1 .. Len(fs) : fs[i] \in {a}
  BY <1>1, <1>2 DEF Frame, MkFrame
<1>6. HeadIs(t, "switch")
  BY <1>0, Begin DEF switch
<1>7. stack[t] # <<>> /\ Head(stack[t]).at = "switch" /\ Head(stack[t]).of = Arg(t)
  BY <1>6 DEF HeadIs
<1>8. Touches(t, fs) \subseteq {"put", "switch"}
  BY <1>5, <1>7 DEF Touches
<1>9. UNCHANGED <<alive, nr_ipc_ns, mem, msg_ctlmni, auto_msgmni, chain, loose, work, raced, Now>>
  BY DEF switch, nsv, mniv, Now
<1>i. PICK m : m = Arg(t)
  OBVIOUS
<1>j. nsproxy' = [nsproxy EXCEPT ![t] = m] /\ t \in Tasks /\ m \in Nss /\ Head(stack[t]) = Frame("switch", m)
  BY <1>0, <1>6, <1>7, <1>i, TaskRuns DEF switch, HeadIs, NsLabels
<1>k. \A f \in Frames(t)' : f = a
  <2>1. Len(stack[t]) = 1
    <3>1. Shape(t, 1) /\ Head(stack[t]) = stack[t][1]
        BY <1>0, <1>7, HeadFacts
    <3> QED BY <1>7, <3>1 DEF Shape
  <2>2. stack \in [Threads -> Seq(FrameSet)] /\ fs \in Seq(FrameSet) /\ Moves(t, fs)
    BY <1>0, <1>3 DEF TypeInv, Ends
  <2>3. stack' \in [Threads -> Seq(FrameSet)] /\ Len(stack'[t]) = Len(fs) + Len(stack[t]) - Drop(t)
        /\ \A i \in 1 .. Len(fs) : stack'[t][i] = fs[i]
    BY <1>0, <2>2, MoveStack
  <2>4. Len(stack'[t]) = 1 /\ stack'[t][1] = a
    BY <1>5, <1>7, <2>1, <2>3 DEF Drop
  <2>5. DOMAIN stack'[t] = 1 .. 1
    BY <1>0, <2>3, <2>4
  <2> QED BY <2>4, <2>5 DEF Frames
<1>t. TaskInv'
  <2>1. \A f \in Frames(t)' : f.at \notin Sysctl \cup {"switch", "register"}
    BY <1>5, <1>k DEF Sysctl
  <2>2. ASSUME NEW u \in Threads, NEW f \in Frames(u), u # t, f.at = "switch" PROVE f.of # m
    <3>1. f = Frame("switch", f.of) /\ f.of \in Nss
        BY <1>0, <2>2, AllArgs DEF ArgsOK, NsLabels
    <3>2. Frame("switch", m) \in Frames(t)
        BY <1>6, <1>j DEF HeadIs
    <3> QED BY <1>0, <1>j, <2>2, <3>1, <3>2 DEF TaskInv
  <2>4. nsproxy'[t] = m /\ \A x \in Tasks : x # t => nsproxy'[x] = nsproxy[x]
    BY <1>0, <1>j DEF TypeInv
  <2>3. \A u \in Threads : \A f \in Frames(u) : u # t /\ f.at = "switch" => f.of # nsproxy'[t]
    BY <2>2, <2>4
  <2> QED BY <1>0, <1>4, <1>j, <2>1, <2>3, <2>4, TaskMove
<1>w. VisibleF' \subseteq VisibleF
  BY <1>0, <1>4, <1>5, <1>9, WalkedStep DEF VisibleF
<1>c. ChainF'
  BY <1>0, <1>3, <1>5, <1>7, <1>9, <1>w, ChainStep DEF ChainF
<1>n. NrF'
  BY <1>0, <1>3, <1>8, <1>9, NrStep
<1>q. SoleStore' /\ PassedF' /\ \A n : CurrentF(n)' <=> CurrentF(n)
  <2>1. SameL({"store", "set"})
    BY <1>0, <1>3, <1>8, SameLabels
  <2>2. PassedBy' \subseteq PassedBy
    BY <1>0, <1>4, <1>5, <1>7, PassedStep
  <2> QED BY <1>0, <1>9, <2>1, <2>2, MniQuiet
<1>f. FreshF'
  <2>1. \A n : ReadPendingF(n) => ReadPendingF(n)'
    BY <1>0, <1>4, <1>7, <1>9, PendingStep
  <2> QED BY <1>0, <1>4, <1>7, <1>9, <1>q, <2>1, FreshStep DEF MniF
<1> QED BY <1>4, <1>t, <1>c, <1>n, <1>q, <1>f, MsgBehind DEF MniF

(* A task leaves its namespace.                                            *)
LEMMA Msg_exit ==
    ASSUME IInv, NEW t \in Tasks, exit(t), may' = may
    PROVE  MsgInv'
<1>0. TypeInv /\ ShapeInv /\ TaskInv /\ ChainF /\ NrF /\ MniF /\ Views /\ t \in Threads
  BY MsgBefore DEF Threads
<1>1. PICK a : a = Frame("put", nsproxy[t])
  OBVIOUS
<1>2. PICK fs : fs = <<a>>
  OBVIOUS
<1>3. Ends(t, fs)
  BY <1>1, <1>2, After_exit
<1>4. Goes(t, fs) /\ TypeInv' /\ ShapeInv'
  BY <1>0, <1>3, FramesGo DEF Ends
<1>5. /\ Len(fs) = 1
      /\ fs[1] = a /\ a.at = "put"
      /\ \A i \in 1 .. Len(fs) : fs[i] \in {a}
  BY <1>1, <1>2 DEF Frame, MkFrame
<1>7. stack[t] = <<>>
  BY DEF exit, Idle
<1>8. Touches(t, fs) \subseteq {"put"}
  BY <1>5, <1>7 DEF Touches
<1>9. UNCHANGED <<alive, nr_ipc_ns, mem, msg_ctlmni, auto_msgmni, chain, loose, work, raced, Now>>
  BY DEF exit, nsv, mniv, Now
<1>t. TaskInv'
  <2>1. nsproxy' = [nsproxy EXCEPT ![t] = NoNs]
    BY DEF exit
  <2>2. \A f \in Frames(t)' : f.at \notin Sysctl \cup {"switch", "register"}
    BY <1>4, <1>5, <1>7 DEF Goes, Sysctl
  <2>3. NoNs \notin Nss
    BY NsConstants
  <2>4. \A u \in Threads : \A f \in Frames(u) : f.at = "switch" => f.of # NoNs
    BY <1>0, <2>3, AllArgs DEF ArgsOK, NsLabels
  <2>5. nsproxy'[t] = NoNs /\ \A x \in Tasks : x # t => nsproxy'[x] = nsproxy[x]
    BY <1>0, <2>1 DEF TypeInv
  <2>6. \A u \in Threads : \A f \in Frames(u) : u # t /\ f.at = "switch" => f.of # nsproxy'[t]
    BY <2>4, <2>5
  <2> QED BY <1>0, <1>4, <2>2, <2>5, <2>6, TaskMove
<1>w. VisibleF' \subseteq VisibleF
  BY <1>0, <1>4, <1>5, <1>9, WalkedStep DEF VisibleF
<1>c. ChainF'
  BY <1>0, <1>3, <1>5, <1>7, <1>9, <1>w, ChainStep DEF ChainF
<1>n. NrF'
  BY <1>0, <1>3, <1>8, <1>9, NrStep
<1>q. SoleStore' /\ PassedF' /\ \A n : CurrentF(n)' <=> CurrentF(n)
  <2>1. SameL({"store", "set"})
    BY <1>0, <1>3, <1>8, SameLabels
  <2>2. PassedBy' \subseteq PassedBy
    BY <1>0, <1>4, <1>5, <1>7, PassedStep
  <2> QED BY <1>0, <1>9, <2>1, <2>2, MniQuiet
<1>f. FreshF'
  <2>1. \A n : ReadPendingF(n) => ReadPendingF(n)'
    BY <1>0, <1>4, <1>7, <1>9, PendingStep
  <2> QED BY <1>0, <1>4, <1>7, <1>9, <1>q, <2>1, FreshStep DEF MniF
<1> QED BY <1>4, <1>t, <1>c, <1>n, <1>q, <1>f, MsgBehind DEF MniF

-----------------------------------------------------------------------------
(* Who works on msgmni of a namespace holds it.                            *)
LEMMA WorkersHold ==
    ASSUME IInv, NEW u \in Threads, NEW f \in Frames(u),
           f.at \in Sysctl \cup {"register", "switch", "nr_inc", "msg_init_ns"}
    PROVE  f.of \in Nss /\ count[f.of] > 0 /\ f.of \in alive
<1>0. TypeInv /\ ShapeInv /\ ArgsOK(u, f) /\ RefCount /\ TaskInv
  BY AllArgs DEF IInv
<1>1. f.of \in Nss /\ u \in Tasks
  <2>1. u # kworker
    BY <1>0 DEF ArgsOK, Sysctl
  <2> QED BY <1>0, <2>1 DEF ArgsOK, NsLabels, Threads, Sysctl
<1>2. \A l, n : Frame(l, n).at = l /\ Frame(l, n).of = n
  BY DEF Frame, MkFrame
<1>3. nsproxy[u] = f.of => count[f.of] > 0
  BY <1>0, <1>1, CountParts
<1>4. Frame("switch", f.of) \in Frames(u) => count[f.of] > 0
  BY <1>2, Held
<1>5. f.at = "switch" => count[f.of] > 0
  BY Held
<1>6. f.at \in {"nr_inc", "msg_init_ns"} => count[f.of] > 0
  BY StartsOf
<1>7. count[f.of] > 0
  BY <1>0, <1>3, <1>4, <1>5, <1>6 DEF TaskInv
<1> QED BY <1>0, <1>1, <1>7 DEF RefCount

(* A namespace is allocated, of which nobody knows yet.                    *)
LEMMA Msg_create ==
    ASSUME IInv, NEW t \in Tasks, create_ipc_ns(t), may' = may
    PROVE  MsgInv'
<1>0. TypeInv /\ ShapeInv /\ TaskInv /\ ChainF /\ NrF /\ MniF /\ Views /\ t \in Threads
  BY MsgBefore DEF Threads
<1>i. PICK m \in Nss : /\ m \notin alive /\ alive' = alive \cup {m}
                       /\ Ends(t, <<Frame("nr_inc", m), Frame("msg_init_ns", m), Frame("notify", NoNs),
                                    Frame("register", m), Frame("switch", m)>>)
  BY After_create_ipc_ns
<1>j. \A l, x : Frame(l, x).at = l /\ Frame(l, x).of = x
  BY DEF Frame, MkFrame
<1>k. TypeInv /\ RefCount /\ ~(count[m] > 0)
  BY <1>i DEF IInv, RefCount
<1>1. PICK a, b, c, d, e : a = Frame("nr_inc", m) /\ b = Frame("msg_init_ns", m) /\ c = Frame("notify", NoNs) /\ d = Frame("register", m) /\ e = Frame("switch", m)
  OBVIOUS
<1>2. PICK fs : fs = <<a, b, c, d, e>>
  OBVIOUS
<1>3. Ends(t, fs)
  BY <1>1, <1>2, <1>i
<1>4. Goes(t, fs) /\ TypeInv' /\ ShapeInv'
  BY <1>0, <1>3, FramesGo DEF Ends
<1>5. /\ Len(fs) = 5
      /\ fs[1] = a /\ a.at = "nr_inc"
      /\ fs[2] = b /\ b.at = "msg_init_ns"
      /\ fs[3] = c /\ c.at = "notify"
      /\ fs[4] = d /\ d.at = "register"
      /\ fs[5] = e /\ e.at = "switch"
      /\ \A i \in 1 .. Len(fs) : fs[i] \in {a, b, c, d, e}
  BY <1>1, <1>2 DEF Frame, MkFrame
<1>7. stack[t] = <<>>
  BY DEF create_ipc_ns, Idle
<1>8. Touches(t, fs) \subseteq {"nr_inc", "msg_init_ns", "notify", "register", "switch"}
  BY <1>5, <1>7 DEF Touches
<1>9. UNCHANGED <<nsproxy, nr_ipc_ns, mem, msg_ctlmni, auto_msgmni, chain, loose, work, raced, Now>>
  BY DEF create_ipc_ns, nsv, mniv, Now
<1>l. a.of = m /\ b.of = m /\ d.of = m /\ e.of = m
  BY <1>1, <1>j
<1>m. \A u \in Threads : \A f \in Frames(u) : f.at \in {"register", "switch", "nr_inc", "msg_init_ns"} => f.of # m
  BY <1>k, WorkersHold
<1>t. TaskInv'
  <2>1. nsproxy[t] # NoNs
    BY DEF create_ipc_ns
  <2>2. m # init_ipc_ns
    BY <1>i, <1>k, CountParts
  <2>3. \A u \in Tasks : nsproxy[u] # m
    BY <1>i, <1>k, CountParts
  <2>4. \A u \in Threads : \A f \in Frames(u)' : f \in Frames(u) \/ (u = t /\ f \in {a, b, c, d, e})
    BY <1>4, <1>5 DEF Goes
  <2>5. \A u \in Threads : \A f \in Frames(u) : f \in Frames(u)'
    BY <1>4, <1>7 DEF Goes
  <2>6. e = Frame("switch", m) /\ e \in Frames(t)'
    BY <1>1, <1>4, <1>5 DEF Goes
  <2>7. ASSUME NEW u \in Threads, NEW f \in Frames(u)'
        PROVE  /\ f.at = "switch" => /\ nsproxy[u] # NoNs /\ f.of # init_ipc_ns
                                     /\ \A v \in Tasks : nsproxy[v] # f.of
               /\ f.at = "register" => nsproxy[u] = f.of \/ Frame("switch", f.of) \in Frames(u)'
               /\ f.at \in Sysctl => nsproxy[u] = f.of
    <3>1. CASE f \in Frames(u)
        BY <1>0, <2>5, <2>7, <3>1 DEF TaskInv
    <3>2. CASE f \notin Frames(u)
      <4>1. u = t /\ f \in {a, b, c, d, e}
        BY <2>4, <2>7, <3>2
      <4> QED BY <1>5, <1>l, <2>1, <2>2, <2>3, <2>6, <4>1 DEF Sysctl
    <3> QED BY <3>1, <3>2
  <2>8. ASSUME NEW u \in Threads, NEW v \in Threads, NEW n \in Nss,
               Frame("switch", n) \in Frames(u)', Frame("switch", n) \in Frames(v)'
        PROVE  u = v
    <3>1. PICK g : g = Frame("switch", n)
        OBVIOUS
    <3>2. g.at = "switch" /\ g.of = n /\ (g \in {a, b, c, d, e} => n = m)
        BY <1>5, <1>l, <1>j, <3>1
    <3>3. n = m => u = t /\ v = t
        BY <1>m, <2>4, <2>8, <3>1, <3>2
    <3>4. n # m => g \in Frames(u) /\ g \in Frames(v)
        BY <2>4, <2>8, <3>1, <3>2
    <3> QED BY <1>0, <3>1, <3>3, <3>4 DEF TaskInv
  <2> QED BY <1>9, <2>7, <2>8 DEF TaskInv
<1>w. VisibleF' \subseteq VisibleF
  BY <1>0, <1>4, <1>5, <1>9, WalkedStep DEF VisibleF
<1>c. ChainF'
  <2>1. PICK V : V = VisibleF'
    OBVIOUS
  <2>2. fs \in Seq(FrameSet) /\ Moves(t, fs)
    BY <1>3 DEF Ends
  <2>3. AboveF(V)'
    BY <1>0, <1>5, <1>7, <1>w, <2>1, <2>2, AboveStep DEF ChainF
  <2>4. AboveF(VisibleF)'
    BY <2>1, <2>3 DEF AboveF
  <2>5. \A u \in Threads : \A f \in Frames(u)' : f.at = "msg_init_ns" => f \in Frames(u) \/ f.of = m
    BY <1>4, <1>5, <1>l DEF Goes
  <2>6. m \notin VisibleF
    BY <1>0, <1>i DEF ChainF
  <2> QED BY <1>0, <1>9, <1>i, <1>w, <2>4, <2>5, <2>6 DEF ChainF
<1>n. NrF'
  <2>0. stack \in [Threads -> Seq(FrameSet)] /\ fs \in Seq(FrameSet) /\ Moves(t, fs)
    BY <1>0, <1>3 DEF TypeInv, Ends
  <2>1. \A n : n \in StartingF' <=> n \in StartingF \/ n = m
    <3>1. a \in Frames(t)' /\ a.at = "nr_inc" /\ a.of = m
        BY <1>4, <1>5, <1>l DEF Goes
    <3>2. \A u \in Threads : \A f \in Frames(u)' : f.at = "nr_inc" => f \in Frames(u) \/ f.of = m
        BY <1>4, <1>5, <1>l DEF Goes
    <3>3. \A u \in Threads : \A f \in Frames(u) : f \in Frames(u)'
        BY <1>4, <1>7 DEF Goes
    <3>4. m \in StartingF'
        BY <1>0, <1>i, <3>1 DEF StartingF
    <3>5. ASSUME NEW n \in StartingF PROVE n \in StartingF'
        BY <3>3 DEF StartingF
    <3>6. ASSUME NEW n \in StartingF', n # m PROVE n \in StartingF
        BY <3>2, <3>6 DEF StartingF
    <3> QED BY <3>4, <3>5, <3>6
  <2>2. alive' \ StartingF' = alive \ StartingF
    BY <1>i, <2>1
  <2>3. PICK D, A : D = {Frame("nr_dec", NoNs)} /\ A = {Frame("kfree", n) : n \in Nss}
    OBVIOUS
  <2>4. \A f \in D : f.at \notin Touches(t, fs)
    BY <1>8, <1>j, <2>3
  <2>5. \A f \in A : f.at \notin Touches(t, fs)
    BY <1>8, <1>j, <2>3
  <2>6. Total(D)' = Total(D)
    BY <1>0, <2>0, <2>4, Untouched
  <2>7. Total(A)' = Total(A)
    BY <1>0, <2>0, <2>5, Untouched
  <2>8. tD' = tD /\ tA' = tA
    BY <2>3, <2>6, <2>7 DEF tD, tA
  <2> QED BY <1>0, <1>9, <2>2, <2>8 DEF NrF
<1>q. SoleStore' /\ PassedF' /\ \A n : CurrentF(n)' <=> CurrentF(n)
  <2>1. SameL({"store", "set"})
    BY <1>0, <1>3, <1>8, SameLabels
  <2>2. PassedBy' \subseteq PassedBy
    <3>1. ASSUME NEW n, Frame("register", n) \in Frames(t)'
          PROVE  ~(Frames(t)' \cap {Frame("nr_inc", n), Frame("msg_init_ns", n), Frame("compute", n)} = {})
      <4>1. Frame("register", n) \in {a, b, c, d, e}
        BY <1>4, <1>5, <1>7, <3>1 DEF Goes
      <4>2. n = m
        BY <1>5, <1>l, <1>j, <4>1
      <4>3. Frame("nr_inc", n) \in Frames(t)'
        BY <1>1, <1>4, <1>5, <4>2 DEF Goes
      <4> QED BY <4>3
    <3>2. \A u \in Threads : u # t => Frames(u)' = Frames(u)
        BY <1>4 DEF Goes
    <3> QED BY <3>1, <3>2 DEF PassedBy
  <2> QED BY <1>0, <1>9, <2>1, <2>2, MniQuiet
<1>f. FreshF'
  <2>1. \A n : ReadPendingF(n) => ReadPendingF(n)'
    BY <1>0, <1>4, <1>7, <1>9, PendingStep
  <2> QED BY <1>0, <1>4, <1>7, <1>9, <1>q, <2>1, FreshStep DEF MniF
<1> QED BY <1>4, <1>t, <1>c, <1>n, <1>q, <1>f, MsgBehind DEF MniF

-----------------------------------------------------------------------------
(* A change of nr_ipc_ns or of the memory that will be told of.            *)
LEMMA TimesMove ==
    ASSUME MniF, NEW t \in Threads, NEW fs, Goes(t, fs), SameL({"store", "set"}), chain' = chain,
           raced' = raced \cup PassedBy, PassedBy' \subseteq PassedBy,
           stack[t] # <<>> => Head(stack[t]).at # "unregister",
           \A n : ReadPendingF(n)'
    PROVE  MniF'
<1>1. \A u \in Threads : \A n : StoresF(u, n)' <=> StoresF(u, n)
  BY StoresSame
<1>2. SoleStore' /\ PassedF'
  BY <1>1 DEF MniF, SoleStore, PassedF
<1>3. FreshF'
  BY FreshStep DEF MniF
<1> QED BY <1>2, <1>3 DEF MniF

(* The new namespace is counted; the chain will be notified.               *)
LEMMA Msg_nr_inc ==
    ASSUME IInv, NEW t \in Threads, nr_inc(t), may' = may
    PROVE  MsgInv'
<1>0. TypeInv /\ ShapeInv /\ TaskInv /\ ChainF /\ NrF /\ MniF /\ Views /\ t \in Threads
  BY MsgBefore DEF Threads
<1>2. PICK fs : fs = <<>>
  OBVIOUS
<1>3. Ends(t, fs)
  BY <1>2, After_nr_inc
<1>4. Goes(t, fs) /\ TypeInv' /\ ShapeInv'
  BY <1>0, <1>3, FramesGo DEF Ends
<1>5. Len(fs) = 0 /\ 1 .. Len(fs) = {}
  BY <1>2 DEF Frame, MkFrame
<1>6. HeadIs(t, "nr_inc")
  BY <1>0, Begin DEF nr_inc
<1>7. stack[t] # <<>> /\ Head(stack[t]).at = "nr_inc" /\ Head(stack[t]).of = Arg(t)
  BY <1>6 DEF HeadIs
<1>8. Touches(t, fs) \subseteq {"nr_inc"}
  BY <1>5, <1>7 DEF Touches
<1>9. UNCHANGED <<alive, nsproxy, mem, msg_ctlmni, auto_msgmni, chain, loose, work>>
  BY DEF nr_inc, nsv, mniv, Now
<1>i. PICK m : m = Arg(t)
  OBVIOUS
<1>j. /\ Head(stack[t]) \in Frames(t) /\ m \in Nss /\ Head(stack[t]) = Frame("nr_inc", m)
      /\ nr_ipc_ns' = nr_ipc_ns + 1 /\ raced' = raced \cup PassedBy
  BY <1>6, <1>i DEF HeadIs, NsLabels, nr_inc
<1>a. \A l, x : Frame(l, x).at = l /\ Frame(l, x).of = x
  BY DEF Frame, MkFrame
<1>k. /\ Frame("msg_init_ns", m) \in Frames(t) /\ Frame("notify", NoNs) \in Frames(t)
      /\ Frame("switch", m) \in Frames(t) /\ m \in alive
  BY <1>0, <1>7, <1>i, <1>j, StartsOf
<1>l. Frame("msg_init_ns", m) \in Frames(t)' /\ Frame("notify", NoNs) \in Frames(t)'
  BY <1>4, <1>7, <1>a, <1>k DEF Goes
<1>t. TaskInv'
  BY <1>0, <1>4, <1>5, <1>7, <1>9, TaskStep DEF Sysctl
<1>w. VisibleF' \subseteq VisibleF
  BY <1>0, <1>4, <1>5, <1>9, WalkedStep DEF VisibleF
<1>c. ChainF'
  BY <1>0, <1>3, <1>5, <1>7, <1>9, <1>w, ChainStep DEF ChainF
<1>n. NrF'
  <2>0. stack \in [Threads -> Seq(FrameSet)] /\ fs \in Seq(FrameSet) /\ Moves(t, fs)
    BY <1>0, <1>3 DEF TypeInv, Ends
  <2>1. \A n : n \in StartingF <=> n \in StartingF' \/ n = m
    <3>1. m \in StartingF
        BY <1>0, <1>7, <1>i, <1>j DEF StartingF
    <3>2. \A u \in Threads : \A f \in Frames(u)' : f \in Frames(u)
        BY <1>4, <1>5 DEF Goes
    <3>3. \A u \in Threads : \A f \in Frames(u) : f \in Frames(u)' \/ f.of = m
        BY <1>4, <1>7, <1>i DEF Goes
    <3> QED BY <3>1, <3>2, <3>3 DEF StartingF
  <2>2. m \notin StartingF'
    <3>1. ASSUME m \in StartingF' PROVE FALSE
      <4>1. PICK u \in Threads : \E f \in Frames(u)' : f.at = "nr_inc" /\ f.of = m
        BY <3>1 DEF StartingF
      <4>2. PICK f \in Frames(u)' : f.at = "nr_inc" /\ f.of = m
        BY <4>1
      <4>3. u # t /\ f \in Frames(u)
        BY <1>4, <1>5, <4>2 DEF Goes, Tops
      <4>4. Frame("switch", m) \in Frames(u)
        BY <4>2, <4>3, StartsOf
      <4> QED BY <1>0, <1>j, <1>k, <4>3, <4>4 DEF TaskInv
    <3> QED BY <3>1
  <2>3. alive' \ StartingF' = (alive \ StartingF) \cup {m} /\ m \notin alive \ StartingF
    BY <1>9, <1>k, <2>1, <2>2
  <2>4. IsFiniteSet(alive \ StartingF) /\ Cardinality(alive \ StartingF) \in Nat
    BY <1>0, AliveCard
  <2>5. PICK B : B = alive \ StartingF
    OBVIOUS
  <2>6. Cardinality(B \cup {m}) = Cardinality(B) + 1
    BY <2>3, <2>4, <2>5, FS_AddElement
  <2>7. PICK D, A : D = {Frame("nr_dec", NoNs)} /\ A = {Frame("kfree", n) : n \in Nss}
    OBVIOUS
  <2>8. \A f \in D : f.at \notin Touches(t, fs)
    BY <1>8, <1>a, <2>7
  <2>9. \A f \in A : f.at \notin Touches(t, fs)
    BY <1>8, <1>a, <2>7
  <2>a. Total(D)' = Total(D) /\ Total(D) \in Nat
    BY <1>0, <2>0, <2>8, Untouched, TotalPlaces
  <2>b. Total(A)' = Total(A) /\ Total(A) \in Nat
    BY <1>0, <2>0, <2>9, Untouched, TotalPlaces
  <2>c. tD' = tD /\ tA' = tA /\ tD \in Nat /\ tA \in Nat
    BY <2>7, <2>a, <2>b DEF tD, tA
  <2>d. Cardinality(alive' \ StartingF') = Cardinality(alive \ StartingF) + 1
    BY <2>3, <2>5, <2>6
  <2>e. nr_ipc_ns = Cardinality(alive \ StartingF) + tD - tA
    BY <1>0 DEF NrF
  <2>f. nr_ipc_ns' = Cardinality(alive' \ StartingF') + tD' - tA'
    BY <1>j, <2>4, <2>c, <2>d, <2>e
  <2> QED BY <2>f DEF NrF
<1>m. MniF'
  <2>1. SameL({"store", "set"})
    BY <1>0, <1>3, <1>8, SameLabels
  <2>2. PassedBy' \subseteq PassedBy
    <3>1. \A u \in Threads : u # t => Frames(u)' = Frames(u)
        BY <1>4 DEF Goes
    <3>2. ASSUME NEW n, Frame("register", n) \in Frames(t)',
                 Frames(t)' \cap {Frame("nr_inc", n), Frame("msg_init_ns", n), Frame("compute", n)} = {}
          PROVE  /\ Frame("register", n) \in Frames(t)
                 /\ Frames(t) \cap {Frame("nr_inc", n), Frame("msg_init_ns", n), Frame("compute", n)} = {}
      <4>1. \A f \in Frames(t)' : f \in Frames(t)
        BY <1>4, <1>5 DEF Goes
      <4>2. n # m
        BY <1>l, <3>2
      <4>3. \A l : Frame(l, n) \in Frames(t) => Frame(l, n) \in Frames(t)'
        BY <1>4, <1>7, <1>i, <1>a, <4>2 DEF Goes
      <4> QED BY <3>2, <4>1, <4>3
    <3> QED BY <3>1, <3>2 DEF PassedBy
  <2>3. \A n : ReadPendingF(n)'
    BY <1>0, <1>l DEF ReadPendingF
  <2> QED BY <1>0, <1>4, <1>7, <1>9, <1>j, <2>1, <2>2, <2>3, TimesMove
<1> QED BY <1>4, <1>t, <1>c, <1>n, <1>m, MsgBehind

(* A namespace is gone; the chain will be notified.                        *)
LEMMA Msg_nr_dec ==
    ASSUME IInv, NEW t \in Threads, nr_dec(t), may' = may
    PROVE  MsgInv'
<1>0. TypeInv /\ ShapeInv /\ TaskInv /\ ChainF /\ NrF /\ MniF /\ Views /\ t \in Threads
  BY MsgBefore DEF Threads
<1>2. PICK fs : fs = <<>>
  OBVIOUS
<1>3. Ends(t, fs)
  BY <1>2, After_nr_dec
<1>4. Goes(t, fs) /\ TypeInv' /\ ShapeInv'
  BY <1>0, <1>3, FramesGo DEF Ends
<1>5. Len(fs) = 0 /\ 1 .. Len(fs) = {}
  BY <1>2 DEF Frame, MkFrame
<1>6. HeadIs(t, "nr_dec")
  BY <1>0, Begin DEF nr_dec
<1>7. stack[t] # <<>> /\ Head(stack[t]).at = "nr_dec" /\ Head(stack[t]).of = Arg(t)
  BY <1>6 DEF HeadIs
<1>8. Touches(t, fs) \subseteq {"nr_dec"}
  BY <1>5, <1>7 DEF Touches
<1>9. UNCHANGED <<alive, nsproxy, mem, msg_ctlmni, auto_msgmni, chain, loose, work>>
  BY DEF nr_dec, nsv, mniv, Now
<1>j. Head(stack[t]) = Frame("nr_dec", NoNs) /\ nr_ipc_ns' = nr_ipc_ns - 1 /\ raced' = raced \cup PassedBy
  BY <1>6 DEF HeadIs, nr_dec
<1>a. \A l, x : Frame(l, x).at = l /\ Frame(l, x).of = x
  BY DEF Frame, MkFrame
<1>l. Frame("notify", NoNs) \in Frames(t)'
  <2>1. Shape(t, 1) /\ Head(stack[t]) = stack[t][1] /\ DOMAIN stack[t] = 1 .. Len(stack[t]) /\ Len(stack[t]) \in Nat
    BY <1>0, <1>7, HeadFacts
  <2>2. 1 < Len(stack[t]) /\ stack[t][1 + 1] = Frame("notify", NoNs)
    BY <1>7, <2>1 DEF Shape
  <2>3. Frame("notify", NoNs) \in Frames(t)
    BY <2>1, <2>2 DEF Frames
  <2> QED BY <1>4, <1>7, <1>a, <2>3 DEF Goes
<1>t. TaskInv'
  BY <1>0, <1>4, <1>5, <1>7, <1>9, TaskStep DEF Sysctl
<1>w. VisibleF' \subseteq VisibleF
  BY <1>0, <1>4, <1>5, <1>9, WalkedStep DEF VisibleF
<1>c. ChainF'
  BY <1>0, <1>3, <1>5, <1>7, <1>9, <1>w, ChainStep DEF ChainF
<1>n. NrF'
  <2>0. stack \in [Threads -> Seq(FrameSet)] /\ fs \in Seq(FrameSet) /\ Moves(t, fs)
    BY <1>0, <1>3 DEF TypeInv, Ends
  <2>1. SameL({"nr_inc"})
    BY <1>0, <1>3, <1>8, SameLabels
  <2>2. StartingF' = StartingF
    BY <2>1 DEF StartingF, SameL
  <2>3. Cardinality(alive \ StartingF) \in Nat
    BY <1>0, AliveCard
  <2>7. PICK D, A : D = {Frame("nr_dec", NoNs)} /\ A = {Frame("kfree", n) : n \in Nss}
    OBVIOUS
  <2>8. Head(stack[t]) \in D /\ Times(fs, D) = 0
    <3>1. Frame("notify", NoNs) \in FrameSet
        BY PlainFrames, <1>0
    <3> QED BY <1>2, <1>j, <2>7, <3>1, TimesFrames
  <2>9. \A f \in A : f.at \notin Touches(t, fs)
    BY <1>8, <1>a, <2>7
  <2>a. Total(D)' = Total(D) - 1 /\ Total(D) \in Nat
    <3>1. In(Head(stack[t]), D) = 1
        BY <2>8 DEF In
    <3>2. Total(D)' = Total(D) + Times(fs, D) - In(Head(stack[t]), D) /\ Total(D) \in Nat
        BY <1>0, <1>7, <2>0, Deltas
    <3> QED BY <2>8, <3>1, <3>2
  <2>b. Total(A)' = Total(A) /\ Total(A) \in Nat
    BY <1>0, <2>0, <2>9, Untouched, TotalPlaces
  <2>c. tD' = tD - 1 /\ tA' = tA /\ tD \in Nat /\ tA \in Nat
    BY <2>7, <2>a, <2>b DEF tD, tA
  <2> QED BY <1>0, <1>9, <1>j, <2>2, <2>3, <2>c DEF NrF
<1>m. MniF'
  <2>1. SameL({"store", "set"})
    BY <1>0, <1>3, <1>8, SameLabels
  <2>2. PassedBy' \subseteq PassedBy
    BY <1>0, <1>4, <1>5, <1>7, PassedStep
  <2>3. \A n : ReadPendingF(n)'
    BY <1>0, <1>l DEF ReadPendingF
  <2> QED BY <1>0, <1>4, <1>7, <1>9, <1>j, <2>1, <2>2, <2>3, TimesMove
<1> QED BY <1>4, <1>t, <1>c, <1>n, <1>m, MsgBehind

(* A step that leaves an idle task idle.                                   *)
LEMMA StaysIdle ==
    ASSUME TypeInv, NEW t \in Threads, stack[t] = <<>>, stack' = stack, TypeInv', ShapeInv'
    PROVE  Ends(t, <<>>) /\ Touches(t, <<>>) = {}
<1>1. stack \in [Threads -> Seq(FrameSet)]
  BY DEF TypeInv
<1>2. stack' = [stack EXCEPT ![t] = <<>>]
  BY <1>1
<1>3. <<>> \in Seq(FrameSet) /\ 1 .. Len(<<>>) = {}
  OBVIOUS
<1>4. Moves(t, <<>>)
  BY <1>2 DEF Moves
<1>5. Touches(t, <<>>) = {}
  BY <1>3 DEF Touches
<1> QED BY <1>3, <1>4, <1>5 DEF Ends

(* A short write: the namespace stays on the chain, with a wrong msgmni.   *)
LEMMA Msg_short_write ==
    ASSUME IInv, NEW t \in Tasks, sysctl_msgmni(t), may' = may, TypeInv', stack' = stack,
           raced' = raced \cup {nsproxy[t]}
    PROVE  MsgInv'
<1>0. TypeInv /\ ShapeInv /\ TaskInv /\ ChainF /\ NrF /\ MniF /\ Views /\ t \in Threads
  BY MsgBefore DEF Threads
<1>i. PICK m : m = nsproxy[t]
  OBVIOUS
<1>j. m \in Nss /\ raced' = raced \cup {m} /\ msg_ctlmni' = [msg_ctlmni EXCEPT ![m] = ByHand]
  BY <1>i, After_sysctl_msgmni DEF sysctl_msgmni
<1>k. \A n : n # m => msg_ctlmni'[n] = msg_ctlmni[n]
  BY <1>0, <1>j DEF TypeInv
<1>2. PICK fs : fs = <<>>
  OBVIOUS
<1>7. stack[t] = <<>>
  BY DEF sysctl_msgmni, Idle
<1>s. ShapeInv'
  BY <1>0 DEF ShapeInv, Shape, Below
<1>3. Ends(t, fs) /\ Touches(t, fs) = {}
  BY <1>0, <1>2, <1>7, <1>s, StaysIdle
<1>4. Goes(t, fs) /\ 1 .. Len(fs) = {}
  BY <1>0, <1>2, <1>3, FramesGo
<1>9. UNCHANGED <<alive, nsproxy, nr_ipc_ns, mem, chain, loose, work, Now>>
  BY DEF sysctl_msgmni, nsv, Now
<1>t. TaskInv'
  BY <1>0, <1>4, <1>7, <1>9, TaskStep
<1>w. VisibleF' \subseteq VisibleF
  BY <1>0, <1>4, <1>9, WalkedStep DEF VisibleF
<1>c. ChainF'
  BY <1>0, <1>3, <1>4, <1>7, <1>9, <1>w, ChainStep DEF ChainF
<1>n. NrF'
  BY <1>0, <1>3, <1>9, NrStep
<1>q. SoleStore' /\ PassedF' /\ \A n : n # m => (CurrentF(n)' <=> CurrentF(n))
  <2>1. SameL({"store", "set"})
    BY <1>0, <1>3, SameLabels
  <2>2. PassedBy' \subseteq PassedBy
    BY <1>0, <1>4, <1>7, PassedStep
  <2>3. /\ \A u \in Threads : \A n : StoresF(u, n)' <=> StoresF(u, n)
        /\ \A n : n # m => (CurrentF(n)' <=> CurrentF(n))
    BY <1>9, <1>k, <2>1, StoresSame
  <2> QED BY <1>0, <1>j, <2>2, <2>3 DEF MniF, SoleStore, PassedF
<1>f. FreshF'
  <2>1. \A n : ReadPendingF(n) => ReadPendingF(n)'
    BY <1>0, <1>4, <1>7, <1>9, PendingStep
  <2> QED BY <1>0, <1>4, <1>7, <1>9, <1>j, <1>q, <2>1, FreshStep DEF MniF
<1> QED BY <1>3, <1>s, <1>t, <1>c, <1>n, <1>q, <1>f, MsgBehind DEF MniF

(* Memory comes or goes; the work is queued.                               *)
LEMMA Msg_hotplug ==
    ASSUME IInv, NEW t \in Tasks, hotplug(t), may' = may
    PROVE  MsgInv'
<1>0. TypeInv /\ ShapeInv /\ TaskInv /\ ChainF /\ NrF /\ MniF /\ Views /\ t \in Threads
  BY MsgBefore DEF Threads
<1>i. Ends(t, <<>>)
  <2>1. stack' = stack /\ stack[t] = <<>>
    BY DEF hotplug, Idle
  <2>2. TypeInv' /\ ShapeInv'
    BY <2>1, After_rest
  <2> QED BY <1>0, <2>1, <2>2, StaysIdle
<1>2. PICK fs : fs = <<>>
  OBVIOUS
<1>3. Ends(t, fs)
  BY <1>2, <1>i
<1>4. Goes(t, fs) /\ TypeInv' /\ ShapeInv'
  BY <1>0, <1>3, FramesGo DEF Ends
<1>5. Len(fs) = 0 /\ 1 .. Len(fs) = {}
  BY <1>2 DEF Frame, MkFrame
<1>7. stack[t] = <<>>
  BY DEF hotplug, Idle
<1>8. Touches(t, fs) \subseteq {}
  BY <1>5, <1>7 DEF Touches
<1>9. UNCHANGED <<alive, nsproxy, nr_ipc_ns, msg_ctlmni, auto_msgmni, chain, loose>>
  BY DEF hotplug, nsv, mniv, Now
<1>t. TaskInv'
  BY <1>0, <1>4, <1>5, <1>7, <1>9, TaskStep DEF Sysctl
<1>w. VisibleF' \subseteq VisibleF
  BY <1>0, <1>4, <1>5, <1>9, WalkedStep DEF VisibleF
<1>c. ChainF'
  BY <1>0, <1>3, <1>5, <1>7, <1>9, <1>w, ChainStep DEF ChainF
<1>n. NrF'
  BY <1>0, <1>3, <1>8, <1>9, NrStep
<1>m. MniF'
  <2>1. SameL({"store", "set"})
    BY <1>0, <1>3, <1>8, SameLabels
  <2>2. PassedBy' \subseteq PassedBy
    BY <1>0, <1>4, <1>5, <1>7, PassedStep
  <2>3. work' /\ raced' = raced \cup PassedBy
    BY DEF hotplug
  <2>4. \A n : ReadPendingF(n)'
    BY <2>3 DEF ReadPendingF
  <2> QED BY <1>0, <1>4, <1>7, <1>9, <2>1, <2>2, <2>3, <2>4, TimesMove
<1> QED BY <1>4, <1>t, <1>c, <1>n, <1>m, MsgBehind

-----------------------------------------------------------------------------
(* Nobody walks the chain: it may change.                                  *)
LEMMA PendingUnwalked ==
    ASSUME NEW t \in Threads, NEW fs, Goes(t, fs), work => work',
           \A u \in Threads : \A f \in Frames(u) : f.at \notin {"walk", "store", "oops"},
           stack[t] # <<>> => Head(stack[t]).at \notin {"notify", "compute"}
    PROVE  \A n : ReadPendingF(n) => ReadPendingF(n)'
<1>1. \A l, n : Frame(l, n).at = l
  BY DEF Frame, MkFrame
<1>2. \A u \in Threads : \A f \in Frames(u) : f.at \in {"notify", "compute"} => f \in Frames(u)'
  BY DEF Goes
<1>3. \A u \in Threads : \A n : ~ApproachesF(u, n)
  BY DEF ApproachesF
<1>4. \A u \in Threads : \A n : /\ Frame("notify", NoNs) \in Frames(u) => Frame("notify", NoNs) \in Frames(u)'
                                /\ Frame("compute", n) \in Frames(u) => Frame("compute", n) \in Frames(u)'
  BY <1>1, <1>2
<1> QED BY <1>3, <1>4 DEF ReadPendingF

(* A namespace is computed first of all.                                   *)
LEMMA InitFirst ==
    ASSUME TypeInv, ShapeInv, NEW u \in Threads, NEW f \in Frames(u), f.at = "msg_init_ns"
    PROVE  stack[u] # <<>> /\ Head(stack[u]).at \in {"nr_inc", "msg_init_ns"}
<1>1. PICK i \in DOMAIN stack[u] : stack[u][i] = f
  BY DEF Frames
<1>2. stack[u] \in Seq(FrameSet) /\ stack[u] # <<>> /\ Head(stack[u]) = stack[u][1]
  BY <1>1 DEF TypeInv
<1>3. i = 1 \/ (i = 2 /\ stack[u][1] = Frame("nr_inc", f.of))
  BY <1>1 DEF ShapeInv, Shape
<1>4. Frame("nr_inc", f.of).at = "nr_inc"
  BY DEF Frame, MkFrame
<1> QED BY <1>1, <1>2, <1>3, <1>4

(* A namespace goes that nobody can come to.                               *)
LEMMA Msg_kfree ==
    ASSUME IInv, NEW t \in Threads, kfree_ns(t), may' = may
    PROVE  MsgInv'
<1>0. TypeInv /\ ShapeInv /\ TaskInv /\ ChainF /\ NrF /\ MniF /\ Views /\ t \in Threads
  BY MsgBefore DEF Threads
<1>2. PICK fs : fs = <<>>
  OBVIOUS
<1>3. Ends(t, fs)
  BY <1>2, After_kfree_ns
<1>4. Goes(t, fs) /\ TypeInv' /\ ShapeInv'
  BY <1>0, <1>3, FramesGo DEF Ends
<1>5. Len(fs) = 0 /\ 1 .. Len(fs) = {}
  BY <1>2 DEF Frame, MkFrame
<1>6. HeadIs(t, "kfree")
  BY <1>0, Begin DEF kfree_ns
<1>7. stack[t] # <<>> /\ Head(stack[t]).at = "kfree" /\ Head(stack[t]).of = Arg(t)
  BY <1>6 DEF HeadIs
<1>8. Touches(t, fs) \subseteq {"kfree"}
  BY <1>5, <1>7 DEF Touches
<1>9. UNCHANGED <<nsproxy, nr_ipc_ns, mem, auto_msgmni, chain, loose, work, Now>>
  BY DEF kfree_ns, nsv, mniv, Now
<1>i. PICK m : m = Arg(t)
  OBVIOUS
<1>j. /\ Head(stack[t]) \in Frames(t) /\ m \in Nss /\ Head(stack[t]) = Frame("kfree", m)
      /\ alive' = alive \ {m} /\ msg_ctlmni' = [msg_ctlmni EXCEPT ![m] = ByHand] /\ raced' = raced \ {m}
  BY <1>6, <1>i DEF HeadIs, NsLabels, kfree_ns
<1>a. \A l, x : Frame(l, x).at = l /\ Frame(l, x).of = x
  BY DEF Frame, MkFrame
<1>k. m \in alive /\ count[m] = 0
  BY <1>0, <1>7, <1>i, <1>j, Doomed
<1>l. m \notin VisibleF
  <2>1. 1 \in DOMAIN stack[t] /\ DOMAIN stack[t] = 1 .. Len(stack[t]) /\ Head(stack[t]) = stack[t][1]
    BY <1>0, <1>7, HeadFacts
  <2>2. m \in VisibleF => Above(t, 1, {Frame("unregister", stack[t][1].of)})
    BY <1>0, <1>7, <1>i, <2>1 DEF ChainF, AboveF
  <2>3. \A S : ~Above(t, 1, S)
    BY <2>1 DEF Above
  <2> QED BY <2>2, <2>3
<1>x. \A u \in Threads : \A f \in Frames(u) : f.at \in {"register", "set", "nr_inc"} => f.of # m
  BY <1>k, WorkersHold DEF Sysctl
<1>y. \A u \in Threads : ~StoresF(u, m)
  <2>1. \A u \in Threads : \A f \in Frames(u) : f.at = "store" => f.of # m
    BY <1>j, <1>l DEF VisibleF, WalkedF
  <2> QED BY <1>x, <2>1 DEF StoresF
<1>t. TaskInv'
  BY <1>0, <1>4, <1>5, <1>7, <1>9, TaskStep DEF Sysctl
<1>w. VisibleF' \subseteq VisibleF
  BY <1>0, <1>4, <1>5, <1>9, WalkedStep DEF VisibleF
<1>c. ChainF'
  <2>1. PICK V : V = VisibleF'
    OBVIOUS
  <2>2. fs \in Seq(FrameSet) /\ Moves(t, fs)
    BY <1>3 DEF Ends
  <2>3. AboveF(V)'
    BY <1>0, <1>5, <1>7, <1>w, <2>1, <2>2, AboveStep DEF ChainF
  <2>4. AboveF(VisibleF)'
    BY <2>1, <2>3 DEF AboveF
  <2>5. \A u \in Threads : \A f \in Frames(u)' : f \in Frames(u)
    BY <1>4, <1>5 DEF Goes
  <2> QED BY <1>0, <1>9, <1>j, <1>l, <1>w, <2>4, <2>5 DEF ChainF
<1>n. NrF'
  <2>0. stack \in [Threads -> Seq(FrameSet)] /\ fs \in Seq(FrameSet) /\ Moves(t, fs)
    BY <1>0, <1>3 DEF TypeInv, Ends
  <2>1. SameL({"nr_inc"})
    BY <1>0, <1>3, <1>8, SameLabels
  <2>2. StartingF' = StartingF
    BY <2>1 DEF StartingF, SameL
  <2>3. m \notin StartingF
    BY <1>x DEF StartingF
  <2>4. IsFiniteSet(alive \ StartingF) /\ Cardinality(alive \ StartingF) \in Nat
    BY <1>0, AliveCard
  <2>5. PICK B : B = alive \ StartingF
    OBVIOUS
  <2>6. alive' \ StartingF' = B \ {m} /\ m \in B
    BY <1>j, <1>k, <2>2, <2>3, <2>5
  <2>7. Cardinality(B \ {m}) = Cardinality(B) - 1
    BY <2>4, <2>5, <2>6, FS_RemoveElement
  <2>8. PICK D, A : D = {Frame("nr_dec", NoNs)} /\ A = {Frame("kfree", n) : n \in Nss}
    OBVIOUS
  <2>9. Head(stack[t]) \in A /\ Times(fs, A) = 0
    <3>1. Frame("notify", NoNs) \in FrameSet
        BY PlainFrames, <1>0
    <3> QED BY <1>2, <1>j, <2>8, <3>1, TimesFrames
  <2>a. Total(A)' = Total(A) - 1 /\ Total(A) \in Nat
    <3>1. In(Head(stack[t]), A) = 1
        BY <2>9 DEF In
    <3>2. Total(A)' = Total(A) + Times(fs, A) - In(Head(stack[t]), A) /\ Total(A) \in Nat
        BY <1>0, <1>7, <2>0, Deltas
    <3> QED BY <2>9, <3>1, <3>2
  <2>b. \A f \in D : f.at \notin Touches(t, fs)
    BY <1>8, <1>a, <2>8
  <2>c. Total(D)' = Total(D) /\ Total(D) \in Nat
    BY <1>0, <2>0, <2>b, Untouched, TotalPlaces
  <2>d. tD' = tD /\ tA' = tA - 1 /\ tD \in Nat /\ tA \in Nat
    BY <2>8, <2>a, <2>c DEF tD, tA
  <2>e. Cardinality(alive' \ StartingF') = Cardinality(alive \ StartingF) - 1
    BY <2>5, <2>6, <2>7
  <2>f. nr_ipc_ns = Cardinality(alive \ StartingF) + tD - tA
    BY <1>0 DEF NrF
  <2>g. nr_ipc_ns' = Cardinality(alive' \ StartingF') + tD' - tA'
    BY <1>9, <2>4, <2>d, <2>e, <2>f
  <2> QED BY <2>g DEF NrF
<1>b. /\ \A u \in Threads : \A n : StoresF(u, n)' <=> StoresF(u, n)
      /\ \A n : n # m => (CurrentF(n)' <=> CurrentF(n))
  <2>1. SameL({"store", "set"})
    BY <1>0, <1>3, <1>8, SameLabels
  <2>2. \A n : n # m => msg_ctlmni'[n] = msg_ctlmni[n]
    BY <1>0, <1>j DEF TypeInv
  <2> QED BY <1>9, <2>1, <2>2, StoresSame
<1>q. SoleStore' /\ PassedF'
  <2>1. PassedBy' \subseteq PassedBy
    BY <1>0, <1>4, <1>5, <1>7, PassedStep
  <2>2. m \notin PassedBy
    BY <1>a, <1>x DEF PassedBy
  <2>3. SoleStore'
    BY <1>0, <1>b, <1>j, <1>y DEF MniF, SoleStore
  <2>4. PassedF'
    BY <1>0, <1>b, <1>j, <2>1, <2>2 DEF MniF, PassedF
  <2> QED BY <2>3, <2>4
<1>f. FreshF'
  <2>1. m \notin ToSet(chain)
    BY <1>l DEF VisibleF
  <2>2. \A n : ReadPendingF(n) => ReadPendingF(n)'
    BY <1>0, <1>4, <1>7, <1>9, PendingStep
  <2> QED BY <1>0, <1>4, <1>7, <1>9, <1>b, <1>j, <2>1, <2>2, FreshStep DEF MniF
<1> QED BY <1>4, <1>t, <1>c, <1>n, <1>q, <1>f, MsgBehind DEF MniF

(* A namespace leaves the chain, which nobody walks.                       *)
LEMMA Msg_unregister ==
    ASSUME IInv, NEW t \in Threads, unregister_ipcns_notifier(t), may' = may
    PROVE  MsgInv'
<1>0. TypeInv /\ ShapeInv /\ TaskInv /\ ChainF /\ NrF /\ MniF /\ Views /\ t \in Threads
  BY MsgBefore DEF Threads
<1>1. PICK a : a = Frame("flag_off", Arg(t))
  OBVIOUS
<1>2. PICK fs : fs = <<a>>
  OBVIOUS
<1>3. Ends(t, fs)
  BY <1>1, <1>2, After_unregister_ipcns_notifier
<1>4. Goes(t, fs) /\ TypeInv' /\ ShapeInv'
  BY <1>0, <1>3, FramesGo DEF Ends
<1>5. /\ Len(fs) = 1
      /\ fs[1] = a /\ a.at = "flag_off"
      /\ \A i \in 1 .. Len(fs) : fs[i] \in {a}
  BY <1>1, <1>2 DEF Frame, MkFrame
<1>6. HeadIs(t, "unregister")
  BY <1>0, Begin DEF unregister_ipcns_notifier
<1>7. stack[t] # <<>> /\ Head(stack[t]).at = "unregister" /\ Head(stack[t]).of = Arg(t)
  BY <1>6 DEF HeadIs
<1>8. Touches(t, fs) \subseteq {"flag_off", "unregister"}
  BY <1>5, <1>7 DEF Touches
<1>9. UNCHANGED <<alive, nsproxy, nr_ipc_ns, mem, msg_ctlmni, work, raced, Now>>
  BY DEF unregister_ipcns_notifier, nsv, mniv, Now
<1>i. PICK m : m = Arg(t)
  OBVIOUS
<1>j. /\ m \in Nss /\ Head(stack[t]) = Frame("unregister", m) /\ chain' = RemoveFirst(chain, m)
      /\ loose' = loose \ {m}
  BY <1>6, <1>i DEF HeadIs, NsLabels, unregister_ipcns_notifier
<1>k. \A u \in Threads : \A f \in Frames(u) : f.at \notin {"walk", "store", "oops"}
  BY <1>0 DEF Views, unregister_ipcns_notifier
<1>l. IsInjective(chain') /\ ToSet(chain') = ToSet(chain) \ {m}
  <2>1. chain \in Seq(Nss) /\ IsInjective(chain)
    BY <1>0 DEF TypeInv, ChainF
  <2> QED BY <1>j, <2>1, RemoveFirstEntries
<1>x. WalkedF' = {}
  <2>1. WalkedF = {}
    BY <1>k DEF WalkedF
  <2> QED BY <1>0, <1>4, <1>5, <2>1, WalkedStep
<1>t. TaskInv'
  BY <1>0, <1>4, <1>5, <1>7, <1>9, TaskStep DEF Sysctl
<1>w. VisibleF' \subseteq VisibleF /\ m \notin VisibleF'
  BY <1>j, <1>l, <1>x DEF VisibleF
<1>c. ChainF'
  BY <1>0, <1>3, <1>5, <1>7, <1>9, <1>i, <1>l, <1>w, ChainStep
<1>n. NrF'
  BY <1>0, <1>3, <1>8, <1>9, NrStep
<1>q. SoleStore' /\ PassedF' /\ \A n : CurrentF(n)' <=> CurrentF(n)
  <2>1. SameL({"store", "set"})
    BY <1>0, <1>3, <1>8, SameLabels
  <2>2. PassedBy' \subseteq PassedBy
    BY <1>0, <1>4, <1>5, <1>7, PassedStep
  <2> QED BY <1>0, <1>9, <2>1, <2>2, MniQuiet
<1>f. FreshF'
  <2>1. \A l, n : Frame(l, n).at = l /\ Frame(l, n).of = n
    BY DEF Frame, MkFrame
  <2>2. \A n : n # m /\ Unregistering(n) => Unregistering(n)'
    BY <1>0, <1>4, <1>7, <1>i, <2>1, RegisterStep
  <2>3. \A n : ReadPendingF(n) => ReadPendingF(n)'
    BY <1>0, <1>4, <1>7, <1>9, <1>k, PendingUnwalked
  <2> QED BY <1>0, <1>9, <1>j, <1>l, <1>q, <2>2, <2>3 DEF MniF, FreshF
<1> QED BY <1>4, <1>t, <1>c, <1>n, <1>q, <1>f, MsgBehind DEF MniF

-----------------------------------------------------------------------------
(* Only the namespace of the step may come to be passed by.                *)
LEMMA PassedOne ==
    ASSUME NEW t \in Threads, NEW fs, Goes(t, fs), stack[t] # <<>>, NEW m, Head(stack[t]).of = m,
           \A i \in 1 .. Len(fs) : fs[i].at # "register"
    PROVE  PassedBy' \subseteq PassedBy \cup {m}
<1>1. \A l, n : Frame(l, n).at = l /\ Frame(l, n).of = n
  BY DEF Frame, MkFrame
<1>2. ASSUME NEW u \in Threads, NEW n, n # m,
             Frame("register", n) \in Frames(u)',
             Frames(u)' \cap {Frame("nr_inc", n), Frame("msg_init_ns", n), Frame("compute", n)} = {}
      PROVE  /\ Frame("register", n) \in Frames(u)
             /\ Frames(u) \cap {Frame("nr_inc", n), Frame("msg_init_ns", n), Frame("compute", n)} = {}
  <2>1. Frame("register", n) \in Frames(u)
    BY <1>1, <1>2 DEF Goes
  <2>2. ASSUME NEW l, Frame(l, n) \in Frames(u)
        PROVE  Frame(l, n) \in Frames(u)'
    BY <1>1, <1>2, <2>2 DEF Goes
  <2> QED BY <1>2, <2>1, <2>2
<1> QED BY <1>2 DEF PassedBy

(* A computed msgmni is stored.                                            *)
LEMMA StoreLands ==
    ASSUME TypeInv, ShapeInv, SoleStore, NEW t \in Threads, NEW fs, Goes(t, fs), NEW m \in Nss,
           stack[t] # <<>>, Head(stack[t]) \in Frames(t), Head(stack[t]).at \in {"store", "set"}, Head(stack[t]).of = m,
           \A i \in 1 .. Len(fs) : fs[i].at \notin {"store", "set"},
           Now' = Now, raced' = raced, msg_ctlmni' = [msg_ctlmni EXCEPT ![m] = Head(stack[t]).mni]
    PROVE  SoleStore' /\ \A n \in Nss \ raced : CurrentF(n) => CurrentF(n)'
<1>1. \A u \in Threads : \A f \in Frames(u)' : f.at \in {"store", "set"} => f \in Frames(u) /\ u # t
  BY DEF Goes, Tops
<1>2. \A u \in Threads : \A n : StoresF(u, n)' => StoresF(u, n) /\ u # t
  BY <1>1 DEF StoresF
<1>3. SoleStore'
  BY <1>2 DEF SoleStore
<1>4. ASSUME m \notin raced, CurrentF(m) PROVE CurrentF(m)'
  <2>1. StoresF(t, m)
    BY DEF StoresF
  <2>2. \A u \in Threads : ~StoresF(u, m)'
    BY <1>2, <1>4, <2>1 DEF SoleStore
  <2>3. Head(stack[t]).mni = Now
    BY <1>4 DEF CurrentF
  <2>4. msg_ctlmni'[m] = Head(stack[t]).mni
    BY DEF TypeInv
  <2>5. \A u \in Threads : \A f \in Frames(u)' : ~(f.at \in {"store", "set"} /\ f.of = m)
    BY <2>2 DEF StoresF
  <2> QED BY <2>3, <2>4, <2>5 DEF CurrentF
<1>5. ASSUME NEW n \in Nss, n # m, CurrentF(n) PROVE CurrentF(n)'
  <2>1. msg_ctlmni'[n] = msg_ctlmni[n]
    BY <1>5 DEF TypeInv
  <2>2. \A u \in Threads : \A f \in Frames(u) : f.of = n => f \in Frames(u)'
    BY <1>5 DEF Goes
  <2>3. \A u \in Threads : StoresF(u, n) => StoresF(u, n)'
    BY <2>2 DEF StoresF
  <2>4. \A u \in Threads : \A f \in Frames(u)' : f.at \in {"store", "set"} /\ f.of = n => f.mni = Now'
    BY <1>1, <1>5 DEF CurrentF
  <2>5. (\A u \in Threads : ~StoresF(u, n)') => msg_ctlmni'[n] = Now'
    BY <1>5, <2>1, <2>3 DEF CurrentF
  <2> QED BY <2>4, <2>5 DEF CurrentF
<1> QED BY <1>3, <1>4, <1>5

(* A msgmni is computed, from the present values.                          *)
LEMMA ReadsNow ==
    ASSUME TypeInv, ShapeInv, SoleStore, NEW t \in Threads, NEW fs, Goes(t, fs), NEW m \in Nss, NEW a,
           stack[t] # <<>>, Head(stack[t]).at \notin {"store", "set"},
           a \in Frames(t)', a.at \in {"store", "set"}, a.of = m, a.mni = Now,
           \A i \in 1 .. Len(fs) : fs[i] = a,
           Now' = Now, msg_ctlmni' = msg_ctlmni,
           raced \subseteq raced', raced' \subseteq raced \cup {m},
           \A u \in Threads : StoresF(u, m) => m \in raced'
    PROVE  /\ SoleStore' /\ raced \subseteq raced'
           /\ m \notin raced' => CurrentF(m)'
           /\ \A n : n # m => (CurrentF(n)' <=> CurrentF(n))
<1>1. \A u \in Threads : \A f \in Frames(u)' : f.at \in {"store", "set"} => f \in Frames(u) \/ (u = t /\ f = a)
  BY DEF Goes
<1>2. \A u \in Threads : \A f \in Frames(u) : f.at \in {"store", "set"} => f \in Frames(u)'
  BY DEF Goes
<1>3. \A u \in Threads : \A n : n # m => (StoresF(u, n)' <=> StoresF(u, n))
  BY <1>1, <1>2 DEF StoresF
<1>4. ASSUME m \notin raced' PROVE \A u \in Threads : ~StoresF(u, m) /\ (StoresF(u, m)' => u = t)
  BY <1>1, <1>4 DEF StoresF
<1>5. SoleStore'
  BY <1>3, <1>4 DEF SoleStore
<1>6. ASSUME m \notin raced' PROVE CurrentF(m)'
  <2>1. \A u \in Threads : \A f \in Frames(u)' : f.at \in {"store", "set"} /\ f.of = m => f.mni = Now'
    BY <1>1, <1>4, <1>6 DEF StoresF
  <2>2. StoresF(t, m)'
    BY DEF StoresF
  <2> QED BY <2>1, <2>2 DEF CurrentF
<1>7. ASSUME NEW n, n # m PROVE CurrentF(n)' <=> CurrentF(n)
  <2>1. (\A u \in Threads : \A f \in Frames(u) : f.at \in {"store", "set"} /\ f.of = n => f.mni = Now)'
        <=> (\A u \in Threads : \A f \in Frames(u) : f.at \in {"store", "set"} /\ f.of = n => f.mni = Now)
    BY <1>1, <1>2, <1>7
  <2> QED BY <1>3, <1>7, <2>1 DEF CurrentF
<1> QED BY <1>5, <1>6, <1>7

(* The caller stores its msgmni.                                           *)
LEMMA Msg_compute_set ==
    ASSUME IInv, NEW t \in Threads, compute_set(t), may' = may
    PROVE  MsgInv'
<1>0. TypeInv /\ ShapeInv /\ TaskInv /\ ChainF /\ NrF /\ MniF /\ Views /\ t \in Threads
  BY MsgBefore DEF Threads
<1>2. PICK fs : fs = <<>>
  OBVIOUS
<1>3. Ends(t, fs)
  BY <1>2, After_compute_set
<1>4. Goes(t, fs) /\ TypeInv' /\ ShapeInv'
  BY <1>0, <1>3, FramesGo DEF Ends
<1>5. Len(fs) = 0 /\ 1 .. Len(fs) = {}
  BY <1>2 DEF Frame, MkFrame
<1>6. HeadIs(t, "set")
  BY <1>0, Begin DEF compute_set
<1>7. stack[t] # <<>> /\ Head(stack[t]).at = "set" /\ Head(stack[t]).of = Arg(t)
  BY <1>6 DEF HeadIs
<1>8. Touches(t, fs) \subseteq {"set"}
  BY <1>5, <1>7 DEF Touches
<1>9. UNCHANGED <<alive, nsproxy, nr_ipc_ns, mem, auto_msgmni, chain, loose, work, raced, Now>>
  BY DEF compute_set, nsv, mniv, Now
<1>i. PICK m : m = Arg(t)
  OBVIOUS
<1>j. /\ m \in Nss /\ Head(stack[t]) \in Frames(t) /\ Head(stack[t]).of = m
      /\ msg_ctlmni' = [msg_ctlmni EXCEPT ![m] = Head(stack[t]).mni]
  BY <1>6, <1>i DEF HeadIs, NsLabels, compute_set
<1>t. TaskInv'
  BY <1>0, <1>4, <1>5, <1>7, <1>9, TaskStep DEF Sysctl
<1>w. VisibleF' \subseteq VisibleF
  BY <1>0, <1>4, <1>5, <1>9, WalkedStep DEF VisibleF
<1>c. ChainF'
  BY <1>0, <1>3, <1>5, <1>7, <1>9, <1>w, ChainStep DEF ChainF
<1>n. NrF'
  BY <1>0, <1>3, <1>8, <1>9, NrStep
<1>k. SoleStore' /\ \A n \in Nss \ raced : CurrentF(n) => CurrentF(n)'
  BY <1>0, <1>4, <1>5, <1>7, <1>9, <1>j, StoreLands DEF MniF
<1>q. SoleStore' /\ PassedF'
  <2>1. PassedBy' \subseteq PassedBy /\ PassedBy \subseteq Nss
    BY <1>0, <1>4, <1>5, <1>7, PassedStep DEF PassedBy
  <2> QED BY <1>0, <1>9, <1>k, <2>1 DEF MniF, PassedF
<1>f. FreshF'
  <2>1. \A n : ReadPendingF(n) => ReadPendingF(n)'
    BY <1>0, <1>4, <1>7, <1>9, PendingStep
  <2>2. ToSet(chain) \subseteq Nss
    BY <1>0 DEF TypeInv, ToSet
  <2> QED BY <1>0, <1>4, <1>7, <1>9, <1>k, <2>1, <2>2, FreshStep DEF MniF
<1> QED BY <1>4, <1>t, <1>c, <1>n, <1>q, <1>f, MsgBehind DEF MniF

(* A walker stores, at the end of the chain.                               *)
LEMMA Msg_store_end ==
    ASSUME IInv, NEW t \in Threads, callback_store(t), may' = may, Head(stack[t]).next = NoNs
    PROVE  MsgInv'
<1>0. TypeInv /\ ShapeInv /\ TaskInv /\ ChainF /\ NrF /\ MniF /\ Views /\ t \in Threads
  BY MsgBefore DEF Threads
<1>2. PICK fs : fs = <<>>
  OBVIOUS
<1>3. Ends(t, fs)
  BY <1>2, After_callback_store
<1>4. Goes(t, fs) /\ TypeInv' /\ ShapeInv'
  BY <1>0, <1>3, FramesGo DEF Ends
<1>5. Len(fs) = 0 /\ 1 .. Len(fs) = {}
  BY <1>2 DEF Frame, MkFrame
<1>6. HeadIs(t, "store")
  BY <1>0, Begin DEF callback_store
<1>7. stack[t] # <<>> /\ Head(stack[t]).at = "store" /\ Head(stack[t]).of = Arg(t)
  BY <1>6 DEF HeadIs
<1>8. Touches(t, fs) \subseteq {"store"}
  BY <1>5, <1>7 DEF Touches
<1>9. UNCHANGED <<alive, nsproxy, nr_ipc_ns, mem, auto_msgmni, chain, loose, work, raced, Now>>
  BY DEF callback_store, nsv, mniv, Now
<1>i. PICK m : m = Arg(t)
  OBVIOUS
<1>j. /\ m \in Nss /\ Head(stack[t]) \in Frames(t) /\ Head(stack[t]).of = m
      /\ msg_ctlmni' = [msg_ctlmni EXCEPT ![m] = Head(stack[t]).mni]
  BY <1>6, <1>i DEF HeadIs, NsLabels, callback_store
<1>t. TaskInv'
  BY <1>0, <1>4, <1>5, <1>7, <1>9, TaskStep DEF Sysctl
<1>w. VisibleF' \subseteq VisibleF
  BY <1>0, <1>4, <1>5, <1>9, WalkedStep DEF VisibleF
<1>c. ChainF'
  BY <1>0, <1>3, <1>5, <1>7, <1>9, <1>w, ChainStep DEF ChainF
<1>n. NrF'
  BY <1>0, <1>3, <1>8, <1>9, NrStep
<1>k. SoleStore' /\ \A n \in Nss \ raced : CurrentF(n) => CurrentF(n)'
  BY <1>0, <1>4, <1>5, <1>7, <1>9, <1>j, StoreLands DEF MniF
<1>q. SoleStore' /\ PassedF'
  <2>1. PassedBy' \subseteq PassedBy /\ PassedBy \subseteq Nss
    BY <1>0, <1>4, <1>5, <1>7, PassedStep DEF PassedBy
  <2> QED BY <1>0, <1>9, <1>k, <2>1 DEF MniF, PassedF
<1>f. FreshF'
  <2>1. ASSUME NEW n, ReadPendingF(n) PROVE ReadPendingF(n)'
    <3>1. \A l, x : Frame(l, x).at = l
        BY DEF Frame, MkFrame
    <3>2. \A u \in Threads : \A f \in Frames(u) : f \in Frames(u)' \/ (u = t /\ f = Head(stack[t]))
        BY <1>4 DEF Goes
    <3>3. \A u \in Threads : /\ Frame("notify", NoNs) \in Frames(u) => Frame("notify", NoNs) \in Frames(u)'
                             /\ Frame("compute", n) \in Frames(u) => Frame("compute", n) \in Frames(u)'
        BY <1>7, <3>1, <3>2
    <3>5. \A u \in Threads : \A f \in Frames(u) : f.at = "oops" => f \in Frames(u)'
        BY <1>7, <3>2
    <3>4. ASSUME NEW u \in Threads, ApproachesF(u, n) PROVE ApproachesF(u, n)'
      <4>1. PICK f \in Frames(u) : \E j, k \in DOMAIN chain :
               /\ j <= k /\ chain[k] = n
               /\ (f.at = "walk" /\ f.of = chain[j]) \/ (f.at = "store" /\ f.next = chain[j])
        BY <3>4 DEF ApproachesF
      <4>2. CASE f \in Frames(u)'
        BY <1>9, <4>1, <4>2 DEF ApproachesF
      <4>3. CASE u = t /\ f = Head(stack[t])
        <5>1. chain \in Seq(Nss)
            BY <1>0 DEF TypeInv
        <5>2. NoNs \notin Nss
            BY NsConstants
        <5>3. \A j \in DOMAIN chain : chain[j] # NoNs
            BY <5>1, <5>2
        <5> QED BY <1>7, <4>1, <4>3, <5>3
      <4> QED BY <3>2, <4>2, <4>3
    <3> QED BY <1>9, <2>1, <3>3, <3>4, <3>5 DEF ReadPendingF
  <2>2. ToSet(chain) \subseteq Nss
    BY <1>0 DEF TypeInv, ToSet
  <2> QED BY <1>0, <1>4, <1>7, <1>9, <1>k, <2>1, <2>2, FreshStep DEF MniF
<1> QED BY <1>4, <1>t, <1>c, <1>n, <1>q, <1>f, MsgBehind DEF MniF

(* A walker stores and goes on.                                            *)
LEMMA Msg_store_next ==
    ASSUME IInv, NEW t \in Threads, callback_store(t), may' = may, Head(stack[t]).next # NoNs
    PROVE  MsgInv'
<1>0. TypeInv /\ ShapeInv /\ TaskInv /\ ChainF /\ NrF /\ MniF /\ Views /\ t \in Threads
  BY MsgBefore DEF Threads
<1>1. PICK a : a = Frame("walk", Head(stack[t]).next)
  OBVIOUS
<1>2. PICK fs : fs = <<a>>
  OBVIOUS
<1>3. Ends(t, fs)
  BY <1>1, <1>2, After_callback_store
<1>4. Goes(t, fs) /\ TypeInv' /\ ShapeInv'
  BY <1>0, <1>3, FramesGo DEF Ends
<1>5. /\ Len(fs) = 1
      /\ fs[1] = a /\ a.at = "walk"
      /\ \A i \in 1 .. Len(fs) : fs[i] \in {a}
  BY <1>1, <1>2 DEF Frame, MkFrame
<1>6. HeadIs(t, "store")
  BY <1>0, Begin DEF callback_store
<1>7. stack[t] # <<>> /\ Head(stack[t]).at = "store" /\ Head(stack[t]).of = Arg(t)
  BY <1>6 DEF HeadIs
<1>8. Touches(t, fs) \subseteq {"walk", "store"}
  BY <1>5, <1>7 DEF Touches
<1>9. UNCHANGED <<alive, nsproxy, nr_ipc_ns, mem, auto_msgmni, chain, loose, work, raced, Now>>
  BY DEF callback_store, nsv, mniv, Now
<1>i. PICK m : m = Arg(t)
  OBVIOUS
<1>j. /\ m \in Nss /\ Head(stack[t]) \in Frames(t) /\ Head(stack[t]).of = m
      /\ msg_ctlmni' = [msg_ctlmni EXCEPT ![m] = Head(stack[t]).mni]
  BY <1>6, <1>i DEF HeadIs, NsLabels, callback_store
<1>v. a.of = Head(stack[t]).next /\ a \in Frames(t)'
  BY <1>1, <1>4, <1>5 DEF Frame, MkFrame, Goes
<1>x. a.of \in Nss => a.of \in WalkedF
  BY <1>0, <1>7, <1>j, <1>v DEF WalkedF
<1>y. a.of \in Nss
  BY <1>v, After_callback_store
<1>t. TaskInv'
  BY <1>0, <1>4, <1>5, <1>7, <1>9, TaskStep DEF Sysctl
<1>w. VisibleF' \subseteq VisibleF
  BY <1>0, <1>4, <1>5, <1>9, WalkedStep, <1>x, <1>y DEF VisibleF
<1>c. ChainF'
  BY <1>0, <1>3, <1>5, <1>7, <1>9, <1>w, ChainStep DEF ChainF
<1>n. NrF'
  BY <1>0, <1>3, <1>8, <1>9, NrStep
<1>k. SoleStore' /\ \A n \in Nss \ raced : CurrentF(n) => CurrentF(n)'
  BY <1>0, <1>4, <1>5, <1>7, <1>9, <1>j, StoreLands DEF MniF
<1>q. SoleStore' /\ PassedF'
  <2>1. PassedBy' \subseteq PassedBy /\ PassedBy \subseteq Nss
    BY <1>0, <1>4, <1>5, <1>7, PassedStep DEF PassedBy
  <2> QED BY <1>0, <1>9, <1>k, <2>1 DEF MniF, PassedF
<1>f. FreshF'
  <2>1. ASSUME NEW n, ReadPendingF(n) PROVE ReadPendingF(n)'
    <3>1. \A l, x : Frame(l, x).at = l
        BY DEF Frame, MkFrame
    <3>2. \A u \in Threads : \A f \in Frames(u) : f \in Frames(u)' \/ (u = t /\ f = Head(stack[t]))
        BY <1>4 DEF Goes
    <3>3. \A u \in Threads : /\ Frame("notify", NoNs) \in Frames(u) => Frame("notify", NoNs) \in Frames(u)'
                             /\ Frame("compute", n) \in Frames(u) => Frame("compute", n) \in Frames(u)'
        BY <1>7, <3>1, <3>2
    <3>5. \A u \in Threads : \A f \in Frames(u) : f.at = "oops" => f \in Frames(u)'
        BY <1>7, <3>2
    <3>4. ASSUME NEW u \in Threads, ApproachesF(u, n) PROVE ApproachesF(u, n)'
      <4>1. PICK f \in Frames(u) : \E j, k \in DOMAIN chain :
               /\ j <= k /\ chain[k] = n
               /\ (f.at = "walk" /\ f.of = chain[j]) \/ (f.at = "store" /\ f.next = chain[j])
        BY <3>4 DEF ApproachesF
      <4>2. CASE f \in Frames(u)'
        BY <1>9, <4>1, <4>2 DEF ApproachesF
      <4>3. CASE u = t /\ f = Head(stack[t])
        BY <1>5, <1>7, <1>9, <1>v, <4>1, <4>3 DEF ApproachesF
      <4> QED BY <3>2, <4>2, <4>3
    <3> QED BY <1>9, <2>1, <3>3, <3>4, <3>5 DEF ReadPendingF
  <2>2. ToSet(chain) \subseteq Nss
    BY <1>0 DEF TypeInv, ToSet
  <2> QED BY <1>0, <1>4, <1>7, <1>9, <1>k, <2>1, <2>2, FreshStep DEF MniF
<1> QED BY <1>4, <1>t, <1>c, <1>n, <1>q, <1>f, MsgBehind DEF MniF

-----------------------------------------------------------------------------
(* The caller computes its msgmni.                                         *)
LEMMA Msg_compute ==
    ASSUME IInv, NEW t \in Threads, compute(t), may' = may
    PROVE  MsgInv'
<1>0. TypeInv /\ ShapeInv /\ TaskInv /\ ChainF /\ NrF /\ MniF /\ Views /\ t \in Threads
  BY MsgBefore DEF Threads
<1>1. PICK a : a = MkFrame("set", Arg(t), NoNs, <<nr_ipc_ns, mem>>, NoNs)
  OBVIOUS
<1>2. PICK fs : fs = <<a>>
  OBVIOUS
<1>3. Ends(t, fs)
  BY <1>1, <1>2, After_compute
<1>4. Goes(t, fs) /\ TypeInv' /\ ShapeInv'
  BY <1>0, <1>3, FramesGo DEF Ends
<1>5. /\ Len(fs) = 1
      /\ fs[1] = a /\ a.at = "set"
      /\ \A i \in 1 .. Len(fs) : fs[i] \in {a}
  BY <1>1, <1>2 DEF Frame, MkFrame
<1>6. HeadIs(t, "compute")
  BY <1>0, Begin DEF compute
<1>7. stack[t] # <<>> /\ Head(stack[t]).at = "compute" /\ Head(stack[t]).of = Arg(t)
  BY <1>6 DEF HeadIs
<1>8. Touches(t, fs) \subseteq {"set", "compute"}
  BY <1>5, <1>7 DEF Touches
<1>9. UNCHANGED <<alive, nsproxy, nr_ipc_ns, mem, msg_ctlmni, auto_msgmni, chain, loose, work, Now>>
  BY DEF compute, nsv, mniv, Now
<1>i. PICK m : m = Arg(t)
  OBVIOUS
<1>j. /\ m \in Nss /\ Head(stack[t]) \in Frames(t) /\ Head(stack[t]).of = m
      /\ a.of = m /\ a.mni = Now /\ a \in Frames(t)'
  BY <1>1, <1>4, <1>5, <1>6, <1>i DEF HeadIs, NsLabels, Now, MkFrame, Goes
<1>k. /\ raced \subseteq raced' /\ raced' \subseteq raced \cup {m}
      /\ \A u \in Threads : StoresF(u, m) => m \in raced'
  <2>1. raced' = IF Storing(m) THEN raced \cup {m} ELSE raced
    BY <1>i DEF compute
  <2> QED BY <1>0, <2>1 DEF Views
<1>l. /\ SoleStore' /\ raced \subseteq raced'
      /\ m \notin raced' => CurrentF(m)'
      /\ \A n : n # m => (CurrentF(n)' <=> CurrentF(n))
  <2>1. SoleStore /\ \A i \in 1 .. Len(fs) : fs[i] = a
    BY <1>0, <1>5 DEF MniF
  <2>2. Head(stack[t]).at \notin {"store", "set"} /\ a.at \in {"store", "set"}
    BY <1>5, <1>7
  <2> QED BY <1>0, <1>4, <1>7, <1>9, <1>j, <1>k, <2>1, <2>2, ReadsNow
<1>t. TaskInv'
  <2>1. nsproxy[t] = m
    BY <1>0, <1>7, <1>j DEF TaskInv, Sysctl
  <2> QED BY <1>0, <1>4, <1>5, <1>7, <1>9, <1>j, <2>1, TaskStep
<1>w. VisibleF' \subseteq VisibleF
  BY <1>0, <1>4, <1>5, <1>9, WalkedStep DEF VisibleF
<1>c. ChainF'
  BY <1>0, <1>3, <1>5, <1>7, <1>9, <1>w, ChainStep DEF ChainF
<1>n. NrF'
  BY <1>0, <1>3, <1>8, <1>9, NrStep
<1>q. SoleStore' /\ PassedF'
  <2>1. PassedBy' \subseteq PassedBy \cup {m}
    BY <1>0, <1>4, <1>5, <1>7, <1>j, PassedOne
  <2> QED BY <1>0, <1>l, <2>1 DEF MniF, PassedF
<1>f. FreshF'
  <2>1. ASSUME NEW n, n # m, ReadPendingF(n) PROVE ReadPendingF(n)'
    <3>1. \A l, x : Frame(l, x).at = l /\ Frame(l, x).of = x
        BY DEF Frame, MkFrame
    <3>2. \A u \in Threads : \A f \in Frames(u) : f \in Frames(u)' \/ (u = t /\ f = Head(stack[t]))
        BY <1>4 DEF Goes
    <3>3. \A u \in Threads : /\ Frame("notify", NoNs) \in Frames(u) => Frame("notify", NoNs) \in Frames(u)'
                             /\ Frame("compute", n) \in Frames(u) => Frame("compute", n) \in Frames(u)'
        BY <1>7, <1>j, <2>1, <3>1, <3>2
    <3>4. \A u \in Threads : \A f \in Frames(u) : f.at \in {"walk", "store", "oops"} => f \in Frames(u)'
        BY <1>7, <3>2
    <3>5. \A u \in Threads : ApproachesF(u, n) => ApproachesF(u, n)'
        BY <1>9, <3>4 DEF ApproachesF
    <3> QED BY <1>9, <2>1, <3>3, <3>4, <3>5 DEF ReadPendingF
  <2> QED BY <1>0, <1>4, <1>7, <1>9, <1>l, <2>1, FreshStep DEF MniF
<1> QED BY <1>4, <1>t, <1>c, <1>n, <1>q, <1>f, MsgBehind DEF MniF

(* A walker computes, after it has read where to go next.                  *)
LEMMA Msg_callback_read ==
    ASSUME IInv, NEW t \in Threads, callback_read(t), may' = may
    PROVE  MsgInv'
<1>0. TypeInv /\ ShapeInv /\ TaskInv /\ ChainF /\ NrF /\ MniF /\ Views /\ t \in Threads
  BY MsgBefore DEF Threads
<1>p. PICK nb \in NextNb(Arg(t)) : /\ nb \in Nss \cup {NoNs}
                                   /\ Ends(t, <<MkFrame("store", Arg(t), NoNs, <<nr_ipc_ns, mem>>, nb)>>)
  BY After_callback_read
<1>1. PICK a : a = MkFrame("store", Arg(t), NoNs, <<nr_ipc_ns, mem>>, nb)
  OBVIOUS
<1>2. PICK fs : fs = <<a>>
  OBVIOUS
<1>3. Ends(t, fs)
  BY <1>1, <1>2, <1>p
<1>4. Goes(t, fs) /\ TypeInv' /\ ShapeInv'
  BY <1>0, <1>3, FramesGo DEF Ends
<1>5. /\ Len(fs) = 1
      /\ fs[1] = a /\ a.at = "store"
      /\ \A i \in 1 .. Len(fs) : fs[i] \in {a}
  BY <1>1, <1>2 DEF Frame, MkFrame
<1>6. HeadIs(t, "walk")
  BY <1>0, Begin DEF callback_read
<1>7. stack[t] # <<>> /\ Head(stack[t]).at = "walk" /\ Head(stack[t]).of = Arg(t)
  BY <1>6 DEF HeadIs
<1>8. Touches(t, fs) \subseteq {"store", "walk"}
  BY <1>5, <1>7 DEF Touches
<1>9. UNCHANGED <<alive, nsproxy, nr_ipc_ns, mem, msg_ctlmni, auto_msgmni, chain, loose, work, Now>>
  BY DEF callback_read, nsv, mniv, Now
<1>i. PICK m : m = Arg(t)
  OBVIOUS
<1>j. /\ m \in Nss /\ Head(stack[t]) \in Frames(t) /\ Head(stack[t]).of = m
      /\ a.of = m /\ a.mni = Now /\ a \in Frames(t)'
  BY <1>1, <1>4, <1>5, <1>6, <1>i DEF HeadIs, NsLabels, Now, MkFrame, Goes
<1>k. /\ raced \subseteq raced' /\ raced' \subseteq raced \cup {m}
      /\ \A u \in Threads : StoresF(u, m) => m \in raced'
  <2>1. raced' = IF Storing(m) THEN raced \cup {m} ELSE raced
    BY <1>i DEF callback_read
  <2> QED BY <1>0, <2>1 DEF Views
<1>l. /\ SoleStore' /\ raced \subseteq raced'
      /\ m \notin raced' => CurrentF(m)'
      /\ \A n : n # m => (CurrentF(n)' <=> CurrentF(n))
  <2>1. SoleStore /\ \A i \in 1 .. Len(fs) : fs[i] = a
    BY <1>0, <1>5 DEF MniF
  <2>2. Head(stack[t]).at \notin {"store", "set"} /\ a.at \in {"store", "set"}
    BY <1>5, <1>7
  <2> QED BY <1>0, <1>4, <1>7, <1>9, <1>j, <1>k, <2>1, <2>2, ReadsNow
<1>x. a.next = nb
  BY <1>1 DEF MkFrame
<1>y. m \in ToSet(chain) \/ nb \in loose \cup {NoNs}
  BY <1>i, <1>p DEF NextNb
<1>z. /\ chain \in Seq(Nss) /\ DOMAIN chain = 1 .. Len(chain) /\ Len(chain) \in Nat
      /\ \A j, k \in DOMAIN chain : chain[j] = chain[k] => j = k
  <2>1. IsInjective(chain)
    BY <1>0 DEF ChainF
  <2> QED BY <1>0, <2>1 DEF TypeInv, IsInjective
<1>b. \A j \in DOMAIN chain : chain[j] = m =>
         nb = IF j = Len(chain) THEN NoNs ELSE chain[j + 1]
  <2>1. ASSUME NEW j \in DOMAIN chain, chain[j] = m
        PROVE  nb = IF j = Len(chain) THEN NoNs ELSE chain[j + 1]
    <3>1. m \in ToSet(chain)
        BY <2>1 DEF ToSet
    <3>2. PICK i \in {k \in DOMAIN chain : chain[k] = m} : nb = IF i = Len(chain) THEN NoNs ELSE chain[i + 1]
        BY <1>i, <1>p, <3>1 DEF NextNb
    <3>3. i = j
        BY <1>z, <2>1, <3>2
    <3> QED BY <3>2, <3>3
  <2> QED BY <2>1
<1>d. nb \in ToSet(chain) \cup loose \cup {NoNs}
  <2>1. CASE m \in ToSet(chain)
    <3>1. PICK j \in DOMAIN chain : chain[j] = m
        BY <2>1 DEF ToSet
    <3>2. j # Len(chain) => j + 1 \in DOMAIN chain
        BY <1>z
    <3> QED BY <1>b, <3>1, <3>2 DEF ToSet
  <2> QED BY <1>y, <2>1
<1>t. TaskInv'
  BY <1>0, <1>4, <1>5, <1>7, <1>9, TaskStep DEF Sysctl
<1>w. VisibleF' \subseteq VisibleF
  <2>1. NoNs \notin Nss
    BY NsConstants
  <2>2. m \in WalkedF
    BY <1>0, <1>7, <1>j DEF WalkedF
  <2>3. \A x \in WalkedF' : x \in Nss /\ (x \in WalkedF \/ x = m \/ x = nb)
    <3>1. \A x \in WalkedF' : x \in Nss
        BY DEF WalkedF
    <3> QED BY <1>0, <1>4, <1>5, <1>j, <1>x, <3>1, WalkedStep
  <2>4. WalkedF' \subseteq WalkedF \cup ToSet(chain) \cup loose
    BY <1>d, <2>1, <2>2, <2>3
  <2> QED BY <1>9, <2>4 DEF VisibleF
<1>c. ChainF'
  BY <1>0, <1>3, <1>5, <1>7, <1>9, <1>w, ChainStep DEF ChainF
<1>n. NrF'
  BY <1>0, <1>3, <1>8, <1>9, NrStep
<1>q. SoleStore' /\ PassedF'
  <2>1. PassedBy' \subseteq PassedBy
    BY <1>0, <1>4, <1>5, <1>7, PassedStep
  <2> QED BY <1>0, <1>l, <2>1 DEF MniF, PassedF
<1>f. FreshF'
  <2>1. ASSUME NEW n, n # m, ReadPendingF(n) PROVE ReadPendingF(n)'
    <3>1. \A l, x : Frame(l, x).at = l /\ Frame(l, x).of = x
        BY DEF Frame, MkFrame
    <3>2. \A u \in Threads : \A f \in Frames(u) : f \in Frames(u)' \/ (u = t /\ f = Head(stack[t]))
        BY <1>4 DEF Goes
    <3>3. \A u \in Threads : /\ Frame("notify", NoNs) \in Frames(u) => Frame("notify", NoNs) \in Frames(u)'
                             /\ Frame("compute", n) \in Frames(u) => Frame("compute", n) \in Frames(u)'
        BY <1>7, <3>1, <3>2
    <3>5. \A u \in Threads : \A f \in Frames(u) : f.at = "oops" => f \in Frames(u)'
        BY <1>7, <3>2
    <3>4. ASSUME NEW u \in Threads, ApproachesF(u, n) PROVE ApproachesF(u, n)'
      <4>1. PICK f \in Frames(u) : \E j, k \in DOMAIN chain :
               /\ j <= k /\ chain[k] = n
               /\ (f.at = "walk" /\ f.of = chain[j]) \/ (f.at = "store" /\ f.next = chain[j])
        BY <3>4 DEF ApproachesF
      <4>2. CASE f \in Frames(u)'
        BY <1>9, <4>1, <4>2 DEF ApproachesF
      <4>3. CASE u = t /\ f = Head(stack[t])
        <5>1. PICK j, k \in DOMAIN chain : j <= k /\ chain[k] = n /\ m = chain[j]
            BY <1>7, <1>j, <4>1, <4>3
        <5>2. j < k /\ j # Len(chain) /\ j + 1 \in DOMAIN chain /\ j + 1 <= k
            BY <1>z, <2>1, <5>1
        <5>3. a.next = chain[j + 1]
            BY <1>b, <1>x, <5>1, <5>2
        <5>4. PICK i \in DOMAIN chain : i <= k /\ a.next = chain[i]
            BY <5>2, <5>3
        <5> QED BY <1>5, <1>9, <1>j, <4>3, <5>1, <5>4 DEF ApproachesF
      <4> QED BY <3>2, <4>2, <4>3
    <3> QED BY <1>9, <2>1, <3>3, <3>4, <3>5 DEF ReadPendingF
  <2> QED BY <1>0, <1>4, <1>7, <1>9, <1>l, <2>1, FreshStep DEF MniF
<1> QED BY <1>4, <1>t, <1>c, <1>n, <1>q, <1>f, MsgBehind DEF MniF

(* A new namespace gets its msgmni.                                        *)
LEMMA Msg_msg_init_ns ==
    ASSUME IInv, NEW t \in Threads, msg_init_ns(t), may' = may
    PROVE  MsgInv'
<1>0. TypeInv /\ ShapeInv /\ TaskInv /\ ChainF /\ NrF /\ MniF /\ Views /\ t \in Threads
  BY MsgBefore DEF Threads
<1>2. PICK fs : fs = <<>>
  OBVIOUS
<1>3. Ends(t, fs)
  BY <1>2, After_msg_init_ns
<1>4. Goes(t, fs) /\ TypeInv' /\ ShapeInv'
  BY <1>0, <1>3, FramesGo DEF Ends
<1>5. Len(fs) = 0 /\ 1 .. Len(fs) = {}
  BY <1>2 DEF Frame, MkFrame
<1>6. HeadIs(t, "msg_init_ns")
  BY <1>0, Begin DEF msg_init_ns
<1>7. stack[t] # <<>> /\ Head(stack[t]).at = "msg_init_ns" /\ Head(stack[t]).of = Arg(t)
  BY <1>6 DEF HeadIs
<1>8. Touches(t, fs) \subseteq {"msg_init_ns"}
  BY <1>5, <1>7 DEF Touches
<1>9. UNCHANGED <<alive, nsproxy, nr_ipc_ns, mem, auto_msgmni, chain, loose, work, raced, Now>>
  BY DEF msg_init_ns, nsv, mniv, Now
<1>i. PICK m : m = Arg(t)
  OBVIOUS
<1>j. /\ m \in Nss /\ Head(stack[t]) \in Frames(t) /\ Head(stack[t]).of = m
      /\ msg_ctlmni' = [msg_ctlmni EXCEPT ![m] = Now]
  BY <1>6, <1>i DEF HeadIs, NsLabels, msg_init_ns, Now
<1>k. m \notin VisibleF
  BY <1>0, <1>7, <1>j DEF ChainF
<1>l. Frame("switch", m) \in Frames(t)
  BY <1>0, <1>7, <1>j, StartsOf
<1>x. \A u \in Threads : ~StoresF(u, m)
  <2>1. \A u \in Threads : \A f \in Frames(u) : f.at = "store" => f.of # m
    BY <1>j, <1>k DEF VisibleF, WalkedF
  <2>2. Frame("switch", m).at = "switch" /\ Frame("switch", m).of = m
    BY DEF Frame, MkFrame
  <2>3. \A u \in Tasks : nsproxy[u] # m
    BY <1>0, <1>l, <2>2 DEF TaskInv
  <2>4. \A u \in Threads : \A f \in Frames(u) : f.at = "set" => u \in Tasks
    BY <1>0, AllArgs DEF ArgsOK, Threads
  <2>5. \A u \in Threads : \A f \in Frames(u) : f.at = "set" => f.of # m
    BY <1>0, <2>3, <2>4 DEF TaskInv, Sysctl
  <2> QED BY <2>1, <2>5 DEF StoresF
<1>t. TaskInv'
  BY <1>0, <1>4, <1>5, <1>7, <1>9, TaskStep DEF Sysctl
<1>w. VisibleF' \subseteq VisibleF
  BY <1>0, <1>4, <1>5, <1>9, WalkedStep DEF VisibleF
<1>c. ChainF'
  BY <1>0, <1>3, <1>5, <1>7, <1>9, <1>w, ChainStep DEF ChainF
<1>n. NrF'
  BY <1>0, <1>3, <1>8, <1>9, NrStep
<1>y. /\ \A u \in Threads : \A n : StoresF(u, n)' <=> StoresF(u, n)
      /\ \A n : n # m => (CurrentF(n)' <=> CurrentF(n))
  <2>1. SameL({"store", "set"})
    BY <1>0, <1>3, <1>8, SameLabels
  <2>2. \A n : n # m => msg_ctlmni'[n] = msg_ctlmni[n]
    BY <1>0, <1>j DEF TypeInv
  <2> QED BY <1>9, <2>1, <2>2, StoresSame
<1>z. CurrentF(m)'
  <2>1. msg_ctlmni'[m] = Now
    BY <1>0, <1>j DEF TypeInv
  <2>2. \A u \in Threads : ~StoresF(u, m)'
    BY <1>x, <1>y
  <2>3. \A u \in Threads : \A f \in Frames(u)' : ~(f.at \in {"store", "set"} /\ f.of = m)
    BY <2>2 DEF StoresF
  <2> QED BY <1>9, <2>1, <2>3 DEF CurrentF
<1>q. SoleStore' /\ PassedF'
  <2>1. PassedBy' \subseteq PassedBy \cup {m}
    BY <1>0, <1>4, <1>5, <1>7, <1>j, PassedOne
  <2>2. SoleStore'
    BY <1>0, <1>9, <1>y DEF MniF, SoleStore
  <2>3. PassedF'
    BY <1>0, <1>9, <1>y, <1>z, <2>1 DEF MniF, PassedF
  <2> QED BY <2>2, <2>3
<1>f. FreshF'
  <2>1. \A n : ReadPendingF(n) => ReadPendingF(n)'
    BY <1>0, <1>4, <1>7, <1>9, PendingStep
  <2>2. m \notin ToSet(chain)
    BY <1>k DEF VisibleF
  <2> QED BY <1>0, <1>4, <1>7, <1>9, <1>y, <2>1, <2>2, FreshStep DEF MniF
<1> QED BY <1>4, <1>t, <1>c, <1>n, <1>q, <1>f, MsgBehind DEF MniF

-----------------------------------------------------------------------------
(* A held namespace is not about to be freed.                              *)
LEMMA HeldStays ==
    ASSUME IInv, NEW m \in Nss, count[m] > 0
    PROVE  m \in alive /\ \A u \in Threads : \A f \in Frames(u) : ~(f.at = "kfree" /\ f.of = m)
<1>1. RefCount
  BY DEF IInv
<1>2. \A u \in Threads : \A f \in Frames(u) : f.at = "kfree" => count[f.of] = 0
  BY Doomed
<1> QED BY <1>1, <1>2 DEF RefCount

(* The automatic adjustment ends; the namespace is to be unregistered.     *)
LEMMA Msg_auto_off ==
    ASSUME IInv, NEW t \in Threads, ipc_auto_callback(t), may' = may, Ends(t, <<Frame("unregister", Arg(t))>>)
    PROVE  MsgInv'
<1>0. TypeInv /\ ShapeInv /\ TaskInv /\ ChainF /\ NrF /\ MniF /\ Views
  BY MsgBefore
<1>1. PICK a : a = Frame("unregister", Arg(t))
  OBVIOUS
<1>2. PICK fs : fs = <<a>>
  OBVIOUS
<1>3. Ends(t, fs)
  BY <1>1, <1>2
<1>4. Goes(t, fs) /\ TypeInv' /\ ShapeInv'
  BY <1>0, <1>3, FramesGo DEF Ends
<1>5. /\ Len(fs) = 1
      /\ fs[1] = a /\ a.at = "unregister"
      /\ \A i \in 1 .. Len(fs) : fs[i] \in {a}
  BY <1>1, <1>2 DEF Frame, MkFrame
<1>7. stack[t] # <<>> /\ Head(stack[t]).at \in {"newval_0", "newval_1"}
  BY After_ipc_auto_callback DEF At
<1>8. Touches(t, fs) \subseteq {"unregister", "newval_0", "newval_1"}
  BY <1>5, <1>7 DEF Touches
<1>9. UNCHANGED <<alive, nsproxy, nr_ipc_ns, mem, msg_ctlmni, chain, loose, work, raced, Now>>
  BY DEF ipc_auto_callback, nsv, mniv, Now
<1>t. TaskInv'
  BY <1>0, <1>4, <1>5, <1>7, <1>9, TaskStep DEF Sysctl
<1>w. VisibleF' \subseteq VisibleF
  BY <1>0, <1>4, <1>5, <1>9, WalkedStep DEF VisibleF
<1>c. ChainF'
  BY <1>0, <1>3, <1>5, <1>7, <1>9, <1>w, ChainStep DEF ChainF
<1>n. NrF'
  BY <1>0, <1>3, <1>8, <1>9, NrStep
<1>q. SoleStore' /\ PassedF' /\ \A n : CurrentF(n)' <=> CurrentF(n)
  <2>1. SameL({"store", "set"})
    BY <1>0, <1>3, <1>8, SameLabels
  <2>2. PassedBy' \subseteq PassedBy
    BY <1>0, <1>4, <1>5, <1>7, PassedStep
  <2> QED BY <1>0, <1>9, <2>1, <2>2, MniQuiet
<1>f. FreshF'
  <2>1. \A n : ReadPendingF(n) => ReadPendingF(n)'
    BY <1>0, <1>4, <1>7, <1>9, PendingStep
  <2> QED BY <1>0, <1>4, <1>7, <1>9, <1>q, <2>1, FreshStep DEF MniF
<1> QED BY <1>4, <1>t, <1>c, <1>n, <1>q, <1>f, MsgBehind DEF MniF

(* The automatic adjustment begins: msgmni will be computed, then registered. *)
LEMMA Msg_auto_on ==
    ASSUME IInv, NEW t \in Threads, ipc_auto_callback(t), may' = may, NEW m, m = Arg(t),
           Ends(t, <<Frame("compute", m), Frame("clear", m), Frame("register", m)>>)
    PROVE  MsgInv'
<1>0. TypeInv /\ ShapeInv /\ TaskInv /\ ChainF /\ NrF /\ MniF /\ Views
  BY MsgBefore
<1>x. \A l, n : Frame(l, n).at = l /\ Frame(l, n).of = n
  BY DEF Frame, MkFrame
<1>1. PICK a, b, c : a = Frame("compute", m) /\ b = Frame("clear", m) /\ c = Frame("register", m)
  OBVIOUS
<1>2. PICK fs : fs = <<a, b, c>>
  OBVIOUS
<1>3. Ends(t, fs)
  BY <1>1, <1>2
<1>4. Goes(t, fs) /\ TypeInv' /\ ShapeInv'
  BY <1>0, <1>3, FramesGo DEF Ends
<1>5. /\ Len(fs) = 3
      /\ fs[1] = a /\ a.at = "compute"
      /\ fs[2] = b /\ b.at = "clear"
      /\ fs[3] = c /\ c.at = "register"
      /\ \A i \in 1 .. Len(fs) : fs[i] \in {a, b, c}
  BY <1>1, <1>2 DEF Frame, MkFrame
<1>6. HeadIs(t, "newval_0") \/ HeadIs(t, "newval_1")
  BY <1>0, After_ipc_auto_callback, Begin
<1>7. /\ stack[t] # <<>> /\ Head(stack[t]).at \in {"newval_0", "newval_1"} /\ Head(stack[t]).of = m
      /\ Head(stack[t]) \in Frames(t)
  BY <1>6 DEF HeadIs
<1>8. Touches(t, fs) \subseteq {"compute", "clear", "register", "newval_0", "newval_1"}
  BY <1>5, <1>7 DEF Touches
<1>9. UNCHANGED <<alive, nsproxy, nr_ipc_ns, mem, msg_ctlmni, chain, loose, work, raced, Now>>
  BY DEF ipc_auto_callback, nsv, mniv, Now
<1>y. a.of = m /\ b.of = m /\ c.of = m /\ nsproxy[t] = m
  <2>1. nsproxy[t] = m
    BY <1>0, <1>7 DEF TaskInv, Sysctl
  <2> QED BY <1>1, <1>x, <2>1
<1>t. TaskInv'
  BY <1>0, <1>4, <1>5, <1>7, <1>9, <1>y, TaskStep
<1>w. VisibleF' \subseteq VisibleF
  BY <1>0, <1>4, <1>5, <1>9, WalkedStep DEF VisibleF
<1>c. ChainF'
  BY <1>0, <1>3, <1>5, <1>7, <1>9, <1>w, ChainStep DEF ChainF
<1>n. NrF'
  BY <1>0, <1>3, <1>8, <1>9, NrStep
<1>q. SoleStore' /\ PassedF' /\ \A n : CurrentF(n)' <=> CurrentF(n)
  <2>1. SameL({"store", "set"})
    BY <1>0, <1>3, <1>8, SameLabels
  <2>2. PassedBy' \subseteq PassedBy
    <3>1. ASSUME NEW n, Frame("register", n) \in Frames(t)',
                 Frames(t)' \cap {Frame("nr_inc", n), Frame("msg_init_ns", n), Frame("compute", n)} = {}
          PROVE  /\ Frame("register", n) \in Frames(t)
                 /\ Frames(t) \cap {Frame("nr_inc", n), Frame("msg_init_ns", n), Frame("compute", n)} = {}
      <4>1. Frame("compute", m) \in Frames(t)'
        BY <1>1, <1>4, <1>5 DEF Goes
      <4>2. n # m
        BY <3>1, <4>1
      <4>3. \A l : Frame(l, n) \in Frames(t)' <=> Frame(l, n) \in Frames(t)
        BY <1>4, <1>5, <1>7, <1>x, <1>y, <4>2 DEF Goes
      <4> QED BY <3>1, <4>3
    <3>2. \A u \in Threads : u # t => Frames(u)' = Frames(u)
        BY <1>4 DEF Goes
    <3> QED BY <3>1, <3>2 DEF PassedBy
  <2> QED BY <1>0, <1>9, <2>1, <2>2, MniQuiet
<1>f. FreshF'
  <2>1. \A n : ReadPendingF(n) => ReadPendingF(n)'
    BY <1>0, <1>4, <1>7, <1>9, PendingStep
  <2> QED BY <1>0, <1>4, <1>7, <1>9, <1>q, <2>1, FreshStep DEF MniF
<1> QED BY <1>4, <1>t, <1>c, <1>n, <1>q, <1>f, MsgBehind DEF MniF

(* A walker calls what is no function: nothing is quiet ever again.        *)
LEMMA Msg_callback_oops ==
    ASSUME IInv, NEW t \in Threads, callback_oops(t), may' = may
    PROVE  MsgInv'
<1>0. TypeInv /\ ShapeInv /\ TaskInv /\ ChainF /\ NrF /\ MniF /\ Views
  BY MsgBefore
<1>1. PICK a : a = Frame("oops", Arg(t))
  OBVIOUS
<1>2. PICK fs : fs = <<a>>
  OBVIOUS
<1>3. Ends(t, fs)
  BY <1>1, <1>2, After_callback_oops
<1>4. Goes(t, fs) /\ TypeInv' /\ ShapeInv'
  BY <1>0, <1>3, FramesGo DEF Ends
<1>5. /\ Len(fs) = 1
      /\ fs[1] = a /\ a.at = "oops"
      /\ \A i \in 1 .. Len(fs) : fs[i] \in {a}
  BY <1>1, <1>2 DEF Frame, MkFrame
<1>7. stack[t] # <<>> /\ Head(stack[t]).at = "walk"
  BY DEF callback_oops, At
<1>8. Touches(t, fs) \subseteq {"oops", "walk"}
  BY <1>5, <1>7 DEF Touches
<1>9. UNCHANGED <<alive, nsproxy, nr_ipc_ns, mem, msg_ctlmni, chain, loose, work, raced, Now>>
  BY DEF callback_oops, nsv, mniv, Now
<1>t. TaskInv'
  BY <1>0, <1>4, <1>5, <1>7, <1>9, TaskStep DEF Sysctl
<1>w. VisibleF' \subseteq VisibleF
  BY <1>0, <1>4, <1>5, <1>9, WalkedStep DEF VisibleF
<1>c. ChainF'
  BY <1>0, <1>3, <1>5, <1>7, <1>9, <1>w, ChainStep DEF ChainF
<1>n. NrF'
  BY <1>0, <1>3, <1>8, <1>9, NrStep
<1>q. SoleStore' /\ PassedF'
  <2>1. SameL({"store", "set"})
    BY <1>0, <1>3, <1>8, SameLabels
  <2>2. PassedBy' \subseteq PassedBy
    BY <1>0, <1>4, <1>5, <1>7, PassedStep
  <2> QED BY <1>0, <1>9, <2>1, <2>2, MniQuiet
<1>f. FreshF'
  <2>1. a \in Frames(t)'
    BY <1>4, <1>5 DEF Goes
  <2>2. \A n : ReadPendingF(n)'
    BY <1>5, <2>1 DEF ReadPendingF
  <2> QED BY <1>0, <1>4, <1>7, <1>9, <2>2, FreshStep DEF MniF
<1> QED BY <1>4, <1>t, <1>c, <1>n, <1>q, <1>f, MsgBehind DEF MniF

(* A namespace is put on the chain, which nobody walks.                    *)
LEMMA Msg_register ==
    ASSUME IInv, NEW t \in Threads, register_ipcns_notifier(t), may' = may
    PROVE  MsgInv'
<1>0. TypeInv /\ ShapeInv /\ TaskInv /\ ChainF /\ NrF /\ MniF /\ Views /\ t \in Threads
  BY MsgBefore DEF Threads
<1>1. PICK a : a = Frame("flag_on", Arg(t))
  OBVIOUS
<1>2. PICK fs : fs = <<a>>
  OBVIOUS
<1>3. Ends(t, fs)
  BY <1>1, <1>2, After_register_ipcns_notifier
<1>4. Goes(t, fs) /\ TypeInv' /\ ShapeInv'
  BY <1>0, <1>3, FramesGo DEF Ends
<1>5. /\ Len(fs) = 1
      /\ fs[1] = a /\ a.at = "flag_on"
      /\ \A i \in 1 .. Len(fs) : fs[i] \in {a}
  BY <1>1, <1>2 DEF Frame, MkFrame
<1>6. HeadIs(t, "register")
  BY <1>0, Begin DEF register_ipcns_notifier
<1>7. stack[t] # <<>> /\ Head(stack[t]).at = "register" /\ Head(stack[t]).of = Arg(t)
  BY <1>6 DEF HeadIs
<1>8. Touches(t, fs) \subseteq {"flag_on", "register"}
  BY <1>5, <1>7 DEF Touches
<1>9. UNCHANGED <<alive, nsproxy, nr_ipc_ns, mem, msg_ctlmni, work, raced, Now>>
  BY DEF register_ipcns_notifier, nsv, mniv, Now
<1>i. PICK m : m = Arg(t)
  OBVIOUS
<1>j. /\ m \in Nss /\ Head(stack[t]) = Frame("register", m) /\ Head(stack[t]) \in Frames(t)
      /\ chain' = (IF m \in ToSet(chain) THEN chain ELSE Append(chain, m))
      /\ loose' = loose \ {m}
  BY <1>6, <1>i DEF HeadIs, NsLabels, register_ipcns_notifier
<1>x. \A l, n : Frame(l, n).at = l /\ Frame(l, n).of = n
  BY DEF Frame, MkFrame
<1>k. \A u \in Threads : \A f \in Frames(u) : f.at \notin {"walk", "store", "oops"}
  BY <1>0 DEF Views, register_ipcns_notifier
<1>l. IsInjective(chain') /\ ToSet(chain') = ToSet(chain) \cup {m}
  <2>1. chain \in Seq(Nss) /\ IsInjective(chain)
    BY <1>0 DEF TypeInv, ChainF
  <2>2. CASE m \in ToSet(chain)
    BY <1>j, <2>1, <2>2
  <2>3. CASE m \notin ToSet(chain)
    BY <1>j, <2>1, <2>3, AppendEntries
  <2> QED BY <2>2, <2>3
<1>a. m \in alive /\ \A u \in Threads : \A f \in Frames(u) : ~(f.at = "kfree" /\ f.of = m)
  <2>1. count[m] > 0
    BY <1>0, <1>7, <1>i, <1>j, WorkersHold
  <2> QED BY <1>j, <2>1, HeldStays
<1>y. \A f \in Frames(t) : f.at \notin {"msg_init_ns", "nr_inc", "compute"}
  BY <1>0, <1>7, InitFirst, AtFrames
<1>b. \A u \in Threads : \A f \in Frames(u) : ~(f.at = "msg_init_ns" /\ f.of = m)
  <2>1. ASSUME NEW u \in Threads, NEW f \in Frames(u), f.at = "msg_init_ns", f.of = m PROVE FALSE
    <3>1. Frame("switch", m) \in Frames(u)
        BY <2>1, StartsOf
    <3>2. t \in Tasks
        BY <1>0, <1>7, TaskRuns
    <3>3. nsproxy[t] # m
        BY <1>0, <1>x, <3>1, <3>2 DEF TaskInv
    <3>4. Frame("switch", m) \in Frames(t)
        BY <1>0, <1>7, <1>i, <1>j, <3>3 DEF TaskInv
    <3>5. u = t
        BY <1>0, <1>j, <3>1, <3>4 DEF TaskInv
    <3> QED BY <1>y, <2>1, <3>5
  <2> QED BY <2>1
<1>t. TaskInv'
  BY <1>0, <1>4, <1>5, <1>7, <1>9, TaskStep DEF Sysctl
<1>w. VisibleF' \subseteq VisibleF \cup {m}
  BY <1>0, <1>4, <1>5, <1>j, <1>l, WalkedStep DEF VisibleF
<1>c. ChainF'
  <2>1. \A u \in Threads : \A f \in Frames(u)' : ~(f.at \in {"kfree", "msg_init_ns"} /\ f.of = m)
    BY <1>4, <1>5, <1>a, <1>b DEF Goes
  <2> QED BY <1>0, <1>3, <1>5, <1>7, <1>9, <1>a, <1>l, <1>w, <2>1, ChainGrow
<1>n. NrF'
  BY <1>0, <1>3, <1>8, <1>9, NrStep
<1>q. SoleStore' /\ PassedF' /\ \A n : CurrentF(n)' <=> CurrentF(n)
  <2>1. SameL({"store", "set"})
    BY <1>0, <1>3, <1>8, SameLabels
  <2>2. PassedBy' \subseteq PassedBy
    BY <1>0, <1>4, <1>5, <1>7, PassedStep
  <2> QED BY <1>0, <1>9, <2>1, <2>2, MniQuiet
<1>f. FreshF'
  <2>1. \A n : Unregistering(n) => Unregistering(n)'
    BY <1>0, <1>4, <1>7, <1>i, <1>x, RegisterStep
  <2>2. \A n : ReadPendingF(n) => ReadPendingF(n)'
    BY <1>0, <1>4, <1>7, <1>9, <1>k, PendingUnwalked
  <2>3. m \in PassedBy
    <3>1. Frame("register", m) \in Frames(t)
        BY <1>j
    <3>2. Frames(t) \cap {Frame("nr_inc", m), Frame("msg_init_ns", m), Frame("compute", m)} = {}
        BY <1>x, <1>y
    <3> QED BY <1>0, <1>j, <3>1, <3>2 DEF PassedBy
  <2>4. m \notin raced => CurrentF(m)'
    BY <1>0, <1>q, <2>3 DEF MniF, PassedF
  <2> QED BY <1>0, <1>9, <1>j, <1>l, <1>q, <2>1, <2>2, <2>4 DEF MniF, FreshF
<1> QED BY <1>4, <1>t, <1>c, <1>n, <1>q, <1>f, MsgBehind DEF MniF

(* A notifier block is cleared; what followed it is cut off, as a race.    *)
LEMMA Msg_clear ==
    ASSUME IInv, NEW t \in Threads, clear_nb(t), may' = may
    PROVE  MsgInv'
<1>0. TypeInv /\ ShapeInv /\ TaskInv /\ ChainF /\ NrF /\ MniF /\ Views /\ t \in Threads
  BY MsgBefore DEF Threads
<1>1. PICK a : a = Frame("nb_call", Arg(t))
  OBVIOUS
<1>2. PICK fs : fs = <<a>>
  OBVIOUS
<1>3. Ends(t, fs)
  BY <1>1, <1>2, After_clear_nb
<1>4. Goes(t, fs) /\ TypeInv' /\ ShapeInv'
  BY <1>0, <1>3, FramesGo DEF Ends
<1>5. /\ Len(fs) = 1
      /\ fs[1] = a /\ a.at = "nb_call"
      /\ \A i \in 1 .. Len(fs) : fs[i] \in {a}
  BY <1>1, <1>2 DEF Frame, MkFrame
<1>6. HeadIs(t, "clear")
  BY <1>0, Begin DEF clear_nb
<1>7. stack[t] # <<>> /\ Head(stack[t]).at = "clear" /\ Head(stack[t]).of = Arg(t)
  BY <1>6 DEF HeadIs
<1>8. Touches(t, fs) \subseteq {"nb_call", "clear"}
  BY <1>5, <1>7 DEF Touches
<1>9. UNCHANGED <<alive, nsproxy, nr_ipc_ns, mem, msg_ctlmni, auto_msgmni, work, Now>>
  BY DEF clear_nb, nsv, mniv, Now
<1>z. /\ chain \in Seq(Nss) /\ DOMAIN chain = 1 .. Len(chain) /\ Len(chain) \in Nat
      /\ \A j, k \in DOMAIN chain : chain[j] = chain[k] => j = k
  <2>1. IsInjective(chain)
    BY <1>0 DEF ChainF
  <2> QED BY <1>0, <2>1 DEF TypeInv, IsInjective
<1>k. \E i \in Nat : /\ i <= Len(chain) /\ chain' \in Seq(Nss) /\ Len(chain') = i
                     /\ \A j \in 1 .. i : chain'[j] = chain[j]
                     /\ loose' = loose \cup {chain[j] : j \in (i + 1) .. Len(chain)}
                     /\ raced' = raced \cup {chain[j] : j \in (i + 1) .. Len(chain)}
  <2>1. CASE Arg(t) \notin ToSet(chain)
    <3>1. chain' = chain /\ loose' = loose /\ raced' = raced
        BY <2>1 DEF clear_nb, ToSet
    <3>2. {chain[j] : j \in (Len(chain) + 1) .. Len(chain)} = {}
        BY <1>z
    <3> QED BY <1>z, <3>1, <3>2
  <2>2. CASE Arg(t) \in ToSet(chain)
    <3>1. PICK i \in DOMAIN chain :
             LET off == {chain[j] : j \in (i + 1) .. Len(chain)}
             IN  /\ chain[i] = Arg(t)
                 /\ chain' = SubSeq(chain, 1, i)
                 /\ loose' = loose \cup off
                 /\ raced' = raced \cup off
        BY <2>2 DEF clear_nb
    <3>2. chain' \in Seq(Nss) /\ Len(chain') = i /\ \A j \in 1 .. i : chain'[j] = chain[j]
        BY <1>z, <3>1, CutChain
    <3>3. i \in Nat /\ i <= Len(chain)
        BY <1>z
    <3> QED BY <3>1, <3>2, <3>3
  <2> QED BY <2>1, <2>2
<1>l. PICK i \in Nat :
         /\ i <= Len(chain) /\ chain' \in Seq(Nss) /\ Len(chain') = i
         /\ \A j \in 1 .. i : chain'[j] = chain[j]
         /\ loose' = loose \cup {chain[j] : j \in (i + 1) .. Len(chain)}
         /\ raced' = raced \cup {chain[j] : j \in (i + 1) .. Len(chain)}
  BY <1>k
<1>m. DOMAIN chain' = 1 .. i
  BY <1>l
<1>x. /\ IsInjective(chain') /\ ToSet(chain') \subseteq ToSet(chain)
      /\ loose' \subseteq loose \cup ToSet(chain) /\ raced \subseteq raced'
  <2>1. \A j \in 1 .. i : j \in DOMAIN chain
    BY <1>l, <1>z
  <2>2. IsInjective(chain')
    BY <1>l, <1>m, <1>z, <2>1 DEF IsInjective
  <2>3. ToSet(chain') \subseteq ToSet(chain)
    BY <1>l, <1>m, <2>1 DEF ToSet
  <2>4. \A j \in (i + 1) .. Len(chain) : j \in DOMAIN chain
    BY <1>l, <1>z
  <2> QED BY <1>l, <2>2, <2>3, <2>4 DEF ToSet
<1>y. \A k \in DOMAIN chain : chain[k] \notin raced' => k \in 1 .. i
  BY <1>l, <1>z
<1>t. TaskInv'
  BY <1>0, <1>4, <1>5, <1>7, <1>9, TaskStep DEF Sysctl
<1>w. VisibleF' \subseteq VisibleF
  BY <1>0, <1>4, <1>5, <1>9, <1>x, WalkedStep DEF VisibleF
<1>c. ChainF'
  BY <1>0, <1>3, <1>5, <1>7, <1>9, <1>w, <1>x, ChainStep
<1>n. NrF'
  BY <1>0, <1>3, <1>8, <1>9, NrStep
<1>q. SoleStore' /\ PassedF' /\ \A n : CurrentF(n)' <=> CurrentF(n)
  <2>1. SameL({"store", "set"})
    BY <1>0, <1>3, <1>8, SameLabels
  <2>2. PassedBy' \subseteq PassedBy
    BY <1>0, <1>4, <1>5, <1>7, PassedStep
  <2> QED BY <1>0, <1>9, <1>x, <2>1, <2>2, MniQuiet
<1>f. FreshF'
  <2>1. \A l, n : Frame(l, n).at = l
    BY DEF Frame, MkFrame
  <2>2. \A n : Unregistering(n) => Unregistering(n)'
    BY <1>0, <1>4, <1>7, <2>1, RegisterStep
  <2>3. ASSUME NEW n \in ToSet(chain), n \notin raced' PROVE n \in ToSet(chain')
    <3>1. PICK k \in DOMAIN chain : chain[k] = n
        BY <2>3 DEF ToSet
    <3>2. k \in DOMAIN chain' /\ chain'[k] = n
        BY <1>l, <1>m, <1>y, <2>3, <3>1
    <3> QED BY <3>2 DEF ToSet
  <2>4. \A u \in Threads : \A f \in Frames(u) :
           f.at \in {"notify", "compute", "walk", "store", "oops"} => f \in Frames(u)'
    BY <1>4, <1>7 DEF Goes
  <2>5. ASSUME NEW u \in Threads, NEW n, n \notin raced', ApproachesF(u, n) PROVE ApproachesF(u, n)'
    <3>1. PICK f \in Frames(u) : \E j, k \in DOMAIN chain :
               /\ j <= k /\ chain[k] = n
               /\ (f.at = "walk" /\ f.of = chain[j]) \/ (f.at = "store" /\ f.next = chain[j])
        BY <2>5 DEF ApproachesF
    <3>2. PICK j, k \in DOMAIN chain :
               /\ j <= k /\ chain[k] = n
               /\ (f.at = "walk" /\ f.of = chain[j]) \/ (f.at = "store" /\ f.next = chain[j])
        BY <3>1
    <3>3. f \in Frames(u)'
        BY <2>4, <3>2
    <3>4. k \in 1 .. i /\ j \in 1 .. i
        BY <1>l, <1>y, <1>z, <2>5, <3>2
    <3>5. j \in DOMAIN chain' /\ k \in DOMAIN chain' /\ chain'[j] = chain[j] /\ chain'[k] = n
        BY <1>l, <1>m, <3>2, <3>4
    <3> QED BY <3>2, <3>3, <3>5 DEF ApproachesF
  <2>6. ASSUME NEW n, n \notin raced', ReadPendingF(n) PROVE ReadPendingF(n)'
    <3>1. \A u \in Threads : /\ Frame("notify", NoNs) \in Frames(u) => Frame("notify", NoNs) \in Frames(u)'
                             /\ Frame("compute", n) \in Frames(u) => Frame("compute", n) \in Frames(u)'
        BY <2>1, <2>4
    <3> QED BY <1>9, <2>4, <2>5, <2>6, <3>1 DEF ReadPendingF
  <2> QED BY <1>0, <1>9, <1>x, <1>q, <2>2, <2>3, <2>6 DEF MniF, FreshF
<1> QED BY <1>4, <1>t, <1>c, <1>n, <1>q, <1>f, MsgBehind DEF MniF

-----------------------------------------------------------------------------
(* All of the inductive invariant.                                         *)
Kept == TypeInv /\ ShapeInv /\ RefInv /\ MsgInv
(* The invariant, part by part.                                            *)
LEMMA KeptIs ==
    Kept <=> IInv
    BY DEF Kept, IInv, RefInv, MsgInv

(* A step of the queues and the mounts.                                    *)
LEMMA QueueOnly ==
    ASSUME IInv, NEW t \in Threads, NEW fs, Ends(t, fs), UNCHANGED <<alive, nsproxy, mniv>>,
           stack[t] # <<>> => Head(stack[t]).at \notin ChainLabels,
           \A i \in 1 .. Len(fs) : fs[i].at \notin ChainLabels,
           RefInv'
    PROVE  Kept'
<1>1. Touches(t, fs) \cap ChainLabels = {}
  BY DEF Touches
<1>2. MsgInv'
  BY <1>1, QueueStepsQuiet
<1> QED BY <1>2 DEF Kept, Ends

(* A step of msgmni and the chain.                                         *)
LEMMA ChainOnly ==
    ASSUME IInv, NEW t \in Threads, NEW fs, Ends(t, fs), UNCHANGED <<nsv, sbv, queuev>>,
           stack[t] # <<>> => Head(stack[t]).at \notin RefLabels,
           \A i \in 1 .. Len(fs) : fs[i].at \notin RefLabels,
           MsgInv'
    PROVE  Kept'
<1>0. TypeInv /\ ShapeInv /\ RefInv
  BY Before
<1>1. Touches(t, fs) \cap RefLabels = {}
  BY DEF Touches
<1>2. RefInv'
  BY <1>0, <1>1, ChainStepsQuiet DEF Ends
<1> QED BY <1>2 DEF Kept, Ends

(* ipcns_notify().                                                         *)
LEMMA Kept_notify ==
    ASSUME IInv, NEW t \in Threads, ipcns_notify(t), may' = may
    PROVE  Kept'
<1>0. TypeInv /\ ShapeInv /\ t \in Threads
  BY DEF IInv, Threads
<1>1. UNCHANGED <<nsv, sbv, queuev>>
  BY DEF ipcns_notify
<1>2. stack[t] # <<>> => Head(stack[t]).at \notin RefLabels
  BY DEF ipcns_notify, At, RefLabels
<1>a. CASE chain = <<>>
  <2>4. PICK fs : fs = <<>>
      OBVIOUS
  <2>5. Ends(t, fs)
      BY <1>a, <2>4, After_ipcns_notify
  <2>6. \A i \in 1 .. Len(fs) : fs[i].at \notin RefLabels
      BY <2>4
  <2>7. MsgInv'
      BY <1>a, <1>0, Msg_notify_none
  <2> QED BY <1>0, <1>1, <1>2, <2>5, <2>6, <2>7, ChainOnly
<1>b. CASE chain # <<>>
  <2>3. PICK u : u = Frame("walk", Head(chain))
      OBVIOUS
  <2>4. PICK fs : fs = <<u>>
      OBVIOUS
  <2>5. Ends(t, fs)
      BY <1>b, <2>3, <2>4, After_ipcns_notify
  <2>6. \A i \in 1 .. Len(fs) : fs[i].at \notin RefLabels
    <3>1. u.at = "walk"
        BY <2>3 DEF Frame, MkFrame
    <3> QED BY <2>4, <3>1 DEF RefLabels
  <2>7. MsgInv'
      BY <1>b, <1>0, Msg_notify
  <2> QED BY <1>0, <1>1, <1>2, <2>5, <2>6, <2>7, ChainOnly
<1> QED BY <1>a, <1>b

(* ipcns_callback() reads.                                                 *)
LEMMA Kept_callback_read ==
    ASSUME IInv, NEW t \in Threads, callback_read(t), may' = may
    PROVE  Kept'
<1>0. TypeInv /\ ShapeInv /\ t \in Threads
  BY DEF IInv, Threads
<1>1. UNCHANGED <<nsv, sbv, queuev>>
  BY DEF callback_read
<1>2. stack[t] # <<>> => Head(stack[t]).at \notin RefLabels
  BY DEF callback_read, At, RefLabels
<1>p. PICK nb : Ends(t, <<MkFrame("store", Arg(t), NoNs, <<nr_ipc_ns, mem>>, nb)>>)
  BY After_callback_read
<1>3. PICK u : u = MkFrame("store", Arg(t), NoNs, <<nr_ipc_ns, mem>>, nb)
  OBVIOUS
<1>4. PICK fs : fs = <<u>>
  OBVIOUS
<1>5. Ends(t, fs)
  BY <1>3, <1>4, <1>p
<1>6. \A i \in 1 .. Len(fs) : fs[i].at \notin RefLabels
  <2>1. u.at = "store"
      BY <1>3 DEF Frame, MkFrame
  <2> QED BY <1>4, <2>1 DEF RefLabels
<1>7. MsgInv'
  BY <1>0, Msg_callback_read
<1> QED BY <1>0, <1>1, <1>2, <1>5, <1>6, <1>7, ChainOnly

(* ipcns_callback() stores.                                                *)
LEMMA Kept_callback_store ==
    ASSUME IInv, NEW t \in Threads, callback_store(t), may' = may
    PROVE  Kept'
<1>0. TypeInv /\ ShapeInv /\ t \in Threads
  BY DEF IInv, Threads
<1>1. UNCHANGED <<nsv, sbv, queuev>>
  BY DEF callback_store
<1>2. stack[t] # <<>> => Head(stack[t]).at \notin RefLabels
  BY DEF callback_store, At, RefLabels
<1>a. CASE Head(stack[t]).next = NoNs
  <2>4. PICK fs : fs = <<>>
      OBVIOUS
  <2>5. Ends(t, fs)
      BY <1>a, <2>4, After_callback_store
  <2>6. \A i \in 1 .. Len(fs) : fs[i].at \notin RefLabels
      BY <2>4
  <2>7. MsgInv'
      BY <1>a, <1>0, Msg_store_end
  <2> QED BY <1>0, <1>1, <1>2, <2>5, <2>6, <2>7, ChainOnly
<1>b. CASE Head(stack[t]).next # NoNs
  <2>3. PICK u : u = Frame("walk", Head(stack[t]).next)
      OBVIOUS
  <2>4. PICK fs : fs = <<u>>
      OBVIOUS
  <2>5. Ends(t, fs)
      BY <1>b, <2>3, <2>4, After_callback_store
  <2>6. \A i \in 1 .. Len(fs) : fs[i].at \notin RefLabels
    <3>1. u.at = "walk"
        BY <2>3 DEF Frame, MkFrame
    <3> QED BY <2>4, <3>1 DEF RefLabels
  <2>7. MsgInv'
      BY <1>b, <1>0, Msg_store_next
  <2> QED BY <1>0, <1>1, <1>2, <2>5, <2>6, <2>7, ChainOnly
<1> QED BY <1>a, <1>b

(* cond_register_ipcns_notifier() clears.                                  *)
LEMMA Kept_clear ==
    ASSUME IInv, NEW t \in Threads, clear_nb(t), may' = may
    PROVE  Kept'
<1>0. TypeInv /\ ShapeInv /\ t \in Threads
  BY DEF IInv, Threads
<1>1. UNCHANGED <<nsv, sbv, queuev>>
  BY DEF clear_nb
<1>2. stack[t] # <<>> => Head(stack[t]).at \notin RefLabels
  BY DEF clear_nb, At, RefLabels
<1>3. PICK u : u = Frame("nb_call", Arg(t))
  OBVIOUS
<1>4. PICK fs : fs = <<u>>
  OBVIOUS
<1>5. Ends(t, fs)
  BY <1>3, <1>4, After_clear_nb
<1>6. \A i \in 1 .. Len(fs) : fs[i].at \notin RefLabels
  BY <1>3, <1>4 DEF RefLabels, Frame, MkFrame
<1>7. MsgInv'
  BY <1>0, Msg_clear
<1> QED BY <1>0, <1>1, <1>2, <1>5, <1>6, <1>7, ChainOnly

(* register_ipcns_notifier().                                              *)
LEMMA Kept_register ==
    ASSUME IInv, NEW t \in Threads, register_ipcns_notifier(t), may' = may
    PROVE  Kept'
<1>0. TypeInv /\ ShapeInv /\ t \in Threads
  BY DEF IInv, Threads
<1>1. UNCHANGED <<nsv, sbv, queuev>>
  BY DEF register_ipcns_notifier
<1>2. stack[t] # <<>> => Head(stack[t]).at \notin RefLabels
  BY DEF register_ipcns_notifier, At, RefLabels
<1>3. PICK u : u = Frame("flag_on", Arg(t))
  OBVIOUS
<1>4. PICK fs : fs = <<u>>
  OBVIOUS
<1>5. Ends(t, fs)
  BY <1>3, <1>4, After_register_ipcns_notifier
<1>6. \A i \in 1 .. Len(fs) : fs[i].at \notin RefLabels
  BY <1>3, <1>4 DEF RefLabels, Frame, MkFrame
<1>7. MsgInv'
  BY <1>0, Msg_register
<1> QED BY <1>0, <1>1, <1>2, <1>5, <1>6, <1>7, ChainOnly

(* unregister_ipcns_notifier().                                            *)
LEMMA Kept_unregister ==
    ASSUME IInv, NEW t \in Threads, unregister_ipcns_notifier(t), may' = may
    PROVE  Kept'
<1>0. TypeInv /\ ShapeInv /\ t \in Threads
  BY DEF IInv, Threads
<1>1. UNCHANGED <<nsv, sbv, queuev>>
  BY DEF unregister_ipcns_notifier
<1>2. stack[t] # <<>> => Head(stack[t]).at \notin RefLabels
  BY DEF unregister_ipcns_notifier, At, RefLabels
<1>3. PICK u : u = Frame("flag_off", Arg(t))
  OBVIOUS
<1>4. PICK fs : fs = <<u>>
  OBVIOUS
<1>5. Ends(t, fs)
  BY <1>3, <1>4, After_unregister_ipcns_notifier
<1>6. \A i \in 1 .. Len(fs) : fs[i].at \notin RefLabels
  BY <1>3, <1>4 DEF RefLabels, Frame, MkFrame
<1>7. MsgInv'
  BY <1>0, Msg_unregister
<1> QED BY <1>0, <1>1, <1>2, <1>5, <1>6, <1>7, ChainOnly

(* recompute_msgmni() stores.                                              *)
LEMMA Kept_compute_set ==
    ASSUME IInv, NEW t \in Threads, compute_set(t), may' = may
    PROVE  Kept'
<1>0. TypeInv /\ ShapeInv /\ t \in Threads
  BY DEF IInv, Threads
<1>1. UNCHANGED <<nsv, sbv, queuev>>
  BY DEF compute_set
<1>2. stack[t] # <<>> => Head(stack[t]).at \notin RefLabels
  BY DEF compute_set, At, RefLabels
<1>4. PICK fs : fs = <<>>
  OBVIOUS
<1>5. Ends(t, fs)
  BY <1>4, After_compute_set
<1>6. \A i \in 1 .. Len(fs) : fs[i].at \notin RefLabels
  BY <1>4
<1>7. MsgInv'
  BY <1>0, Msg_compute_set
<1> QED BY <1>0, <1>1, <1>2, <1>5, <1>6, <1>7, ChainOnly

(* create_ipc_ns() counts.                                                 *)
LEMMA Kept_nr_inc ==
    ASSUME IInv, NEW t \in Threads, nr_inc(t), may' = may
    PROVE  Kept'
<1>0. TypeInv /\ ShapeInv /\ t \in Threads
  BY DEF IInv, Threads
<1>1. UNCHANGED <<nsv, sbv, queuev>>
  BY DEF nr_inc
<1>2. stack[t] # <<>> => Head(stack[t]).at \notin RefLabels
  BY DEF nr_inc, At, RefLabels
<1>4. PICK fs : fs = <<>>
  OBVIOUS
<1>5. Ends(t, fs)
  BY <1>4, After_nr_inc
<1>6. \A i \in 1 .. Len(fs) : fs[i].at \notin RefLabels
  BY <1>4
<1>7. MsgInv'
  BY <1>0, Msg_nr_inc
<1> QED BY <1>0, <1>1, <1>2, <1>5, <1>6, <1>7, ChainOnly

(* msg_init_ns().                                                          *)
LEMMA Kept_msg_init_ns ==
    ASSUME IInv, NEW t \in Threads, msg_init_ns(t), may' = may
    PROVE  Kept'
<1>0. TypeInv /\ ShapeInv /\ t \in Threads
  BY DEF IInv, Threads
<1>1. UNCHANGED <<nsv, sbv, queuev>>
  BY DEF msg_init_ns
<1>2. stack[t] # <<>> => Head(stack[t]).at \notin RefLabels
  BY DEF msg_init_ns, At, RefLabels
<1>4. PICK fs : fs = <<>>
  OBVIOUS
<1>5. Ends(t, fs)
  BY <1>4, After_msg_init_ns
<1>6. \A i \in 1 .. Len(fs) : fs[i].at \notin RefLabels
  BY <1>4
<1>7. MsgInv'
  BY <1>0, Msg_msg_init_ns
<1> QED BY <1>0, <1>1, <1>2, <1>5, <1>6, <1>7, ChainOnly

(* free_ipc_ns() counts.                                                   *)
LEMMA Kept_nr_dec ==
    ASSUME IInv, NEW t \in Threads, nr_dec(t), may' = may
    PROVE  Kept'
<1>0. TypeInv /\ ShapeInv /\ t \in Threads
  BY DEF IInv, Threads
<1>1. UNCHANGED <<nsv, sbv, queuev>>
  BY DEF nr_dec
<1>2. stack[t] # <<>> => Head(stack[t]).at \notin RefLabels
  BY DEF nr_dec, At, RefLabels
<1>4. PICK fs : fs = <<>>
  OBVIOUS
<1>5. Ends(t, fs)
  BY <1>4, After_nr_dec
<1>6. \A i \in 1 .. Len(fs) : fs[i].at \notin RefLabels
  BY <1>4
<1>7. MsgInv'
  BY <1>0, Msg_nr_dec
<1> QED BY <1>0, <1>1, <1>2, <1>5, <1>6, <1>7, ChainOnly

(* recompute_msgmni() reads.                                               *)
LEMMA Kept_compute ==
    ASSUME IInv, NEW t \in Threads, compute(t), may' = may
    PROVE  Kept'
<1>0. TypeInv /\ ShapeInv /\ t \in Threads
  BY DEF IInv, Threads
<1>1. UNCHANGED <<nsv, sbv, queuev>>
  BY DEF compute
<1>2. stack[t] # <<>> => Head(stack[t]).at \notin RefLabels
  BY DEF compute, At, RefLabels
<1>3. PICK u : u = MkFrame("set", Arg(t), NoNs, <<nr_ipc_ns, mem>>, NoNs)
  OBVIOUS
<1>4. PICK fs : fs = <<u>>
  OBVIOUS
<1>5. Ends(t, fs)
  BY <1>3, <1>4, After_compute
<1>6. \A i \in 1 .. Len(fs) : fs[i].at \notin RefLabels
  <2>1. u.at = "set"
      BY <1>3 DEF Frame, MkFrame
  <2> QED BY <1>4, <2>1 DEF RefLabels
<1>7. MsgInv'
  BY <1>0, Msg_compute
<1> QED BY <1>0, <1>1, <1>2, <1>5, <1>6, <1>7, ChainOnly

(* A write to msgmni, full or short.                                       *)
LEMMA Kept_sysctl_msgmni ==
    ASSUME IInv, NEW t \in Tasks, sysctl_msgmni(t), may' = may
    PROVE  Kept'
<1>0. TypeInv /\ ShapeInv /\ RefInv /\ t \in Threads
  BY Before DEF Threads
<1>1. UNCHANGED <<nsv, sbv, queuev>>
  BY DEF sysctl_msgmni
<1>2. stack[t] # <<>> => Head(stack[t]).at \notin RefLabels
  BY DEF sysctl_msgmni, Idle, Reaches
<1>a. CASE Ends(t, <<Frame("unregister", nsproxy[t])>>) /\ raced' = raced \cup ({nsproxy[t]} \cap PassedBy)
  <2>3. PICK u : u = Frame("unregister", nsproxy[t])
    OBVIOUS
  <2>4. PICK fs : fs = <<u>>
    OBVIOUS
  <2>5. Ends(t, fs)
    BY <1>a, <2>3, <2>4
  <2>6. \A i \in 1 .. Len(fs) : fs[i].at \notin RefLabels
    BY <2>3, <2>4 DEF RefLabels, Frame, MkFrame
  <2>7. MsgInv'
    BY <1>a, Msg_sysctl_msgmni
  <2> QED BY <1>0, <1>1, <1>2, <2>5, <2>6, <2>7, ChainOnly
<1>b. CASE stack' = stack /\ raced' = raced \cup {nsproxy[t]} /\ TypeInv'
  <2>1. ShapeInv'
    BY <1>0, <1>b DEF ShapeInv, Shape, Below
  <2>2. MsgInv'
    BY <1>b, Msg_short_write
  <2>3. RefInv'
    BY <1>0, <1>1, <1>b, NothingMoves
  <2> QED BY <1>b, <2>1, <2>2, <2>3 DEF Kept
<1> QED BY <1>a, <1>b, After_sysctl_msgmni

(* A step that stores nothing but auto_msgmni.                             *)
LEMMA FlagOnly ==
    ASSUME IInv, NEW t \in Threads, NEW fs, Ends(t, fs), UNCHANGED <<nsv, sbv, queuev>>,
           UNCHANGED <<nr_ipc_ns, mem, msg_ctlmni, chain, loose, work, raced>>,
           stack[t] # <<>> => Head(stack[t]).at \notin RefLabels \cup FlagLabels,
           \A i \in 1 .. Len(fs) : fs[i].at \notin RefLabels \cup FlagLabels /\ fs[i].of = nsproxy[t]
    PROVE  Kept'
<1>1. Touches(t, fs) \cap FlagLabels = {}
  BY DEF Touches
<1>2. UNCHANGED <<alive, nsproxy, nr_ipc_ns, mem, msg_ctlmni, chain, loose, work, raced>>
  BY DEF nsv
<1>3. MsgInv'
  BY <1>1, <1>2, FlagStepsQuiet
<1> QED BY <1>3, ChainOnly

(* A write to auto_msgmni: oldval is read, ...                             *)
LEMMA Kept_sysctl_auto ==
    ASSUME IInv, NEW t \in Tasks, sysctl_auto_msgmni(t), may' = may
    PROVE  Kept'
<1>0. t \in Threads
  BY DEF Threads
<1>1. /\ UNCHANGED <<nsv, sbv, queuev>>
      /\ UNCHANGED <<nr_ipc_ns, mem, msg_ctlmni, chain, loose, work, raced>> /\ stack[t] = <<>>
  BY DEF sysctl_auto_msgmni, mniv, Idle
<1>2. PICK l \in {"dointvec_0", "dointvec_1"} : Ends(t, <<Frame(l, nsproxy[t])>>)
  BY After_sysctl_auto_msgmni
<1>3. PICK u : u = Frame(l, nsproxy[t])
  OBVIOUS
<1>4. PICK fs : fs = <<u>>
  OBVIOUS
<1>5. \A i \in 1 .. Len(fs) : fs[i].at \notin RefLabels \cup FlagLabels /\ fs[i].of = nsproxy[t]
  <2>1. u.at \in {"dointvec_0", "dointvec_1"} /\ u.of = nsproxy[t]
    BY <1>2, <1>3 DEF Frame, MkFrame
  <2> QED BY <1>4, <2>1 DEF RefLabels, FlagLabels, MniLabels
<1>6. Ends(t, fs)
  BY <1>2, <1>3, <1>4
<1> QED BY <1>0, <1>1, <1>5, <1>6, FlagOnly

(* ... the flag is stored, ...                                             *)
LEMMA Kept_dointvec ==
    ASSUME IInv, NEW t \in Threads, proc_dointvec_minmax(t), may' = may
    PROVE  Kept'
<1>0. TypeInv /\ ShapeInv /\ TaskInv
  BY DEF IInv
<1>1. /\ UNCHANGED <<nsv, sbv, queuev>>
      /\ UNCHANGED <<nr_ipc_ns, mem, msg_ctlmni, chain, loose, work, raced>>
  BY DEF proc_dointvec_minmax
<1>2. PICK k \in {"dointvec_0", "dointvec_1"} : At(t, k)
  BY DEF proc_dointvec_minmax
<1>3. HeadIs(t, k)
  BY <1>0, <1>2, Begin
<1>4. nsproxy[t] = Arg(t) /\ (stack[t] # <<>> => Head(stack[t]).at \notin RefLabels \cup FlagLabels)
  BY <1>0, <1>2, <1>3 DEF HeadIs, TaskInv, Sysctl, Arg, RefLabels, FlagLabels, MniLabels
<1>5. CASE Ends(t, <<>>)
  <2>1. 1 .. Len(<<>>) = {}
    OBVIOUS
  <2> QED BY <1>1, <1>4, <1>5, <2>1, FlagOnly
<1>6. ASSUME NEW l \in {"newval_0", "newval_1"}, Ends(t, <<Frame(l, Arg(t))>>) PROVE Kept'
  <2>1. PICK u : u = Frame(l, Arg(t))
    OBVIOUS
  <2>2. PICK fs : fs = <<u>>
    OBVIOUS
  <2>3. u.at \in {"newval_0", "newval_1"} /\ u.of = nsproxy[t]
    BY <1>4, <2>1 DEF Frame, MkFrame
  <2>4. \A i \in 1 .. Len(fs) : fs[i].at \notin RefLabels \cup FlagLabels /\ fs[i].of = nsproxy[t]
    BY <2>2, <2>3 DEF RefLabels, FlagLabels, MniLabels
  <2>5. Ends(t, fs)
    BY <1>6, <2>1, <2>2
  <2> QED BY <1>1, <1>4, <2>4, <2>5, FlagOnly
<1> QED BY <1>5, <1>6, After_proc_dointvec_minmax

(* ... and newval decides.                                                 *)
LEMMA Kept_auto_callback ==
    ASSUME IInv, NEW t \in Threads, ipc_auto_callback(t), may' = may
    PROVE  Kept'
<1>1. /\ UNCHANGED <<nsv, sbv, queuev>>
      /\ UNCHANGED <<nr_ipc_ns, mem, msg_ctlmni, chain, loose, work, raced>>
  BY DEF ipc_auto_callback, mniv
<1>2. stack[t] # <<>> => Head(stack[t]).at \notin RefLabels \cup FlagLabels
  BY DEF ipc_auto_callback, At, RefLabels, FlagLabels, MniLabels
<1>3. CASE Ends(t, <<>>)
  <2>1. 1 .. Len(<<>>) = {}
    OBVIOUS
  <2> QED BY <1>1, <1>2, <1>3, <2>1, FlagOnly
<1>4. CASE Ends(t, <<Frame("unregister", Arg(t))>>)
  <2>1. PICK u : u = Frame("unregister", Arg(t))
    OBVIOUS
  <2>2. PICK fs : fs = <<u>>
    OBVIOUS
  <2>3. \A i \in 1 .. Len(fs) : fs[i].at \notin RefLabels
    BY <2>1, <2>2 DEF RefLabels, Frame, MkFrame
  <2>4. Ends(t, fs)
    BY <1>4, <2>1, <2>2
  <2>5. MsgInv'
    BY <1>4, Msg_auto_off
  <2> QED BY <1>1, <1>2, <2>3, <2>4, <2>5, ChainOnly
<1>5. CASE Ends(t, <<Frame("compute", Arg(t)), Frame("clear", Arg(t)), Frame("register", Arg(t))>>)
  <2>0. PICK m : m = Arg(t)
    OBVIOUS
  <2>1. PICK u, v, w : u = Frame("compute", m) /\ v = Frame("clear", m) /\ w = Frame("register", m)
    OBVIOUS
  <2>2. PICK fs : fs = <<u, v, w>>
    OBVIOUS
  <2>3. \A i \in 1 .. Len(fs) : fs[i].at \notin RefLabels
    <3>1. u.at = "compute" /\ v.at = "clear" /\ w.at = "register"
        BY <2>1 DEF Frame, MkFrame
    <3> QED BY <2>2, <3>1 DEF RefLabels
  <2>4. Ends(t, fs)
    BY <1>5, <2>0, <2>1, <2>2
  <2>5. MsgInv'
    BY <1>5, <2>0, Msg_auto_on
  <2> QED BY <1>1, <1>2, <2>3, <2>4, <2>5, ChainOnly
<1> QED BY <1>3, <1>4, <1>5, After_ipc_auto_callback

(* notifier_call is there again; the flag after the rwsem.                 *)
LEMMA Kept_set_flags ==
    ASSUME IInv, NEW t \in Threads, set_notifier_call(t) \/ set_auto_msgmni(t), may' = may
    PROVE  Kept'
<1>1. /\ UNCHANGED <<nsv, sbv, queuev>>
      /\ UNCHANGED <<nr_ipc_ns, mem, msg_ctlmni, chain, loose, work, raced>>
  BY DEF set_notifier_call, set_auto_msgmni, mniv
<1>2. stack[t] # <<>> => Head(stack[t]).at \notin RefLabels \cup FlagLabels
  BY DEF set_notifier_call, set_auto_msgmni, At, RefLabels, FlagLabels, MniLabels
<1>3. Ends(t, <<>>) /\ 1 .. Len(<<>>) = {}
  BY After_set_notifier_call, After_set_auto_msgmni
<1> QED BY <1>1, <1>2, <1>3, FlagOnly

(* A walker calls a notifier_call that is not there.                       *)
LEMMA Kept_callback_oops ==
    ASSUME IInv, NEW t \in Threads, callback_oops(t), may' = may
    PROVE  Kept'
<1>1. UNCHANGED <<nsv, sbv, queuev>>
  BY DEF callback_oops
<1>2. stack[t] # <<>> => Head(stack[t]).at \notin RefLabels
  BY DEF callback_oops, At, RefLabels
<1>3. PICK u : u = Frame("oops", Arg(t))
  OBVIOUS
<1>4. PICK fs : fs = <<u>>
  OBVIOUS
<1>5. Ends(t, fs)
  BY <1>3, <1>4, After_callback_oops
<1>6. \A i \in 1 .. Len(fs) : fs[i].at \notin RefLabels
  BY <1>3, <1>4 DEF RefLabels, Frame, MkFrame
<1>7. MsgInv'
  BY Msg_callback_oops
<1> QED BY <1>1, <1>2, <1>5, <1>6, <1>7, ChainOnly

(* The worker.                                                             *)
LEMMA Kept_memory_notifier ==
    ASSUME IInv, NEW t \in Threads, t = kworker, ipc_memory_notifier, may' = may
    PROVE  Kept'
<1>0. TypeInv /\ ShapeInv /\ t \in Threads
  BY DEF IInv, Threads
<1>1. UNCHANGED <<nsv, sbv, queuev>>
  BY DEF ipc_memory_notifier
<1>2. stack[t] # <<>> => Head(stack[t]).at \notin RefLabels
  BY DEF ipc_memory_notifier, Idle, Reaches
<1>3. PICK u : u = Frame("notify", NoNs)
  OBVIOUS
<1>4. PICK fs : fs = <<u>>
  OBVIOUS
<1>5. Ends(t, fs)
  BY <1>3, <1>4, After_ipc_memory_notifier
<1>6. \A i \in 1 .. Len(fs) : fs[i].at \notin RefLabels
  <2>1. u.at = "notify"
      BY <1>3 DEF Frame, MkFrame
  <2> QED BY <1>4, <2>1 DEF RefLabels
<1>7. MsgInv'
  BY <1>0, Msg_ipc_memory_notifier
<1> QED BY <1>0, <1>1, <1>2, <1>5, <1>6, <1>7, ChainOnly

-----------------------------------------------------------------------------
(* mq_put_mnt().                                                           *)
LEMMA Kept_mq_put_mnt ==
    ASSUME IInv, NEW t \in Threads, mq_put_mnt(t), may' = may
    PROVE  Kept'
<1>0. TypeInv /\ ShapeInv /\ t \in Threads
  BY DEF IInv, Threads
<1>1. UNCHANGED <<alive, nsproxy, mniv>>
  BY DEF mq_put_mnt, nsv, Reaches, get_ns_from_inode
<1>2. stack[t] # <<>> => Head(stack[t]).at \notin ChainLabels
  BY DEF mq_put_mnt, At, ChainLabels, FlagLabels, MniLabels, Sysctl
<1>3. PICK u : u = Frame("mntput", mq_mnt[Arg(t)])
  OBVIOUS
<1>4. PICK fs : fs = <<u>>
  OBVIOUS
<1>5. Ends(t, fs)
  BY <1>3, <1>4, After_mq_put_mnt
<1>6. \A i \in 1 .. Len(fs) : fs[i].at \notin ChainLabels
  <2>1. u.at = "mntput"
      BY <1>3 DEF Frame, MkFrame
  <2> QED BY <1>4, <2>1 DEF ChainLabels, FlagLabels, MniLabels, Sysctl
<1>7. RefInv'
  BY <1>0, Ref_mq_put_mnt
<1> QED BY <1>0, <1>1, <1>2, <1>5, <1>6, <1>7, QueueOnly

(* mntput().                                                               *)
LEMMA Kept_mntput ==
    ASSUME IInv, NEW t \in Threads, mntput(t), may' = may
    PROVE  Kept'
<1>0. TypeInv /\ ShapeInv /\ t \in Threads
  BY DEF IInv, Threads
<1>1. UNCHANGED <<alive, nsproxy, mniv>>
  BY DEF mntput, nsv, Reaches, get_ns_from_inode
<1>2. stack[t] # <<>> => Head(stack[t]).at \notin ChainLabels
  BY DEF mntput, At, ChainLabels, FlagLabels, MniLabels, Sysctl
<1>a. CASE MntRefs(Arg(t)) = 1
  <2>3. PICK u : u = Frame("kill", Arg(t))
      OBVIOUS
  <2>4. PICK fs : fs = <<u>>
      OBVIOUS
  <2>5. Ends(t, fs)
      BY <1>a, <2>3, <2>4, After_mntput
  <2>6. \A i \in 1 .. Len(fs) : fs[i].at \notin ChainLabels
    <3>1. u.at = "kill"
        BY <2>3 DEF Frame, MkFrame
    <3> QED BY <2>4, <3>1 DEF ChainLabels, FlagLabels, MniLabels, Sysctl
  <2>7. RefInv'
      BY <1>a, <1>0, Ref_mntput_last
  <2> QED BY <1>0, <1>1, <1>2, <2>5, <2>6, <2>7, QueueOnly
<1>b. CASE MntRefs(Arg(t)) # 1
  <2>4. PICK fs : fs = <<>>
      OBVIOUS
  <2>5. Ends(t, fs)
      BY <1>b, <2>4, After_mntput
  <2>6. \A i \in 1 .. Len(fs) : fs[i].at \notin ChainLabels
      BY <2>4
  <2>7. RefInv'
      BY <1>b, <1>0, Ref_mntput_some
  <2> QED BY <1>0, <1>1, <1>2, <2>5, <2>6, <2>7, QueueOnly
<1> QED BY <1>a, <1>b

(* kill_litter_super().                                                    *)
LEMMA Kept_kill ==
    ASSUME IInv, NEW t \in Threads, kill_litter_super(t), may' = may
    PROVE  Kept'
<1>0. TypeInv /\ ShapeInv /\ t \in Threads
  BY DEF IInv, Threads
<1>1. UNCHANGED <<alive, nsproxy, mniv>>
  BY DEF kill_litter_super, nsv, Reaches, get_ns_from_inode
<1>2. stack[t] # <<>> => Head(stack[t]).at \notin ChainLabels
  BY DEF kill_litter_super, At, ChainLabels, FlagLabels, MniLabels, Sysctl
<1>a. CASE {q \in Queues : inode[q] # NoQueue /\ inode[q].sb = Arg(t)} = {}
  <2>4. PICK fs : fs = <<>>
      OBVIOUS
  <2>5. Ends(t, fs)
      BY <1>a, <2>4, After_kill_litter_super
  <2>6. \A i \in 1 .. Len(fs) : fs[i].at \notin ChainLabels
      BY <2>4
  <2>7. RefInv'
      BY <1>a, <1>0, Ref_kill_empty
  <2> QED BY <1>0, <1>1, <1>2, <2>5, <2>6, <2>7, QueueOnly
<1>b. CASE {q \in Queues : inode[q] # NoQueue /\ inode[q].sb = Arg(t)} # {}
  <2>p. PICK q : Ends(t, <<Frame("delete", q), Frame("kill", Arg(t))>>)
      BY <1>b, After_kill_litter_super
  <2>3. PICK u, v : u = Frame("delete", q) /\ v = Frame("kill", Arg(t))
      OBVIOUS
  <2>4. PICK fs : fs = <<u, v>>
      OBVIOUS
  <2>5. Ends(t, fs)
      BY <1>b, <2>3, <2>4, <2>p
  <2>6. \A i \in 1 .. Len(fs) : fs[i].at \notin ChainLabels
    <3>1. u.at = "delete" /\ v.at = "kill"
        BY <2>3 DEF Frame, MkFrame
    <3> QED BY <2>4, <3>1 DEF ChainLabels, FlagLabels, MniLabels, Sysctl
  <2>7. RefInv'
      BY <1>b, <1>0, Ref_kill_left
  <2> QED BY <1>0, <1>1, <1>2, <2>5, <2>6, <2>7, QueueOnly
<1> QED BY <1>a, <1>b

(* mqueue_create() begins.                                                 *)
LEMMA Kept_mqueue_create ==
    ASSUME IInv, NEW t \in Tasks, NEW s \in Sbs, mqueue_create(t, s), may' = may
    PROVE  Kept'
<1>0. TypeInv /\ ShapeInv /\ t \in Threads
  BY DEF IInv, Threads
<1>1. UNCHANGED <<alive, nsproxy, mniv>>
  BY DEF mqueue_create, nsv, Reaches, get_ns_from_inode
<1>2. stack[t] # <<>> => Head(stack[t]).at \notin ChainLabels
  BY DEF mqueue_create, Idle, Reaches
<1>a. CASE AtLimit(t, s_fs_info[s])
  <2>3. PICK u, v : u = Frame("put", s_fs_info[s]) /\ v = Frame("mntput", s)
      OBVIOUS
  <2>4. PICK fs : fs = <<u, v>>
      OBVIOUS
  <2>5. Ends(t, fs)
      BY <1>a, <2>3, <2>4, After_mqueue_create
  <2>6. \A i \in 1 .. Len(fs) : fs[i].at \notin ChainLabels
    <3>1. u.at = "put" /\ v.at = "mntput"
        BY <2>3 DEF Frame, MkFrame
    <3> QED BY <2>4, <3>1 DEF ChainLabels, FlagLabels, MniLabels, Sysctl
  <2>7. RefInv'
      BY <1>a, <1>0, Ref_mqueue_create_full
  <2> QED BY <1>0, <1>1, <1>2, <2>5, <2>6, <2>7, QueueOnly
<1>b. CASE ~AtLimit(t, s_fs_info[s])
  <2>3. PICK u, v : u = MkFrame("inode", s, s_fs_info[s], ByHand, NoNs) /\ v = Frame("mntput", s)
      OBVIOUS
  <2>4. PICK fs : fs = <<u, v>>
      OBVIOUS
  <2>5. Ends(t, fs)
      BY <1>b, <2>3, <2>4, After_mqueue_create
  <2>6. \A i \in 1 .. Len(fs) : fs[i].at \notin ChainLabels
    <3>1. u.at = "inode" /\ v.at = "mntput"
        BY <2>3 DEF Frame, MkFrame
    <3> QED BY <2>4, <3>1 DEF ChainLabels, FlagLabels, MniLabels, Sysctl
  <2>7. RefInv'
      BY <1>b, <1>0, Ref_mqueue_create_ok
  <2> QED BY <1>0, <1>1, <1>2, <2>5, <2>6, <2>7, QueueOnly
<1> QED BY <1>a, <1>b

(* mqueue_get_inode().                                                     *)
LEMMA Kept_mqueue_get_inode ==
    ASSUME IInv, NEW t \in Threads, mqueue_get_inode(t), may' = may
    PROVE  Kept'
<1>0. TypeInv /\ ShapeInv /\ t \in Threads
  BY DEF IInv, Threads
<1>1. UNCHANGED <<alive, nsproxy, mniv>>
  BY DEF mqueue_get_inode, nsv, Reaches, get_ns_from_inode
<1>2. stack[t] # <<>> => Head(stack[t]).at \notin ChainLabels
  BY DEF mqueue_get_inode, At, ChainLabels, FlagLabels, MniLabels, Sysctl
<1>p. PICK q : Ends(t, <<Frame("put", Head(stack[t]).ns), Frame("instantiate", q)>>)
  BY After_mqueue_get_inode
<1>3. PICK u, v : u = Frame("put", Head(stack[t]).ns) /\ v = Frame("instantiate", q)
  OBVIOUS
<1>4. PICK fs : fs = <<u, v>>
  OBVIOUS
<1>5. Ends(t, fs)
  BY <1>3, <1>4, <1>p
<1>6. \A i \in 1 .. Len(fs) : fs[i].at \notin ChainLabels
  <2>1. u.at = "put" /\ v.at = "instantiate"
      BY <1>3 DEF Frame, MkFrame
  <2> QED BY <1>4, <2>1 DEF ChainLabels, FlagLabels, MniLabels, Sysctl
<1>7. RefInv'
  BY <1>0, Ref_mqueue_get_inode
<1> QED BY <1>0, <1>1, <1>2, <1>5, <1>6, <1>7, QueueOnly

(* mqueue_get_inode() fails.                                               *)
LEMMA Kept_mqueue_get_inode_fails ==
    ASSUME IInv, NEW t \in Threads, mqueue_get_inode_fails(t), may' = may
    PROVE  Kept'
<1>0. TypeInv /\ ShapeInv /\ t \in Threads
  BY DEF IInv, Threads
<1>1. UNCHANGED <<alive, nsproxy, mniv>>
  BY DEF mqueue_get_inode_fails, nsv, Reaches, get_ns_from_inode
<1>2. stack[t] # <<>> => Head(stack[t]).at \notin ChainLabels
  BY DEF mqueue_get_inode_fails, At, ChainLabels, FlagLabels, MniLabels, Sysctl
<1>p. PICK q : Ends(t, <<Frame("delete", q), Frame("uncount", Head(stack[t]).ns), Frame("put", Head(stack[t]).ns)>>)
  BY After_mqueue_get_inode_fails
<1>3. PICK u, v, w : u = Frame("delete", q) /\ v = Frame("uncount", Head(stack[t]).ns) /\ w = Frame("put", Head(stack[t]).ns)
  OBVIOUS
<1>4. PICK fs : fs = <<u, v, w>>
  OBVIOUS
<1>5. Ends(t, fs)
  BY <1>3, <1>4, <1>p
<1>6. \A i \in 1 .. Len(fs) : fs[i].at \notin ChainLabels
  <2>1. u.at = "delete" /\ v.at = "uncount" /\ w.at = "put"
      BY <1>3 DEF Frame, MkFrame
  <2> QED BY <1>4, <2>1 DEF ChainLabels, FlagLabels, MniLabels, Sysctl
<1>7. RefInv'
  BY <1>0, Ref_mqueue_get_inode_fails
<1> QED BY <1>0, <1>1, <1>2, <1>5, <1>6, <1>7, QueueOnly

(* new_inode() fails.                                                      *)
LEMMA Kept_new_inode_fails ==
    ASSUME IInv, NEW t \in Threads, new_inode_fails(t), may' = may
    PROVE  Kept'
<1>0. TypeInv /\ ShapeInv /\ t \in Threads
  BY DEF IInv, Threads
<1>1. UNCHANGED <<alive, nsproxy, mniv>>
  BY DEF new_inode_fails, nsv, Reaches, get_ns_from_inode
<1>2. stack[t] # <<>> => Head(stack[t]).at \notin ChainLabels
  BY DEF new_inode_fails, At, ChainLabels, FlagLabels, MniLabels, Sysctl
<1>3. PICK u, v : u = Frame("uncount", Head(stack[t]).ns) /\ v = Frame("put", Head(stack[t]).ns)
  OBVIOUS
<1>4. PICK fs : fs = <<u, v>>
  OBVIOUS
<1>5. Ends(t, fs)
  BY <1>3, <1>4, After_new_inode_fails
<1>6. \A i \in 1 .. Len(fs) : fs[i].at \notin ChainLabels
  <2>1. u.at = "uncount" /\ v.at = "put"
      BY <1>3 DEF Frame, MkFrame
  <2> QED BY <1>4, <2>1 DEF ChainLabels, FlagLabels, MniLabels, Sysctl
<1>7. RefInv'
  BY <1>0, Ref_new_inode_fails
<1> QED BY <1>0, <1>1, <1>2, <1>5, <1>6, <1>7, QueueOnly

(* mqueue_create() takes its count back.                                   *)
LEMMA Kept_uncount ==
    ASSUME IInv, NEW t \in Threads, uncount(t), may' = may
    PROVE  Kept'
<1>0. TypeInv /\ ShapeInv /\ t \in Threads
  BY DEF IInv, Threads
<1>1. UNCHANGED <<alive, nsproxy, mniv>>
  BY DEF uncount, nsv, Reaches, get_ns_from_inode
<1>2. stack[t] # <<>> => Head(stack[t]).at \notin ChainLabels
  BY DEF uncount, At, ChainLabels, FlagLabels, MniLabels, Sysctl
<1>4. PICK fs : fs = <<>>
  OBVIOUS
<1>5. Ends(t, fs)
  BY <1>4, After_uncount
<1>6. \A i \in 1 .. Len(fs) : fs[i].at \notin ChainLabels
  BY <1>4
<1>7. RefInv'
  BY <1>0, Ref_uncount
<1> QED BY <1>0, <1>1, <1>2, <1>5, <1>6, <1>7, QueueOnly

(* d_instantiate().                                                        *)
LEMMA Kept_instantiate ==
    ASSUME IInv, NEW t \in Threads, instantiate(t), may' = may
    PROVE  Kept'
<1>0. TypeInv /\ ShapeInv /\ t \in Threads
  BY DEF IInv, Threads
<1>1. UNCHANGED <<alive, nsproxy, mniv>>
  BY DEF instantiate, nsv, Reaches, get_ns_from_inode
<1>2. stack[t] # <<>> => Head(stack[t]).at \notin ChainLabels
  BY DEF instantiate, At, ChainLabels, FlagLabels, MniLabels, Sysctl
<1>4. PICK fs : fs = <<>>
  OBVIOUS
<1>5. Ends(t, fs)
  BY <1>4, After_instantiate
<1>6. \A i \in 1 .. Len(fs) : fs[i].at \notin ChainLabels
  BY <1>4
<1>7. RefInv'
  BY <1>0, Ref_instantiate
<1> QED BY <1>0, <1>1, <1>2, <1>5, <1>6, <1>7, QueueOnly

(* mqueue_delete_inode() begins.                                           *)
LEMMA Kept_delete ==
    ASSUME IInv, NEW t \in Threads, mqueue_delete_inode(t), may' = may
    PROVE  Kept'
<1>0. TypeInv /\ ShapeInv /\ t \in Threads
  BY DEF IInv, Threads
<1>1. UNCHANGED <<alive, nsproxy, mniv>>
  BY DEF mqueue_delete_inode, nsv, Reaches, get_ns_from_inode
<1>2. stack[t] # <<>> => Head(stack[t]).at \notin ChainLabels
  BY DEF mqueue_delete_inode, At, ChainLabels, FlagLabels, MniLabels, Sysctl
<1>3. PICK u : u = MkFrame("release", Arg(t), s_fs_info[inode[Arg(t)].sb], ByHand, NoNs)
  OBVIOUS
<1>4. PICK fs : fs = <<u>>
  OBVIOUS
<1>5. Ends(t, fs)
  BY <1>3, <1>4, After_mqueue_delete_inode
<1>6. \A i \in 1 .. Len(fs) : fs[i].at \notin ChainLabels
  <2>1. u.at = "release"
      BY <1>3 DEF Frame, MkFrame
  <2> QED BY <1>4, <2>1 DEF ChainLabels, FlagLabels, MniLabels, Sysctl
<1>7. RefInv'
  BY <1>0, Ref_mqueue_delete_inode
<1> QED BY <1>0, <1>1, <1>2, <1>5, <1>6, <1>7, QueueOnly

(* mqueue_delete_inode() ends.                                             *)
LEMMA Kept_release ==
    ASSUME IInv, NEW t \in Threads, release_inode(t), may' = may
    PROVE  Kept'
<1>0. TypeInv /\ ShapeInv /\ t \in Threads
  BY DEF IInv, Threads
<1>1. UNCHANGED <<alive, nsproxy, mniv>>
  BY DEF release_inode, nsv, Reaches, get_ns_from_inode
<1>2. stack[t] # <<>> => Head(stack[t]).at \notin ChainLabels
  BY DEF release_inode, At, ChainLabels, FlagLabels, MniLabels, Sysctl
<1>a. CASE Head(stack[t]).ns = NoNs
  <2>4. PICK fs : fs = <<>>
      OBVIOUS
  <2>5. Ends(t, fs)
      BY <1>a, <2>4, After_release_inode
  <2>6. \A i \in 1 .. Len(fs) : fs[i].at \notin ChainLabels
      BY <2>4
  <2>7. RefInv'
      BY <1>a, <1>0, Ref_release_gone
  <2> QED BY <1>0, <1>1, <1>2, <2>5, <2>6, <2>7, QueueOnly
<1>b. CASE Head(stack[t]).ns # NoNs
  <2>3. PICK u : u = Frame("put", Head(stack[t]).ns)
      OBVIOUS
  <2>4. PICK fs : fs = <<u>>
      OBVIOUS
  <2>5. Ends(t, fs)
      BY <1>b, <2>3, <2>4, After_release_inode
  <2>6. \A i \in 1 .. Len(fs) : fs[i].at \notin ChainLabels
    <3>1. u.at = "put"
        BY <2>3 DEF Frame, MkFrame
    <3> QED BY <2>4, <3>1 DEF ChainLabels, FlagLabels, MniLabels, Sysctl
  <2>7. RefInv'
      BY <1>b, <1>0, Ref_release_held
  <2> QED BY <1>0, <1>1, <1>2, <2>5, <2>6, <2>7, QueueOnly
<1> QED BY <1>a, <1>b

(* close().                                                                *)
LEMMA Kept_close ==
    ASSUME IInv, NEW t \in Tasks, NEW q \in Queues, close(t, q), may' = may
    PROVE  Kept'
<1>0. TypeInv /\ ShapeInv /\ t \in Threads
  BY DEF IInv, Threads
<1>1. UNCHANGED <<alive, nsproxy, mniv>>
  BY DEF close, nsv, Reaches, get_ns_from_inode
<1>2. stack[t] # <<>> => Head(stack[t]).at \notin ChainLabels
  BY DEF close, Idle, Reaches
<1>a. CASE inode[q].link \/ inode[q].fds \ {t} # {}
  <2>3. PICK u : u = Frame("mntput", inode[q].sb)
      OBVIOUS
  <2>4. PICK fs : fs = <<u>>
      OBVIOUS
  <2>5. Ends(t, fs)
      BY <1>a, <2>3, <2>4, After_close
  <2>6. \A i \in 1 .. Len(fs) : fs[i].at \notin ChainLabels
    <3>1. u.at = "mntput"
        BY <2>3 DEF Frame, MkFrame
    <3> QED BY <2>4, <3>1 DEF ChainLabels, FlagLabels, MniLabels, Sysctl
  <2>7. RefInv'
      BY <1>a, <1>0, Ref_close_more
  <2> QED BY <1>0, <1>1, <1>2, <2>5, <2>6, <2>7, QueueOnly
<1>b. CASE ~(inode[q].link \/ inode[q].fds \ {t} # {})
  <2>3. PICK u, v : u = Frame("delete", q) /\ v = Frame("mntput", inode[q].sb)
      OBVIOUS
  <2>4. PICK fs : fs = <<u, v>>
      OBVIOUS
  <2>5. Ends(t, fs)
      BY <1>b, <2>3, <2>4, After_close
  <2>6. \A i \in 1 .. Len(fs) : fs[i].at \notin ChainLabels
    <3>1. u.at = "delete" /\ v.at = "mntput"
        BY <2>3 DEF Frame, MkFrame
    <3> QED BY <2>4, <3>1 DEF ChainLabels, FlagLabels, MniLabels, Sysctl
  <2>7. RefInv'
      BY <1>b, <1>0, Ref_close_last
  <2> QED BY <1>0, <1>1, <1>2, <2>5, <2>6, <2>7, QueueOnly
<1> QED BY <1>a, <1>b

(* mq_unlink().                                                            *)
LEMMA Kept_mq_unlink ==
    ASSUME IInv, NEW t \in Tasks, NEW q \in Queues, mq_unlink(t, q), may' = may
    PROVE  Kept'
<1>0. TypeInv /\ ShapeInv /\ t \in Threads
  BY DEF IInv, Threads
<1>1. UNCHANGED <<alive, nsproxy, mniv>>
  BY DEF mq_unlink, nsv, Reaches, get_ns_from_inode
<1>2. stack[t] # <<>> => Head(stack[t]).at \notin ChainLabels
  BY DEF mq_unlink, Idle, Reaches
<1>a. CASE inode[q].fds # {}
  <2>3. PICK u : u = Frame("mntput", inode[q].sb)
      OBVIOUS
  <2>4. PICK fs : fs = <<u>>
      OBVIOUS
  <2>5. Ends(t, fs)
      BY <1>a, <2>3, <2>4, After_mq_unlink
  <2>6. \A i \in 1 .. Len(fs) : fs[i].at \notin ChainLabels
    <3>1. u.at = "mntput"
        BY <2>3 DEF Frame, MkFrame
    <3> QED BY <2>4, <3>1 DEF ChainLabels, FlagLabels, MniLabels, Sysctl
  <2>7. RefInv'
      BY <1>a, <1>0, Ref_mq_unlink_more
  <2> QED BY <1>0, <1>1, <1>2, <2>5, <2>6, <2>7, QueueOnly
<1>b. CASE ~(inode[q].fds # {})
  <2>3. PICK u, v : u = Frame("delete", q) /\ v = Frame("mntput", inode[q].sb)
      OBVIOUS
  <2>4. PICK fs : fs = <<u, v>>
      OBVIOUS
  <2>5. Ends(t, fs)
      BY <1>b, <2>3, <2>4, After_mq_unlink
  <2>6. \A i \in 1 .. Len(fs) : fs[i].at \notin ChainLabels
    <3>1. u.at = "delete" /\ v.at = "mntput"
        BY <2>3 DEF Frame, MkFrame
    <3> QED BY <2>4, <3>1 DEF ChainLabels, FlagLabels, MniLabels, Sysctl
  <2>7. RefInv'
      BY <1>b, <1>0, Ref_mq_unlink_last
  <2> QED BY <1>0, <1>1, <1>2, <2>5, <2>6, <2>7, QueueOnly
<1> QED BY <1>a, <1>b

(* umount().                                                               *)
LEMMA Kept_umount ==
    ASSUME IInv, NEW t \in Tasks, NEW s \in Sbs, umount(t, s), may' = may
    PROVE  Kept'
<1>0. TypeInv /\ ShapeInv /\ t \in Threads
  BY DEF IInv, Threads
<1>1. UNCHANGED <<alive, nsproxy, mniv>>
  BY DEF umount, nsv, Reaches, get_ns_from_inode
<1>2. stack[t] # <<>> => Head(stack[t]).at \notin ChainLabels
  BY DEF umount, Idle, Reaches
<1>3. PICK u : u = Frame("mntput", s)
  OBVIOUS
<1>4. PICK fs : fs = <<u>>
  OBVIOUS
<1>5. Ends(t, fs)
  BY <1>3, <1>4, After_umount
<1>6. \A i \in 1 .. Len(fs) : fs[i].at \notin ChainLabels
  <2>1. u.at = "mntput"
      BY <1>3 DEF Frame, MkFrame
  <2> QED BY <1>4, <2>1 DEF ChainLabels, FlagLabels, MniLabels, Sysctl
<1>7. RefInv'
  BY <1>0, Ref_umount
<1> QED BY <1>0, <1>1, <1>2, <1>5, <1>6, <1>7, QueueOnly

(* put_ipc_ns().                                                           *)
LEMMA Kept_put ==
    ASSUME IInv, NEW t \in Threads, put_ipc_ns(t), may' = may
    PROVE  Kept'
<1>1. CASE count[Arg(t)] # 1
  <2>1. Ends(t, <<>>)
    BY <1>1, After_put_ipc_ns
  <2>2. UNCHANGED <<alive, nsproxy, mniv>>
    BY DEF put_ipc_ns
  <2>3. stack[t] # <<>> => Head(stack[t]).at \notin ChainLabels
    BY DEF put_ipc_ns, At, ChainLabels, FlagLabels, MniLabels, Sysctl
  <2>4. PICK fs : fs = <<>>
    OBVIOUS
  <2>5. \A i \in 1 .. Len(fs) : fs[i].at \notin ChainLabels
    BY <2>4
  <2>6. RefInv'
    BY <1>1, Ref_put_some
  <2> QED BY <2>1, <2>2, <2>3, <2>4, <2>5, <2>6, QueueOnly
<1>2. CASE count[Arg(t)] = 1
  <2>1. TypeInv' /\ ShapeInv'
    BY <1>2, After_put_ipc_ns DEF Ends
  <2> QED BY <1>2, <2>1, Ref_put_last, Msg_put_last DEF Kept
<1> QED BY <1>1, <1>2

(* Tasks change their namespace; a namespace is created and freed.         *)
LEMMA Kept_namespaces ==
    ASSUME IInv, NEW t \in Threads, may' = may,
           \/ switch(t) \/ kfree_ns(t)
           \/ t \in Tasks /\ (exit(t) \/ create_ipc_ns(t))
    PROVE  Kept'
<1>1. CASE switch(t)
  BY <1>1, After_switch, Ref_switch, Msg_switch DEF Kept, Ends
<1>2. CASE kfree_ns(t)
  BY <1>2, After_kfree_ns, Ref_kfree, Msg_kfree DEF Kept, Ends
<1>3. CASE t \in Tasks /\ exit(t)
  BY <1>3, After_exit, Ref_exit, Msg_exit DEF Kept, Ends
<1>4. CASE t \in Tasks /\ create_ipc_ns(t)
  <2>1. TypeInv' /\ ShapeInv'
    BY <1>4, After_create_ipc_ns DEF Ends
  <2> QED BY <1>4, <2>1, Ref_create, Msg_create DEF Kept
<1> QED BY <1>1, <1>2, <1>3, <1>4

(* Nothing changes.                                                        *)
LEMMA StutterKeeps ==
    ASSUME IInv, UNCHANGED <<nsv, mniv, sbv, queuev, stack>>, may' = may
    PROVE  Kept'
<1>1. /\ alive' = alive /\ count' = count /\ nsproxy' = nsproxy /\ nr_ipc_ns' = nr_ipc_ns /\ mem' = mem
      /\ msg_ctlmni' = msg_ctlmni /\ auto_msgmni' = auto_msgmni /\ chain' = chain /\ loose' = loose
      /\ work' = work /\ mq_mnt' = mq_mnt /\ s_fs_info' = s_fs_info /\ usermnt' = usermnt
      /\ inode' = inode /\ mq_queues_count' = mq_queues_count /\ mq_bytes' = mq_bytes
      /\ stack' = stack /\ raced' = raced /\ may' = may
  BY DEF nsv, mniv, sbv, queuev
<1>2. TypeInv' /\ ShapeInv'
  BY <1>1 DEF IInv, TypeInv, ShapeInv, Shape, ArgsOK, Below
<1>3. RefInv
  BY Before
<1>4. RefInv'
  BY <1>1, <1>3, NothingMoves DEF nsv, sbv, queuev
<1>5. TaskInv'
  BY <1>1 DEF IInv, TaskInv, Frames
<1>6. /\ \A u : Frames(u)' = Frames(u)
      /\ \A u, l : At(u, l)' <=> At(u, l)
      /\ \A u, i, S : Above(u, i, S)' <=> Above(u, i, S)
      /\ \A S : Total(S)' = Total(S)
      /\ \A u : Arg(u)' = Arg(u) /\ Now' = Now
  BY <1>1 DEF Frames, At, Above, Total, Times, Arg, Now
<1>7. ChainInv'
  <2>1. Walked' = Walked
      BY <1>1, <1>6 DEF Walked
  <2> QED BY <1>1, <1>6, <2>1 DEF IInv, ChainInv, Visible
<1>8. NrInv'
  <2>1. Starting' = Starting
      BY <1>6 DEF Starting
  <2> QED BY <1>1, <1>6, <2>1 DEF IInv, NrInv
<1>9. MniInv'
  <2>1. /\ \A u, n : Stores(u, n)' <=> Stores(u, n)
        /\ \A n : Storing(n)' <=> Storing(n)
        /\ \A n : Unregistering(n)' <=> Unregistering(n)
        /\ PassedBy' = PassedBy
      BY <1>6 DEF Stores, Storing, Unregistering, PassedBy
  <2>2. \A n : Current(n)' <=> Current(n)
      BY <1>1, <1>6, <2>1 DEF Current
  <2>3. \A n : ReadPending(n)' <=> ReadPending(n)
    <3>1. \A u, n : Approaches(u, n)' <=> Approaches(u, n)
      BY <1>1, <1>6 DEF Approaches
    <3> QED BY <1>1, <1>6, <3>1 DEF ReadPending
  <2> QED BY <1>1, <2>1, <2>2, <2>3 DEF IInv, MniInv
<1> QED BY <1>2, <1>4, <1>5, <1>7, <1>8, <1>9 DEF Kept, MsgInv

(* No task moves.                                                          *)
LEMMA Kept_rest ==
    ASSUME IInv, may' = may,
           \/ Stay
           \/ \E t \in Tasks : hotplug(t) \/ mount(t) \/ \E q \in Queues : do_open(t, q)
    PROVE  Kept'
<1>0. TypeInv /\ ShapeInv /\ RefInv
  BY Before
<1>1. stack' = stack
  BY DEF Stay, hotplug, mount, do_open
<1>2. TypeInv' /\ ShapeInv'
  BY <1>1, After_rest
<1>3. ASSUME NEW t \in Threads, stack[t] = <<>>, UNCHANGED <<alive, nsproxy, mniv>> PROVE MsgInv'
  <2>1. PICK fs : fs = <<>>
    OBVIOUS
  <2>2. Ends(t, fs) /\ Touches(t, fs) = {}
    BY <1>0, <1>1, <1>2, <1>3, <2>1, StaysIdle
  <2>3. Touches(t, fs) \cap ChainLabels = {}
    BY <2>2
  <2> QED BY <1>3, <2>2, <2>3, QueueStepsQuiet
<1>4. CASE Stay
  <2>1. UNCHANGED <<nsv, mniv, sbv, queuev, stack>>
    BY <1>4 DEF Stay
  <2> QED BY <2>1, StutterKeeps
<1>5. ASSUME NEW t \in Tasks, hotplug(t) PROVE Kept'
  <2>1. UNCHANGED <<nsv, sbv, queuev, stack>>
    BY <1>5 DEF hotplug
  <2>2. RefInv'
    BY <1>0, <2>1, NothingMoves
  <2> QED BY <1>2, <1>5, <2>2, Msg_hotplug DEF Kept
<1>6. ASSUME NEW t \in Tasks, mount(t) PROVE Kept'
  <2>1. t \in Threads /\ stack[t] = <<>> /\ UNCHANGED <<alive, nsproxy, mniv>>
    BY <1>6 DEF mount, Idle, nsv, Threads
  <2> QED BY <1>2, <1>3, <1>6, <2>1, Ref_mount DEF Kept
<1>7. ASSUME NEW t \in Tasks, NEW q \in Queues, do_open(t, q) PROVE Kept'
  <2>1. t \in Threads /\ stack[t] = <<>> /\ UNCHANGED <<alive, nsproxy, mniv>>
    BY <1>7 DEF do_open, Reaches, Idle, nsv, Threads
  <2> QED BY <1>2, <1>3, <1>7, <2>1, Ref_do_open DEF Kept
<1> QED BY <1>4, <1>5, <1>6, <1>7

-----------------------------------------------------------------------------
(* A task enters the kernel.                                               *)
LEMMA Kept_Call ==
    ASSUME IInv, NEW t \in Tasks, Call(t), may' = may
    PROVE  Kept'
<1>1. CASE hotplug(t) \/ mount(t) \/ \E q \in Queues : do_open(t, q)
  BY <1>1, Kept_rest
<1>2. CASE create_ipc_ns(t) \/ exit(t)
  <2>1. t \in Threads
    BY DEF Threads
  <2> QED BY <1>2, <2>1, Kept_namespaces
<1>3. CASE sysctl_msgmni(t)
  BY <1>3, Kept_sysctl_msgmni
<1>4. CASE sysctl_auto_msgmni(t)
  BY <1>4, Kept_sysctl_auto
<1>5. ASSUME NEW s \in Sbs, mqueue_create(t, s) PROVE Kept'
  BY <1>5, Kept_mqueue_create
<1>6. ASSUME NEW s \in Sbs, umount(t, s) PROVE Kept'
  BY <1>6, Kept_umount
<1>7. ASSUME NEW q \in Queues, close(t, q) PROVE Kept'
  BY <1>7, Kept_close
<1>8. ASSUME NEW q \in Queues, mq_unlink(t, q) PROVE Kept'
  BY <1>8, Kept_mq_unlink
<1> QED BY <1>1, <1>2, <1>3, <1>4, <1>5, <1>6, <1>7, <1>8 DEF Call

(* A thread goes on in the kernel.                                         *)
LEMMA Kept_Step ==
    ASSUME IInv, NEW t \in Threads, Step(t), may' = may
    PROVE  Kept'
<1>1. CASE ipcns_notify(t)
  BY <1>1, Kept_notify
<1>2. CASE callback_read(t)
  BY <1>2, Kept_callback_read
<1>3. CASE callback_store(t)
  BY <1>3, Kept_callback_store
<1>4. CASE clear_nb(t)
  BY <1>4, Kept_clear
<1>5. CASE register_ipcns_notifier(t)
  BY <1>5, Kept_register
<1>6. CASE unregister_ipcns_notifier(t)
  BY <1>6, Kept_unregister
<1>7. CASE compute(t)
  BY <1>7, Kept_compute
<1>8. CASE compute_set(t)
  BY <1>8, Kept_compute_set
<1>9. CASE nr_inc(t)
  BY <1>9, Kept_nr_inc
<1>10. CASE msg_init_ns(t)
  BY <1>10, Kept_msg_init_ns
<1>11. CASE put_ipc_ns(t)
  BY <1>11, Kept_put
<1>12. CASE mq_put_mnt(t)
  BY <1>12, Kept_mq_put_mnt
<1>13. CASE nr_dec(t)
  BY <1>13, Kept_nr_dec
<1>14. CASE mntput(t)
  BY <1>14, Kept_mntput
<1>15. CASE kill_litter_super(t)
  BY <1>15, Kept_kill
<1>16. CASE mqueue_get_inode(t)
  BY <1>16, Kept_mqueue_get_inode
<1>17. CASE mqueue_get_inode_fails(t)
  BY <1>17, Kept_mqueue_get_inode_fails
<1>18. CASE new_inode_fails(t)
  BY <1>18, Kept_new_inode_fails
<1>19. CASE uncount(t)
  BY <1>19, Kept_uncount
<1>20. CASE instantiate(t)
  BY <1>20, Kept_instantiate
<1>21. CASE mqueue_delete_inode(t)
  BY <1>21, Kept_delete
<1>22. CASE release_inode(t)
  BY <1>22, Kept_release
<1>23. CASE switch(t) \/ kfree_ns(t)
  BY <1>23, Kept_namespaces
<1>24. CASE callback_oops(t)
  BY <1>24, Kept_callback_oops
<1>25. CASE set_notifier_call(t) \/ set_auto_msgmni(t)
  BY <1>25, Kept_set_flags
<1>26. CASE proc_dointvec_minmax(t)
  BY <1>26, Kept_dointvec
<1>27. CASE ipc_auto_callback(t)
  BY <1>27, Kept_auto_callback
<1> QED BY <1>1, <1>2, <1>3, <1>4, <1>5, <1>6, <1>7, <1>8, <1>9, <1>10, <1>11,
       <1>12, <1>13, <1>14, <1>15, <1>16, <1>17, <1>18, <1>19, <1>20, <1>21, <1>22, <1>23,
       <1>24, <1>25, <1>26, <1>27 DEF Step

(* The inductive step.                                                     *)
LEMMA NextKeeps ==
    ASSUME IInv, [Next]_vars
    PROVE  IInv'
<1>1. CASE Next
  <2>0. may' = may
    BY <1>1 DEF Next
  <2>1. ASSUME NEW t \in Tasks, Call(t) PROVE Kept'
    BY <2>0, <2>1, Kept_Call
  <2>2. ASSUME NEW t \in Threads, Step(t) PROVE Kept'
    BY <2>0, <2>2, Kept_Step
  <2>3. ASSUME ipc_memory_notifier PROVE Kept'
    <3>1. PICK t \in Threads : t = kworker
        BY DEF Threads
    <3> QED BY <2>0, <2>3, <3>1, Kept_memory_notifier
  <2>4. ASSUME Stay PROVE Kept'
    BY <2>0, <2>4, Kept_rest
  <2>5. Kept'
    BY <1>1, <2>1, <2>2, <2>3, <2>4 DEF Next
  <2> QED BY <2>5, KeptIs, PTL
<1>2. CASE UNCHANGED vars
  <2>1. UNCHANGED <<nsv, mniv, sbv, queuev, stack>> /\ may' = may
    BY <1>2 DEF vars
  <2>2. Kept'
    BY <2>1, StutterKeeps
  <2> QED BY <2>2, KeptIs, PTL
<1> QED BY <1>1, <1>2

-----------------------------------------------------------------------------
(* At the start nobody is in the kernel.                                   *)
LEMMA InitStacks ==
    ASSUME Init
    PROVE  /\ stack \in [Threads -> Seq(FrameSet)]
           /\ \A t \in Threads : stack[t] = <<>> /\ DOMAIN stack[t] = {} /\ Frames(t) = {}
           /\ \A t \in Threads : \A l : ~At(t, l)
           /\ \A S : Total(S) = 0
<1>1. stack \in [Threads -> Seq(FrameSet)] /\ \A t \in Threads : stack[t] = <<>>
  BY DEF Init
<1>2. \A t \in Threads : DOMAIN stack[t] = {}
  BY <1>1
<1>3. \A t \in Threads : Frames(t) = {}
  BY <1>2 DEF Frames
<1>4. \A S : Total(S) = 0
  BY <1>1, <1>2, TotalPlaces
<1> QED BY <1>1, <1>2, <1>3, <1>4 DEF At

(* The namespaces at the start, and the references to them.                *)
LEMMA InitNss ==
    ASSUME Init
    PROVE  /\ alive \subseteq Nss /\ IsFiniteSet(alive) /\ Cardinality(alive) \in Nat
           /\ nsproxy \in [Tasks -> Nss] /\ may \in Scenarios
           /\ \A n \in Nss : /\ nT(n) \in Nat
                             /\ count[n] = nT(n) + (IF n = init_ipc_ns THEN 1 ELSE 0)
                             /\ count[n] > 0 <=> n \in alive
<1>1. IsFiniteSet(Tasks) /\ IsFiniteSet(Nss) /\ init_ipc_ns \in Nss
  BY NsConstants
<1>2. \A s \in Scenarios : s.nsproxy \in [Tasks -> Nss]
  BY NsConstants
<1>3. may \in Scenarios /\ nsproxy \in [Tasks -> Nss]
  BY <1>2 DEF Init
<1>4. alive \subseteq Nss
  BY <1>1, <1>3 DEF Init
<1>5. IsFiniteSet(alive) /\ Cardinality(alive) \in Nat
  BY <1>1, <1>4, FS_Subset, FS_CardinalityType
<1>6. ASSUME NEW n \in Nss
      PROVE  /\ nT(n) \in Nat /\ count[n] = nT(n) + (IF n = init_ipc_ns THEN 1 ELSE 0)
             /\ count[n] > 0 <=> n \in alive
  <2>1. PICK A : A = {t \in Tasks : nsproxy[t] = n}
    OBVIOUS
  <2>2. IsFiniteSet(A)
    BY <1>1, <2>1, FS_Subset
  <2>3. Cardinality(A) \in Nat /\ (Cardinality(A) = 0 <=> A = {})
    BY <2>2, FS_CardinalityType, FS_EmptySet
  <2>4. nT(n) = Cardinality(A)
    BY <2>1 DEF nT
  <2>5. count[n] = Cardinality(A) + (IF n = init_ipc_ns THEN 1 ELSE 0)
    BY <2>1 DEF Init
  <2>6. n \in alive <=> n = init_ipc_ns \/ A # {}
    BY <2>1 DEF Init
  <2> QED BY <2>3, <2>4, <2>5, <2>6
<1> QED BY <1>3, <1>4, <1>5, <1>6

(* Types and shapes at the start.                                          *)
LEMMA InitType ==
    ASSUME Init
    PROVE  TypeInv /\ ShapeInv
<1>0. /\ alive \subseteq Nss /\ Cardinality(alive) \in Nat /\ nsproxy \in [Tasks -> Nss] /\ may \in Scenarios
      /\ \A n \in Nss : count[n] \in Int
  <2>1. /\ alive \subseteq Nss /\ Cardinality(alive) \in Nat /\ nsproxy \in [Tasks -> Nss] /\ may \in Scenarios
        /\ \A n \in Nss : nT(n) \in Nat /\ count[n] = nT(n) + (IF n = init_ipc_ns THEN 1 ELSE 0)
    BY InitNss
  <2> QED BY <2>1
<1>1. stack \in [Threads -> Seq(FrameSet)] /\ \A t \in Threads : DOMAIN stack[t] = {}
  BY InitStacks
<1>2. Nss \subseteq Sbs /\ MaxMem \in Nat
  BY NsConstants
<1>3. count \in [Nss -> Int]
  BY <1>0 DEF Init
<1>4. nr_ipc_ns \in Int /\ mem \in 0 .. MaxMem /\ work \in BOOLEAN
  <2>1. nr_ipc_ns = Cardinality(alive) /\ mem = 0 /\ work = FALSE
    BY DEF Init
  <2>2. nr_ipc_ns \in Int /\ mem \in 0 .. MaxMem
    BY <1>0, <1>2, <2>1
  <2>3. work \in BOOLEAN
    BY <2>1
  <2> QED BY <2>2, <2>3
<1>5. msg_ctlmni \in [Nss -> Int \X Int]
  <2>1. <<nr_ipc_ns, 0>> \in Int \X Int /\ ByHand \in Int \X Int
    BY <1>4 DEF ByHand
  <2> QED BY <2>1 DEF Init
<1>6. chain \in Seq(Nss)
  <2>1. chain \in [1 .. Cardinality(alive) -> alive]
    BY DEF Init
  <2>2. chain \in [1 .. Cardinality(alive) -> Nss]
    BY <1>0, <2>1
  <2> QED BY <1>0, <2>2
<1>7. mq_mnt \in [Nss -> Sbs \cup {NoSb}] /\ s_fs_info \in [Sbs -> Nss \cup {NoNs, NoSb}]
  BY <1>0, <1>2 DEF Init
<1>8. inode \in [Queues -> QueueRecord \cup {NoQueue}] /\ mq_queues_count \in [Nss -> Int] /\ mq_bytes \in [Users -> Int]
  BY DEF Init
<1>9. auto_msgmni \subseteq Nss /\ raced \subseteq Nss /\ loose \subseteq Nss /\ usermnt \subseteq Sbs
  BY <1>0 DEF Init
<1>10. TypeInv
  BY <1>0, <1>1, <1>3, <1>4, <1>5, <1>6, <1>7, <1>8, <1>9 DEF TypeInv
<1>11. ShapeInv
  BY <1>1 DEF ShapeInv
<1> QED BY <1>10, <1>11

(* The references to the mounts at the start.                              *)
LEMMA InitMounts ==
    ASSUME Init, NEW s \in Sbs
    PROVE  MntRefs(s) \in Nat /\ (MntRefs(s) = 0 <=> s \notin alive) /\ (s_fs_info[s] = NoSb <=> s \notin alive)
<1>0. /\ TypeInv /\ alive \subseteq Nss /\ IsFiniteSet(Nss) /\ IsFiniteSet(Queues)
      /\ NoSb \notin Sbs /\ NoSb \notin Nss
  BY InitType, InitNss, NsConstants
<1>1. PICK A : A = {n \in Nss : mq_mnt[n] = s}
  OBVIOUS
<1>2. IsFiniteSet(A)
  BY <1>0, <1>1, FS_Subset
<1>3. Cardinality(A) \in Nat /\ (Cardinality(A) = 0 <=> A = {})
  BY <1>2, FS_CardinalityType, FS_EmptySet
<1>4. A = {} <=> s \notin alive
  BY <1>0, <1>1 DEF Init
<1>5. OwnMounts(s) = Cardinality(A)
  BY <1>1 DEF OwnMounts
<1>6. Fds(s) = 0
  <2>1. PICK g : g = [q \in Queues |-> FdsOf(q, s)]
    OBVIOUS
  <2>2. \A q \in Queues : g[q] = 0
    BY <2>1 DEF Init, FdsOf
  <2>3. DOMAIN g = Queues
    BY <2>1
  <2> QED BY <1>0, <2>1, <2>2, <2>3, FunSum, SumAllZero DEF Fds
<1>7. tM(s) = 0
  BY InitStacks DEF tM
<1>8. MntRefs(s) = OwnMounts(s) + UserMount(s) + Fds(s) + tM(s) /\ UserMount(s) = (IF s \in usermnt THEN 1 ELSE 0)
  BY <1>0, RefsAre DEF RefsAdd
<1>9. usermnt = {}
  BY DEF Init
<1>10. s_fs_info[s] = NoSb <=> s \notin alive
  BY <1>0 DEF Init
<1> QED BY <1>3, <1>4, <1>5, <1>6, <1>7, <1>8, <1>9, <1>10

(* References, mounts and queues at the start.                             *)
LEMMA InitRefs ==
    ASSUME Init
    PROVE  RefInv
<1>0. /\ TypeInv /\ alive \subseteq Nss /\ NoSb \notin Sbs /\ NoSb \notin Nss /\ Nss \subseteq Sbs
      /\ mq_queues_max \in Nat
  BY InitType, InitNss, NsConstants
<1>1. \A S : Total(S) = 0
  BY InitStacks
<1>2. \A t \in Threads : DOMAIN stack[t] = {} /\ Frames(t) = {}
  BY InitStacks
<1>3. \A n \in Nss : count[n] = nT(n) + (IF n = init_ipc_ns THEN 1 ELSE 0) /\ (count[n] > 0 <=> n \in alive)
                       /\ nT(n) \in Nat
  BY InitNss
<1>4. \A s \in Sbs : (MntRefs(s) = 0 <=> s \notin alive) /\ (s_fs_info[s] = NoSb <=> s \notin alive)
  BY InitMounts
<1>5. \A q \in Queues : inode[q] = NoQueue
  BY DEF Init
<1>6. LifeInv
  BY <1>1, <1>3 DEF LifeInv
<1>7. RefCount
  <2>1. RefT
    BY <1>1, <1>3 DEF RefT, tH
  <2> QED BY <2>1 DEF RefCount, RefT, tH, nT
<1>8. MountInv
  <2>1. \A n \in Nss : mq_mnt[n] = (IF n \in alive THEN n ELSE NoSb)
    BY DEF Init
  <2>2. \A s \in Sbs : s_fs_info[s] = (IF s \in alive THEN s ELSE NoSb)
    BY DEF Init
  <2> QED BY <1>0, <1>1, <1>3, <1>4, <2>1, <2>2 DEF MountInv
<1>9. QueueInv
  BY <1>1, <1>5 DEF QueueInv
<1>10. OwnerInv /\ CallInv
  BY <1>2 DEF OwnerInv, CallInv
<1>11. QueueCounts
  <2>1. \A n : {q \in Queues : inode[q] # NoQueue /\ inode[q].sb = mq_mnt[n] /\ inode[q].user # NoUser} = {}
    BY <1>5
  <2>2. \A u : {q \in Queues : inode[q] # NoQueue /\ inode[q].user = u} = {}
    BY <1>5
  <2>3. Cardinality({}) = 0
    BY FS_EmptySet
  <2>4. (\A n \in Nss : mq_queues_count[n] = 0) /\ (\A u \in Users : mq_bytes[u] = 0)
    BY DEF Init
  <2>5. (\A n : nQ(n) = 0 /\ tC(n) = 0) /\ (\A u : nU(u) = 0)
    BY <1>1, <2>1, <2>2, <2>3 DEF nQ, nU, tC
  <2>6. CountedT
    BY <1>0, <2>4, <2>5 DEF CountedT
  <2> QED BY <2>6 DEF QueueCounts, CountedT, tC, nQ, nU
<1> QED BY <1>6, <1>7, <1>8, <1>9, <1>10, <1>11 DEF RefInv

(* msgmni and the chain at the start.                                      *)
LEMMA InitMsg ==
    ASSUME Init
    PROVE  MsgInv
<1>1. \A S : Total(S) = 0
  BY InitStacks
<1>2. \A t \in Threads : DOMAIN stack[t] = {} /\ Frames(t) = {} /\ \A l : ~At(t, l)
  BY InitStacks
<1>3. TaskInv
  BY <1>2 DEF TaskInv
<1>4. ToSet(chain) = alive /\ IsInjective(chain) /\ loose = {}
  BY DEF Init
<1>5. ChainInv
  <2>1. Walked = {}
    BY <1>2 DEF Walked
  <2> QED BY <1>2, <1>4, <2>1 DEF ChainInv, Visible
<1>6. NrInv
  <2>1. Starting = {}
    BY <1>2 DEF Starting
  <2>2. alive \ Starting = alive
    BY <2>1
  <2>3. nr_ipc_ns = Cardinality(alive)
    BY DEF Init
  <2>4. Cardinality(alive) \in Nat
    BY InitNss
  <2>5. Total({Frame("nr_dec", NoNs)}) = 0 /\ Total({Frame("kfree", n) : n \in Nss}) = 0
    BY <1>1
  <2> QED BY <2>2, <2>3, <2>4, <2>5 DEF NrInv
<1>7. MniInv
  <2>1. \A t \in Threads : \A n : ~Stores(t, n)
    BY <1>2 DEF Stores
  <2>2. PassedBy = {}
    BY <1>2 DEF PassedBy
  <2>3. alive \subseteq Nss
    BY InitNss
  <2>4. \A n \in alive : msg_ctlmni[n] = Now
    BY <2>3 DEF Init, Now
  <2>5. \A n \in alive : Current(n)
    BY <2>1, <2>4 DEF Current
  <2> QED BY <1>4, <2>1, <2>2, <2>5 DEF MniInv
<1> QED BY <1>3, <1>5, <1>6, <1>7 DEF MsgInv

(* The inductive invariant holds at the start.                             *)
LEMMA InitKept ==
    ASSUME Init
    PROVE  IInv
<1>1. Kept
  BY InitType, InitRefs, InitMsg DEF Kept
<1> QED BY <1>1, KeptIs

-----------------------------------------------------------------------------
(* Whoever frees a namespace lowers nr_ipc_ns afterwards.                  *)
LEMMA FreesCounted ==
    ASSUME TypeInv, ShapeInv
    PROVE  tA \in Nat /\ tD \in Nat /\ tA <= tD
<1>0. stack \in [Threads -> Seq(FrameSet)]
  BY DEF TypeInv
<1>1. PICK SK, SD : SK = {Frame("kfree", n) : n \in Nss} /\ SD = {Frame("nr_dec", NoNs)}
  OBVIOUS
<1>2. \A f \in SK : f.at = "kfree"
  BY <1>1 DEF Frame, MkFrame
<1>3. ASSUME NEW t \in Threads
      PROVE  Times(stack[t], SK) \in Nat /\ Times(stack[t], SD) \in Nat /\ Times(stack[t], SK) <= Times(stack[t], SD)
  <2>1. PICK K, D : K = {i \in DOMAIN stack[t] : stack[t][i] \in SK} /\ D = {i \in DOMAIN stack[t] : stack[t][i] \in SD}
    OBVIOUS
  <2>2. stack[t] \in Seq(FrameSet) /\ DOMAIN stack[t] = 1 .. Len(stack[t]) /\ Len(stack[t]) \in Nat
    BY <1>0
  <2>3. /\ IsFiniteSet(D) /\ Times(stack[t], SK) \in Nat /\ Times(stack[t], SD) \in Nat
        /\ Times(stack[t], SK) = Cardinality(K) /\ Times(stack[t], SD) = Cardinality(D)
    BY <2>1, <2>2, TimesNat DEF Times
  <2>4. ASSUME NEW i \in K PROVE i \in Int /\ i + 1 \in D
    <3>1. i \in 1 .. Len(stack[t]) /\ stack[t][i].at = "kfree"
        BY <1>2, <2>1, <2>2
    <3>2. Shape(t, i)
        BY <2>2, <3>1 DEF ShapeInv
    <3>3. i < Len(stack[t]) /\ stack[t][i + 1] = Frame("nr_dec", NoNs)
        BY <3>1, <3>2 DEF Shape
    <3> QED BY <1>1, <2>1, <2>2, <3>1, <3>3
  <2>5. PICK e : e = [i \in K |-> i + 1]
    OBVIOUS
  <2>6. e \in Injection(K, D)
    BY <2>4, <2>5 DEF Injection, IsInjective
  <2>7. Cardinality(K) <= Cardinality(D)
    BY <2>3, <2>6, FS_Injection
  <2> QED BY <2>3, <2>7
<1>4. PICK g, k : g = [t \in Threads |-> Times(stack[t], SK)] /\ k = [t \in Threads |-> Times(stack[t], SD)]
  OBVIOUS
<1>5. DOMAIN g = Threads /\ DOMAIN k = Threads
  BY <1>4
<1>6. \A t \in Threads : g[t] \in Nat /\ k[t] \in Nat /\ g[t] <= k[t]
  BY <1>3, <1>4
<1>7. SumFunctionOnSet(g, Threads) <= SumFunctionOnSet(k, Threads)
  BY <1>6, FiniteThreads, SumLe
<1>8. Total(SK) = SumFunctionOnSet(g, Threads) /\ Total(SD) = SumFunctionOnSet(k, Threads)
  BY <1>4, <1>5, FunSum DEF Total
<1>9. Total(SK) \in Nat /\ Total(SD) \in Nat
  BY <1>0, TotalPlaces
<1> QED BY <1>1, <1>7, <1>8, <1>9 DEF tA, tD

(* There is always a namespace: the initial one.                           *)
LEMMA NrPositive ==
    ASSUME IInv
    PROVE  nr_ipc_ns \in Nat \ {0}
<1>0. TypeInv /\ ShapeInv /\ TaskInv /\ NrF /\ RefT /\ CountsNat
  BY MsgBefore, Before
<1>1. PICK L : L = alive \ StartingF
  OBVIOUS
<1>2. IsFiniteSet(L) /\ Cardinality(L) \in Nat
  BY <1>0, <1>1, AliveCard
<1>3. init_ipc_ns \in alive
  <2>1. init_ipc_ns \in Nss /\ IsFiniteSet(Tasks)
    BY NsConstants
  <2>2. nT(init_ipc_ns) \in Nat
    BY <2>1, FS_Subset, FS_CardinalityType DEF nT
  <2>3. count[init_ipc_ns] = nT(init_ipc_ns) + tH(init_ipc_ns) + 1 /\ tH(init_ipc_ns) \in Nat
    BY <1>0, <2>1 DEF RefT, CountsNat
  <2>4. count[init_ipc_ns] > 0
    BY <2>2, <2>3
  <2> QED BY <1>0, <2>1, <2>4 DEF RefT
<1>4. init_ipc_ns \notin StartingF
  <2>1. ASSUME NEW u \in Threads, NEW f \in Frames(u), f.at = "nr_inc" PROVE f.of # init_ipc_ns
    <3>1. Frame("switch", f.of) \in Frames(u)
        BY <2>1, StartsOf
    <3>2. Frame("switch", f.of).at = "switch" /\ Frame("switch", f.of).of = f.of
        BY DEF Frame, MkFrame
    <3> QED BY <1>0, <3>1, <3>2 DEF TaskInv
  <2> QED BY <2>1 DEF StartingF
<1>5. Cardinality(L) # 0
  BY <1>1, <1>2, <1>3, <1>4, FS_EmptySet
<1>6. tA \in Nat /\ tD \in Nat /\ tA <= tD
  BY <1>0, FreesCounted
<1>7. nr_ipc_ns = Cardinality(L) + tD - tA
  BY <1>0, <1>1 DEF NrF
<1> QED BY <1>2, <1>5, <1>6, <1>7

(* mq_queues_count is lowered only in a namespace with a reference.        *)
QueuesNat == \A n \in Nss : mq_queues_count[n] >= 0

(* Who changes mq_queues_count.                                            *)
LEMMA CountMoves ==
    ASSUME Next
    PROVE  \/ mq_queues_count' = mq_queues_count
           \/ \E t \in Tasks : create_ipc_ns(t) \/ \E s \in Sbs : mqueue_create(t, s)
           \/ \E t \in Threads : kfree_ns(t) \/ uncount(t) \/ release_inode(t)
<1>1. ASSUME NEW t \in Tasks, Call(t)
      PROVE  \/ mq_queues_count' = mq_queues_count \/ create_ipc_ns(t) \/ \E s \in Sbs : mqueue_create(t, s)
  BY <1>1 DEF Call, hotplug, sysctl_msgmni, sysctl_auto_msgmni, exit, mount, umount, do_open, close, mq_unlink, queuev
<1>2. ASSUME NEW t \in Threads, Step(t)
      PROVE  mq_queues_count' = mq_queues_count \/ kfree_ns(t) \/ uncount(t) \/ release_inode(t)
  BY <1>2 DEF Step, ipcns_notify, callback_read, callback_oops, callback_store, clear_nb, set_notifier_call,
              set_auto_msgmni, proc_dointvec_minmax, ipc_auto_callback, register_ipcns_notifier,
              unregister_ipcns_notifier, compute, compute_set, nr_inc, msg_init_ns, switch, put_ipc_ns, mq_put_mnt,
              nr_dec, mntput, kill_litter_super, mqueue_get_inode, mqueue_get_inode_fails, new_inode_fails,
              instantiate, mqueue_delete_inode, queuev
<1>3. ipc_memory_notifier \/ Stay => mq_queues_count' = mq_queues_count
  BY DEF ipc_memory_notifier, Stay, queuev
<1> QED BY <1>1, <1>2, <1>3 DEF Next

(* mq_queues_count goes down only while the namespace is in use.           *)
LEMMA LoweredHeld ==
    ASSUME IInv, Next, NEW n \in Nss
    PROVE  \/ mq_queues_count'[n] \in {0, mq_queues_count[n], mq_queues_count[n] + 1}
           \/ count'[n] > 0
<1>0. TypeInv /\ ShapeInv /\ RefT /\ mq_queues_count \in [Nss -> Int] /\ CountsNat
  BY Before DEF TypeInv
<1>1. ASSUME NEW t \in Tasks, NEW s \in Sbs, mqueue_create(t, s)
      PROVE  mq_queues_count'[n] \in {0, mq_queues_count[n], mq_queues_count[n] + 1}
  BY <1>0, <1>1 DEF mqueue_create
<1>2. ASSUME NEW t \in Tasks, create_ipc_ns(t)
      PROVE  mq_queues_count'[n] \in {0, mq_queues_count[n], mq_queues_count[n] + 1}
  BY <1>0, <1>2 DEF create_ipc_ns
<1>3. ASSUME NEW t \in Threads, kfree_ns(t)
      PROVE  mq_queues_count'[n] \in {0, mq_queues_count[n], mq_queues_count[n] + 1}
  BY <1>0, <1>3 DEF kfree_ns
<1>4. ASSUME NEW u \in Threads, NEW f \in Frames(u), f \in Holders(n) PROVE count[n] > 0
  <2>1. PICK i \in DOMAIN stack[u] : stack[u][i] = f
    BY DEF Frames
  <2>2. tH(n) \in Nat /\ tH(n) # 0
    BY <1>0, <1>4, <2>1, TotalPlaces DEF TypeInv, tH, CountsNat
  <2>3. nT(n) \in Nat
    <3>1. IsFiniteSet(Tasks)
        BY NsConstants
    <3> QED BY <3>1, FS_Subset, FS_CardinalityType DEF nT
  <2> QED BY <1>0, <2>2, <2>3 DEF RefT
<1>5. ASSUME NEW t \in Threads, uncount(t)
      PROVE  mq_queues_count'[n] = mq_queues_count[n] \/ count'[n] > 0
  <2>1. CASE n = Arg(t)
    <3>1. stack[t] # <<>> /\ Head(stack[t]).at = "uncount" /\ Head(stack[t]).of = n
        BY <1>5, <2>1 DEF uncount, At, Arg
    <3>2. Shape(t, 1) /\ Head(stack[t]) = stack[t][1]
        BY <1>0, <3>1, HeadFacts
    <3>3. Below(t, 1, {Frame("put", n)})
        BY <3>1, <3>2 DEF Shape
    <3>4. Frame("put", n) \in Frames(t)
        BY <3>3 DEF Below, Frames
    <3>5. Frame("put", n) \in FrameSet
        BY <1>0, <3>4, AllArgs
    <3>6. Frame("put", n) \in Holders(n)
        BY <3>5 DEF Holders, Frame, MkFrame
    <3>7. count[n] > 0
        BY <1>4, <3>4, <3>6
    <3> QED BY <1>5, <3>7 DEF uncount, nsv
  <2>2. CASE n # Arg(t)
    BY <1>0, <1>5, <2>2 DEF uncount
  <2> QED BY <2>1, <2>2
<1>6. ASSUME NEW t \in Threads, release_inode(t)
      PROVE  mq_queues_count'[n] = mq_queues_count[n] \/ count'[n] > 0
  <2>1. stack[t] # <<>> /\ Head(stack[t]).at = "release"
    BY <1>6 DEF release_inode, At
  <2>2. Head(stack[t]) \in Frames(t) /\ Head(stack[t]) \in FrameSet
    BY <1>0, <2>1, HeadFacts
  <2>3. CASE n = Head(stack[t]).ns
    <3>1. Head(stack[t]) \in Holders(n)
        BY <2>1, <2>2, <2>3 DEF Holders
    <3>2. count[n] > 0
        BY <1>4, <2>2, <3>1
    <3> QED BY <1>6, <3>2 DEF release_inode, nsv
  <2>4. CASE n # Head(stack[t]).ns
    BY <1>0, <1>6, <2>4 DEF release_inode
  <2> QED BY <2>3, <2>4
<1> QED BY <1>1, <1>2, <1>3, <1>5, <1>6, CountMoves

(* ... so that it is never below zero.                                     *)
LEMMA NextQueuesNat ==
    ASSUME IInv, [Next]_vars, QueuesNat
    PROVE  QueuesNat'
<1>1. IInv'
  BY NextKeeps
<1>2. CASE UNCHANGED vars
  BY <1>2 DEF vars, queuev, QueuesNat
<1>3. ASSUME Next, NEW n \in Nss PROVE mq_queues_count'[n] >= 0
  <2>1. \/ mq_queues_count'[n] \in {0, mq_queues_count[n], mq_queues_count[n] + 1}
        \/ count'[n] > 0
    BY <1>3, LoweredHeld
  <2>2. mq_queues_count[n] \in Int /\ mq_queues_count[n] >= 0
    BY DEF IInv, TypeInv, QueuesNat
  <2>3. count'[n] > 0 => mq_queues_count'[n] >= 0
    <3>1. RefCount' /\ QueueCounts' /\ TypeInv'
        BY <1>1 DEF IInv
    <3>2. ASSUME count'[n] > 0 PROVE n \in alive' /\ mq_queues_count'[n] = nQ(n)' + tC(n)'
        BY <3>1, <3>2 DEF RefCount, QueueCounts, nQ, tC
    <3>3. CountsNat'
        BY <3>1, CountsAre, PTL
    <3>4. nQ(n)' \in Nat
      <4>1. IsFiniteSet(Queues)
        BY NsConstants
      <4>2. PICK A : A = {q \in Queues : inode'[q] # NoQueue /\ inode'[q].sb = mq_mnt'[n] /\ inode'[q].user # NoUser}
        OBVIOUS
      <4>3. Cardinality(A) \in Nat
        BY <4>1, <4>2, FS_Subset, FS_CardinalityType
      <4> QED BY <4>2, <4>3 DEF nQ
    <3> QED BY <3>2, <3>3, <3>4 DEF CountsNat
  <2> QED BY <2>1, <2>2, <2>3
<1> QED BY <1>2, <1>3 DEF QueuesNat

(* Without CAP_SYS_RESOURCE nobody gets past mq_queues_max.                *)
Limited == may.capable = {} => \A n \in Nss : mq_queues_count[n] <= mq_queues_max

(* mqueue_create() raises the count only below the limit, ...              *)
LEMMA CountWithin ==
    ASSUME IInv, Next, may.capable = {}, NEW n \in Nss, mq_queues_count[n] <= mq_queues_max
    PROVE  mq_queues_count'[n] <= mq_queues_max
<1>0. mq_queues_count \in [Nss -> Int] /\ mq_queues_max \in Nat
  BY NsConstants DEF IInv, TypeInv
<1>1. mq_queues_count[n] \in Int
  BY <1>0
<1>2. CASE mq_queues_count' = mq_queues_count
  BY <1>2
<1>3. ASSUME NEW t \in Tasks, create_ipc_ns(t) PROVE mq_queues_count'[n] <= mq_queues_max
  BY <1>0, <1>1, <1>3 DEF create_ipc_ns
<1>4. ASSUME NEW t \in Tasks, NEW s \in Sbs, mqueue_create(t, s) PROVE mq_queues_count'[n] <= mq_queues_max
  BY <1>0, <1>1, <1>4 DEF mqueue_create, AtLimit
<1>5. ASSUME NEW t \in Threads, kfree_ns(t) PROVE mq_queues_count'[n] <= mq_queues_max
  BY <1>0, <1>1, <1>5 DEF kfree_ns
<1>6. ASSUME NEW t \in Threads, uncount(t) PROVE mq_queues_count'[n] <= mq_queues_max
  BY <1>0, <1>1, <1>6 DEF uncount
<1>7. ASSUME NEW t \in Threads, release_inode(t) PROVE mq_queues_count'[n] <= mq_queues_max
  BY <1>0, <1>1, <1>7 DEF release_inode
<1> QED BY <1>2, <1>3, <1>4, <1>5, <1>6, <1>7, CountMoves

(* ... so that the limit holds.                                            *)
LEMMA NextLimited ==
    ASSUME IInv, [Next]_vars, Limited
    PROVE  Limited'
<1>1. CASE UNCHANGED vars
  BY <1>1 DEF vars, queuev, Limited
<1>2. CASE Next
  <2>1. may' = may
    BY <1>2 DEF Next
  <2> QED BY <1>2, <2>1, CountWithin DEF Limited
<1> QED BY <1>1, <1>2

(* What the invariant says of types.                                       *)
LEMMA TypesFollow ==
    ASSUME IInv, QueuesNat
    PROVE  TypeOK
<1>0. TypeInv /\ RefT /\ CountedT /\ CountsNat
  BY Before
<1>1. IsFiniteSet(Tasks) /\ IsFiniteSet(Queues)
  BY NsConstants
<1>2. \A n \in Nss : count[n] >= 0
  <2> SUFFICES ASSUME NEW n \in Nss PROVE count[n] >= 0
    OBVIOUS
  <2>1. nT(n) \in Nat
    BY <1>1, FS_Subset, FS_CardinalityType DEF nT
  <2> QED BY <1>0, <2>1 DEF RefT, CountsNat
<1>3. \A u \in Users : mq_bytes[u] >= 0
  <2> SUFFICES ASSUME NEW u \in Users PROVE mq_bytes[u] >= 0
    OBVIOUS
  <2>1. nU(u) \in Nat
    BY <1>1, FS_Subset, FS_CardinalityType DEF nU
  <2> QED BY <1>0, <2>1 DEF CountedT
<1>4. count \in [Nss -> Nat] /\ mq_queues_count \in [Nss -> Nat] /\ mq_bytes \in [Users -> Nat]
  <2>1. count \in [Nss -> Int] /\ mq_queues_count \in [Nss -> Int] /\ mq_bytes \in [Users -> Int]
    BY <1>0 DEF TypeInv
  <2>2. \A n \in Nss : count[n] \in Nat /\ mq_queues_count[n] \in Nat
    BY <1>2, <2>1 DEF QueuesNat
  <2>3. \A u \in Users : mq_bytes[u] \in Nat
    BY <1>3, <2>1
  <2> QED BY <2>1, <2>2, <2>3
<1>5. nr_ipc_ns \in Nat \ {0}
  BY NrPositive
<1> QED BY <1>0, <1>4, <1>5 DEF TypeInv, TypeOK

(* The inductive invariant: references, mounts, queues and their counts,   *)
(* the frames below each other, the notifier chain and the number of       *)
(* namespaces agree after every step of create_ipc_ns(), put_ipc_ns(), the *)
(* mqueue calls and the writers of msgmni and auto_msgmni, whose reads and *)
(* stores are steps of their own.                                          *)
THEOREM Inductive == Spec => [](IInv /\ QueuesNat /\ Limited)
<1>1. Init => IInv /\ QueuesNat /\ Limited
  <2>1. Init => IInv
    BY InitKept
  <2>2. Init => QueuesNat
    BY DEF Init, QueuesNat
  <2>3. mq_queues_max \in Nat
    BY NsConstants
  <2>4. Init => Limited
    BY <2>3 DEF Init, Limited
  <2> QED BY <2>1, <2>2, <2>4
<1>2. (IInv /\ QueuesNat /\ Limited) /\ [Next]_vars => (IInv /\ QueuesNat /\ Limited)'
  BY NextKeeps, NextQueuesNat, NextLimited
<1> QED BY <1>1, <1>2, PTL DEF Spec

(* ns->count is the tasks, the calls under way and (for init_ipc_ns) the   *)
(* kernel that refer to the namespace; no reference and no s_fs_info leads *)
(* to a namespace that free_ipc_ns() has begun to free, whatever the       *)
(* interleaving of put_ipc_ns() with get_ns_from_inode().                  *)
THEOREM ReferencesExact == Spec => []NsRefs
<1>1. IInv /\ QueuesNat => NsRefs
  BY TypesFollow DEF IInv, NsRefs, MountInv
<1> QED BY <1>1, Inductive, PTL

(* mq_queues_count and mq_bytes count exactly the queues and the creations *)
(* under way, when mqueue_create() fails half way and when the namespace   *)
(* ends before its queues too; where no task has CAP_SYS_RESOURCE, which   *)
(* exempts from it, the limit mq_queues_max holds.                         *)
THEOREM QueuesExact == Spec => []QueuesCounted
<1>1. IInv /\ Limited => QueuesCounted
  BY DEF IInv, TypeInv, Limited, QueuesCounted
<1> QED BY <1>1, Inductive, PTL

(* No message queue is left behind by close(), mq_unlink(), umount() and   *)
(* the end of its namespace in any order, and none outlives its super      *)
(* block.                                                                  *)
THEOREM QueuesReached == Spec => []QueueReachable
<1>1. ASSUME IInv PROVE QueueReachable
  <2>0. TypeInv /\ QueueT /\ MountT /\ CountsNat /\ stack \in [Threads -> Seq(FrameSet)] /\ RefsAdd
    BY <1>1, Before, RefsAre
  <2> SUFFICES ASSUME NEW q \in Queues, inode[q] # NoQueue
               PROVE  /\ \/ inode[q].link \/ inode[q].fds # {}
                         \/ \E t \in Threads : \E f \in Frames(t) :
                              f.at \in {"delete", "release", "instantiate"} /\ f.of = q
                      /\ s_fs_info[inode[q].sb] # NoSb
                      /\ MntRefs(inode[q].sb) > 0 \/ \E t \in Threads : Frame("kill", inode[q].sb) \in Frames(t)
    BY DEF QueueReachable
  <2>1. inode[q].sb \in Sbs /\ s_fs_info[inode[q].sb] # NoSb
    BY <2>0 DEF QueueT, TypeInv, QueueRecord
  <2>2. ASSUME tO(q) # 0
        PROVE  \E t \in Threads : \E f \in Frames(t) : f.at \in {"delete", "release", "instantiate"} /\ f.of = q
    <3>1. PICK t \in Threads : \E i \in DOMAIN stack[t] : stack[t][i] \in Owners(q)
        BY <2>0, <2>2, TotalPlaces DEF tO
    <3>2. PICK i \in DOMAIN stack[t] : stack[t][i] \in Owners(q)
        BY <3>1
    <3> QED BY <3>2 DEF Owners, Frames
  <2>3. ASSUME MntRefs(inode[q].sb) = 0
        PROVE  \E t \in Threads : Frame("kill", inode[q].sb) \in Frames(t)
    <3>1. tX(inode[q].sb) = 1
        BY <2>0, <2>1, <2>3 DEF MountT
    <3>2. PICK t \in Threads : \E i \in DOMAIN stack[t] : stack[t][i] \in {Frame("kill", inode[q].sb)}
        BY <2>0, <3>1, TotalPlaces DEF tX
    <3> QED BY <3>2 DEF Frames
  <2>4. MntRefs(inode[q].sb) \in Nat
    BY <2>0, <2>1 DEF RefsAdd
  <2> QED BY <2>0, <2>1, <2>2, <2>3, <2>4 DEF QueueT
<1> QED BY <1>1, Inductive, PTL

(* blocking_notifier_call_chain() never meets a freed namespace:           *)
(* free_ipc_ns() unregisters before kfree(), also when a second writer of  *)
(* auto_msgmni has cleared the notifier block meanwhile.                   *)
THEOREM ChainSafe == Spec => []ChainLive
<1>1. ASSUME IInv PROVE ChainLive
  <2>0. TypeInv /\ ShapeInv /\ Visible \subseteq alive
    BY <1>1 DEF IInv, ChainInv
  <2>1. \A i \in DOMAIN chain : chain[i] \in alive
    BY <2>0 DEF Visible, ToSet
  <2>2. ASSUME NEW t \in Threads, At(t, "walk") \/ At(t, "store")
        PROVE  Arg(t) \in alive /\ (At(t, "store") => Head(stack[t]).next \in alive \cup {NoNs})
    <3>1. stack[t] # <<>> /\ Head(stack[t]).at \in {"walk", "store"}
        BY <2>2 DEF At
    <3>2. Head(stack[t]) \in FrameSet /\ ArgsOK(t, Head(stack[t]))
        BY <2>0, <3>1, HeadFacts
    <3>3. Arg(t) \in Nss /\ Head(stack[t]).next \in Nss \cup {NoNs}
        BY <3>1, <3>2 DEF ArgsOK, NsLabels, FrameSet, Arg
    <3>4. Arg(t) \in Walked
        BY <2>2, <3>3 DEF Walked
    <3>5. At(t, "store") /\ Head(stack[t]).next # NoNs => Head(stack[t]).next \in Walked
        BY <3>3 DEF Walked
    <3> QED BY <2>0, <3>3, <3>4, <3>5 DEF Visible
  <2> QED BY <2>1, <2>2 DEF ChainLive
<1> QED BY <1>1, Inductive, PTL

(* When no call and no work is pending, the msgmni of a namespace on the   *)
(* chain, where blocking_notifier_call_chain() finds it, is that of the    *)
(* present number of namespaces and of the present memory, but for what    *)
(* raced names: three races and short writes.  Of a namespace off the      *)
(* chain, where two writers can leave one with auto_msgmni set, it says    *)
(* nothing.                                                                *)
THEOREM MsgmniExact == Spec => []MsgmniFresh
<1>1. ASSUME IInv, Quiet, NEW n \in ToSet(chain) \ raced PROVE msg_ctlmni[n] = <<nr_ipc_ns, mem>>
  <2>1. \A t \in Threads : stack[t] = <<>>
    BY <1>1 DEF Quiet, Idle
  <2>2. \A t \in Threads : DOMAIN stack[t] = {}
    BY <2>1
  <2>3. \A t \in Threads : Frames(t) = {} /\ \A l : ~At(t, l)
    BY <2>1, <2>2 DEF Frames, At
  <2>4. ~Unregistering(n) /\ ~ReadPending(n) /\ ~Storing(n)
    BY <1>1, <2>3 DEF Quiet, Unregistering, ReadPending, Approaches, Storing
  <2>5. Current(n)
    BY <1>1, <2>4 DEF IInv, MniInv
  <2> QED BY <2>4, <2>5 DEF Current, Now
<1>2. IInv => MsgmniFresh
  BY <1>1 DEF MsgmniFresh
<1> QED BY <1>2, Inductive, PTL
=============================================================================
