---------------------------- MODULE ShmProofs ----------------------------
(***************************************************************************)
(* Proofs about Shm: shm_nattch is exact, a lookup by slot finds the       *)
(* segment that was attached, nothing is left behind, the counters are     *)
(* what they count, and keys and ids find one segment.                     *)
(*                                                                         *)
(* The argument has three layers.  What a step does to the vmas of a file, *)
(* to the calls of do_shmat() and so to the uses of a segment; what it     *)
(* does to the table of segments (a count, a doom, a removal, a creation,  *)
(* a lock, all gone), each kept in order by a lemma of its own; and that   *)
(* every action is one of these.                                           *)
(***************************************************************************)
EXTENDS Shm, DataLemmas

-----------------------------------------------------------------------------
(* Arithmetic of ids and pages.                                            *)

(* The slot and the sequence number of an id.                              *)
LEMMA IdParts ==
    ASSUME NEW i \in Index, NEW s \in Nat
    PROVE  /\ ipc_buildid(i, s) \in Nat
           /\ ipcid_to_idx(ipc_buildid(i, s)) = i
           /\ ipc_buildid(i, s) \div IPCMNI = s
<1>1. IPCMNI \in Nat \ {0} /\ i \in 0 .. IPCMNI - 1
  BY ShmConstants DEF Index
<1>2. ASSUME NEW n \in Nat \ {0}, NEW k \in 0 .. n - 1
      PROVE  /\ n * s + k \in Nat
             /\ (n * s + k) % n = k
             /\ (n * s + k) \div n = s
  OBVIOUS
<1> QED BY <1>1, <1>2 DEF ipc_buildid, ipcid_to_idx

(* An id leads to some slot.                                               *)
LEMMA IdIndex ==
    ASSUME NEW id \in Nat
    PROVE  ipcid_to_idx(id) \in Index
<1>1. ASSUME NEW n \in Nat \ {0} PROVE (id % n) \in 0 .. n - 1
  OBVIOUS
<1> QED BY <1>1, ShmConstants DEF ipcid_to_idx, Index

(* Pages are counted in whole numbers.                                     *)
LEMMA PagesNat ==
    ASSUME NEW size \in Nat
    PROVE  Pages(size) \in Nat
<1>1. ASSUME NEW n \in Nat \ {0} PROVE (size + n - 1) \div n \in Nat
  OBVIOUS
<1> QED BY <1>1, ShmConstants DEF Pages

(* Charges and weights are numbers.                                        *)
LEMMA ChargeNat ==
    ASSUME NEW shp \in SegmentRecord \cup {NoSeg}, NEW u
    PROVE  Charge(shp, u) \in Nat /\ Weight(shp) \in Nat
<1>1. shp # NoSeg => shp.size \in Nat
  BY DEF SegmentRecord
<1>2. shp # NoSeg => Pages(shp.size) \in Nat
  BY <1>1, PagesNat
<1> QED BY <1>2 DEF Charge, Weight

(* The least number of a set.                                              *)
LEMMA MinLeast ==
    ASSUME NEW S \in SUBSET Nat, S # {}
    PROVE  Min(S) \in S /\ \A x \in S : Min(S) <= x
<1>1. \E x \in S : \A y \in S : x <= y
  BY LeastNumber
<1> QED BY <1>1 DEF Min

-----------------------------------------------------------------------------
(* Sums.                                                                   *)

(* The sets that are counted are finite.                                   *)
LEMMA Finite ==
    /\ IsFiniteSet(Tasks) /\ IsFiniteSet(Files) /\ IsFiniteSet(Mms) /\ IsFiniteSet(Index)
    /\ Cardinality(Index) = IPCMNI
    /\ \A t \in Tasks : MmOf[t] \in Mms /\ UserOf[t] \in Users
<1>1. IsFiniteSet(Tasks) /\ IsFiniteSet(Files) /\ IPCMNI \in Nat \ {0}
  BY ShmConstants
<1>2. IsFiniteSet(Mms)
  <2> DEFINE e == [t \in Tasks |-> MmOf[t]]
  <2>1. e \in Surjection(Tasks, Mms)
    BY DEF Surjection, Mms
  <2> QED BY <1>1, <2>1, FS_Surjection
<1>3. IsFiniteSet(Index) /\ Cardinality(Index) = IPCMNI
  BY <1>1, FS_Interval DEF Index
<1> QED BY <1>1, <1>2, <1>3 DEF Mms, Users

(* A sum over a function's domain.                                         *)
LEMMA FunSum ==
    ASSUME NEW S, NEW g, DOMAIN g = S
    PROVE  SumFunction(g) = SumFunctionOnSet(g, S)
BY DEF SumFunction

(* What is zero may be left out.                                           *)
LEMMA SumSupport ==
    ASSUME NEW S, IsFiniteSet(S), NEW g, \A x \in S : g[x] \in Int,
           NEW L \in SUBSET S, \A x \in S \ L : g[x] = 0
    PROVE  SumFunctionOnSet(g, S) = SumFunctionOnSet(g, L)
<1> DEFINE P == {T \in SUBSET S : SumFunctionOnSet(g, T) = SumFunctionOnSet(g, T \cap L)}
<1>1. ASSUME NEW T \in SUBSET S, \A U \in SUBSET T : U # T => U \in P
      PROVE  T \in P
  <2>1. CASE T \subseteq L
    <3>1. T \cap L = T
        BY <2>1
    <3> QED BY <3>1
  <2>2. ASSUME NEW y \in T, y \notin L PROVE T \in P
    <3>1. T \ {y} \in P /\ (T \ {y}) \cap L = T \cap L
        BY <1>1, <2>2
    <3>2. IsFiniteSet(T)
        BY FS_Subset
    <3>3. SumFunctionOnSet(g, T) = g[y] + SumFunctionOnSet(g, T \ {y}) /\ g[y] = 0
        BY <2>2, <3>2, SumRemove
    <3>4. SumFunctionOnSet(g, T \ {y}) \in Int
        BY SumType
    <3>5. SumFunctionOnSet(g, T \ {y}) = SumFunctionOnSet(g, T \cap L)
        BY <3>1
    <3> QED BY <3>3, <3>4, <3>5
  <2> QED BY <2>1, <2>2
<1> HIDE DEF P
<1>2. \A T \in SUBSET S : T \in P
  BY <1>1, SubsetInduction
<1>3. S \cap L = L
  OBVIOUS
<1> QED BY <1>2, <1>3 DEF P

(* The vmas of each file, counted.                                         *)
LEMMA CountsNat ==
    ASSUME TypeInv
    PROVE  /\ \A f \in Files : FileVmas(f) \in Nat
           /\ \A f \in Files, m \in Mms : vmas[m][f] <= FileVmas(f)
           /\ \A f \in Files, t \in Tasks : job[t][f] <= FileVmas(f)
<1> SUFFICES ASSUME NEW f \in Files
             PROVE  /\ FileVmas(f) \in Nat
                    /\ \A m \in Mms : vmas[m][f] <= FileVmas(f)
                    /\ \A t \in Tasks : job[t][f] <= FileVmas(f)
  OBVIOUS
<1> DEFINE V == [m \in Mms |-> vmas[m][f]]
           J == [t \in Tasks |-> job[t][f]]
<1>t. /\ vmas \in [Mms -> [Files -> 0 .. MaxFrag]] /\ MaxFrag \in Nat
      /\ job \in [Tasks -> [Files -> 0 .. MaxFrag]]
  BY ShmConstants DEF TypeInv
<1>1. /\ \A m \in Mms : V[m] = vmas[m][f] /\ V[m] \in Nat
      /\ \A t \in Tasks : J[t] = job[t][f] /\ J[t] \in Nat
  BY <1>t
<1>2. FileVmas(f) = SumFunctionOnSet(V, Mms) + SumFunctionOnSet(J, Tasks)
  BY FunSum DEF FileVmas
<1> HIDE DEF V, J
<1>3. /\ SumFunctionOnSet(V, Mms) \in Nat /\ \A m \in Mms : V[m] <= SumFunctionOnSet(V, Mms)
      /\ SumFunctionOnSet(J, Tasks) \in Nat /\ \A t \in Tasks : J[t] <= SumFunctionOnSet(J, Tasks)
  BY <1>1, Finite, SumNat
<1> QED BY <1>1, <1>2, <1>3

-----------------------------------------------------------------------------
(* Who uses a segment.                                                     *)

Uses(b) == Mappings(b) + Cardinality(Attaching(b))

FileIs(f, b) == file[f] # NoFile /\ file[f].born = b

(* The counts are numbers, and bound what they count.                      *)
UsesBound ==
    \A b \in Nat :
        /\ Mappings(b) \in Nat /\ Cardinality(Attaching(b)) \in Nat
        /\ \A f \in Files : FileIs(f, b) => FileVmas(f) <= Mappings(b)
        /\ \A t \in Tasks : t \in Attaching(b) => 1 <= Cardinality(Attaching(b))
        /\ (\A f \in Files : FileIs(f, b) => FileVmas(f) = 0) => Mappings(b) = 0
        /\ Attaching(b) = {} => Cardinality(Attaching(b)) = 0

(* shm_nattch has something to count: the uses of a segment are a number.  *)
LEMMA UsesNat == ASSUME TypeInv PROVE UsesBound
<1> SUFFICES ASSUME NEW b \in Nat
    PROVE /\ Mappings(b) \in Nat /\ Cardinality(Attaching(b)) \in Nat
          /\ \A f \in Files : FileIs(f, b) => FileVmas(f) <= Mappings(b)
          /\ \A t \in Tasks : t \in Attaching(b) => 1 <= Cardinality(Attaching(b))
          /\ (\A f \in Files : FileIs(f, b) => FileVmas(f) = 0) => Mappings(b) = 0
          /\ Attaching(b) = {} => Cardinality(Attaching(b)) = 0
  BY DEF UsesBound
<1> DEFINE M == [f \in Files |-> IF FileIs(f, b) THEN FileVmas(f) ELSE 0]
<1>1. /\ \A f \in Files : M[f] \in Nat /\ (FileIs(f, b) => M[f] = FileVmas(f))
      /\ \A f \in Files : ~FileIs(f, b) => M[f] = 0
  BY CountsNat
<1>2. Mappings(b) = SumFunctionOnSet(M, Files)
  BY FunSum DEF Mappings, FileIs
<1> HIDE DEF M
<1>3. /\ SumFunctionOnSet(M, Files) \in Nat
      /\ \A f \in Files : M[f] <= SumFunctionOnSet(M, Files)
  BY <1>1, Finite, SumNat
<1>4. ASSUME \A f \in Files : FileIs(f, b) => FileVmas(f) = 0
      PROVE  Mappings(b) = 0
  <2>1. \A f \in Files : M[f] = 0 /\ M[f] \in Int
    BY <1>1, <1>4
  <2>2. SumFunctionOnSet(M, Files) = SumFunctionOnSet(M, {})
    BY <2>1, Finite, SumSupport
  <2> QED BY <1>2, <2>2, SumEmpty
<1>5. IsFiniteSet(Attaching(b)) /\ Cardinality(Attaching(b)) \in Nat
  BY Finite, FS_Subset, FS_CardinalityType DEF Attaching
<1>6. ASSUME NEW t \in Attaching(b) PROVE 1 <= Cardinality(Attaching(b))
  BY <1>5, <1>6, FS_EmptySet
<1>7. Attaching(b) = {} => Cardinality(Attaching(b)) = 0
  BY FS_EmptySet
<1> QED BY <1>1, <1>2, <1>3, <1>4, <1>5, <1>6, <1>7

-----------------------------------------------------------------------------
(* What an operation of the memory manager does to the counts.             *)

(* One vma more of file f.                                                 *)
LEMMA VmaUp ==
    ASSUME TypeInv, TypeInv', NEW m \in Mms, NEW f \in Files,
           vmas' = [vmas EXCEPT ![m][f] = @ + 1], UNCHANGED job
    PROVE  \A g \in Files : FileVmas(g)' = FileVmas(g) + IF g = f THEN 1 ELSE 0
<1> SUFFICES ASSUME NEW g \in Files
             PROVE  FileVmas(g)' = FileVmas(g) + IF g = f THEN 1 ELSE 0
  OBVIOUS
<1>t. /\ vmas \in [Mms -> [Files -> 0 .. MaxFrag]] /\ job \in [Tasks -> [Files -> 0 .. MaxFrag]]
      /\ vmas' \in [Mms -> [Files -> 0 .. MaxFrag]] /\ job' \in [Tasks -> [Files -> 0 .. MaxFrag]]
      /\ MaxFrag \in Nat
  BY ShmConstants DEF TypeInv
<1>v. PICK V, W, J : /\ V = [k \in Mms |-> vmas[k][g]] /\ W = [k \in Mms |-> vmas'[k][g]]
                     /\ J = [t \in Tasks |-> job[t][g]]
  OBVIOUS
<1>1. /\ \A k \in Mms : V[k] = vmas[k][g] /\ V[k] \in Int
      /\ \A t \in Tasks : J[t] \in Int
  BY <1>t, <1>v
<1>2. /\ \A k \in Mms : W[k] = vmas'[k][g] /\ W[k] \in Int
      /\ W[m] - V[m] = IF g = f THEN 1 ELSE 0
      /\ \A k \in Mms \ {m} : V[k] = W[k]
  BY <1>1, <1>t, <1>v
<1>3. FileVmas(g) = SumFunctionOnSet(V, Mms) + SumFunctionOnSet(J, Tasks)
  BY <1>v, FunSum DEF FileVmas
<1>4. FileVmas(g)' = SumFunctionOnSet(W, Mms) + SumFunctionOnSet(J, Tasks)
  BY <1>v, FunSum DEF FileVmas
<1>5. SumFunctionOnSet(W, Mms) = SumFunctionOnSet(V, Mms) + (W[m] - V[m])
  <2>1. /\ IsFiniteSet(Mms) /\ W[m] \in Int
        /\ \A x \in Mms : V[x] \in Int
        /\ \A x \in Mms \ {m} : V[x] = W[x]
    BY <1>1, <1>2, Finite
  <2> QED BY <2>1, SumChange
<1>6. SumFunctionOnSet(V, Mms) \in Int /\ SumFunctionOnSet(J, Tasks) \in Int
  BY <1>1, Finite, SumType
<1> QED BY <1>2, <1>3, <1>4, <1>5, <1>6

(* One vma of file f is closed.                                            *)
LEMMA JobDown ==
    ASSUME TypeInv, TypeInv', NEW t \in Tasks, NEW f \in Files,
           job' = [job EXCEPT ![t][f] = @ - 1], UNCHANGED vmas
    PROVE  \A g \in Files : FileVmas(g)' = FileVmas(g) + IF g = f THEN -1 ELSE 0
<1> SUFFICES ASSUME NEW g \in Files
             PROVE  FileVmas(g)' = FileVmas(g) + IF g = f THEN -1 ELSE 0
  OBVIOUS
<1>t. /\ vmas \in [Mms -> [Files -> 0 .. MaxFrag]] /\ job \in [Tasks -> [Files -> 0 .. MaxFrag]]
      /\ vmas' \in [Mms -> [Files -> 0 .. MaxFrag]] /\ job' \in [Tasks -> [Files -> 0 .. MaxFrag]]
      /\ MaxFrag \in Nat
  BY ShmConstants DEF TypeInv
<1>v. PICK V, K, J : /\ V = [k \in Mms |-> vmas[k][g]] /\ K = [u \in Tasks |-> job'[u][g]]
                     /\ J = [u \in Tasks |-> job[u][g]]
  OBVIOUS
<1>1. /\ \A k \in Mms : V[k] = vmas[k][g] /\ V[k] \in Int
      /\ \A u \in Tasks : J[u] \in Int
  BY <1>t, <1>v
<1>2. /\ \A u \in Tasks : K[u] \in Int
      /\ K[t] - J[t] = IF g = f THEN -1 ELSE 0
      /\ \A u \in Tasks \ {t} : J[u] = K[u]
  BY <1>1, <1>t, <1>v
<1>3. FileVmas(g) = SumFunctionOnSet(V, Mms) + SumFunctionOnSet(J, Tasks)
  BY <1>v, FunSum DEF FileVmas
<1>4. FileVmas(g)' = SumFunctionOnSet(V, Mms) + SumFunctionOnSet(K, Tasks)
  BY <1>v, FunSum DEF FileVmas
<1>5. SumFunctionOnSet(K, Tasks) = SumFunctionOnSet(J, Tasks) + (K[t] - J[t])
  <2>1. /\ IsFiniteSet(Tasks) /\ K[t] \in Int
        /\ \A x \in Tasks : J[x] \in Int
        /\ \A x \in Tasks \ {t} : J[x] = K[x]
    BY <1>1, <1>2, Finite
  <2> QED BY <2>1, SumChange
<1>6. SumFunctionOnSet(V, Mms) \in Int /\ SumFunctionOnSet(J, Tasks) \in Int
  BY <1>1, Finite, SumType
<1> QED BY <1>2, <1>3, <1>4, <1>5, <1>6

(* Vmas move from an address space to the task that closes them.           *)
LEMMA VmasMove ==
    ASSUME TypeInv, TypeInv', NEW t \in Tasks, NEW m \in Mms, NEW v \in [Files -> Int],
           job[t] = NoJob,
           vmas' = [vmas EXCEPT ![m] = [f \in Files |-> @[f] - v[f]]],
           job' = [job EXCEPT ![t] = v]
    PROVE  \A g \in Files : FileVmas(g)' = FileVmas(g)
<1> SUFFICES ASSUME NEW g \in Files PROVE FileVmas(g)' = FileVmas(g)
  OBVIOUS
<1>t. /\ vmas \in [Mms -> [Files -> 0 .. MaxFrag]] /\ job \in [Tasks -> [Files -> 0 .. MaxFrag]]
      /\ vmas' \in [Mms -> [Files -> 0 .. MaxFrag]] /\ job' \in [Tasks -> [Files -> 0 .. MaxFrag]]
      /\ MaxFrag \in Nat
  BY ShmConstants DEF TypeInv
<1>v. PICK V, W, K, J :
         /\ V = [k \in Mms |-> vmas[k][g]] /\ W = [k \in Mms |-> vmas'[k][g]]
         /\ K = [u \in Tasks |-> job'[u][g]] /\ J = [u \in Tasks |-> job[u][g]]
  OBVIOUS
<1>1. /\ \A k \in Mms : V[k] = vmas[k][g] /\ V[k] \in Int
      /\ \A u \in Tasks : J[u] \in Int
      /\ J[t] = 0
  BY <1>t, <1>v DEF NoJob
<1>2. /\ \A k \in Mms : W[k] \in Int
      /\ W[m] - V[m] = -v[g]
      /\ \A k \in Mms \ {m} : V[k] = W[k]
  BY <1>1, <1>t, <1>v
<1>3. /\ \A u \in Tasks : K[u] \in Int
      /\ K[t] = v[g] /\ v[g] \in Int
      /\ \A u \in Tasks \ {t} : J[u] = K[u]
  BY <1>1, <1>t, <1>v
<1>4. FileVmas(g) = SumFunctionOnSet(V, Mms) + SumFunctionOnSet(J, Tasks)
  BY <1>v, FunSum DEF FileVmas
<1>5. FileVmas(g)' = SumFunctionOnSet(W, Mms) + SumFunctionOnSet(K, Tasks)
  BY <1>v, FunSum DEF FileVmas
<1>6. /\ SumFunctionOnSet(W, Mms) = SumFunctionOnSet(V, Mms) + (W[m] - V[m])
      /\ SumFunctionOnSet(K, Tasks) = SumFunctionOnSet(J, Tasks) + (K[t] - J[t])
  <2>1. /\ IsFiniteSet(Mms) /\ W[m] \in Int
        /\ \A x \in Mms : V[x] \in Int
        /\ \A x \in Mms \ {m} : V[x] = W[x]
    BY <1>1, <1>2, Finite
  <2>2. /\ IsFiniteSet(Tasks) /\ K[t] \in Int
        /\ \A x \in Tasks : J[x] \in Int
        /\ \A x \in Tasks \ {t} : J[x] = K[x]
    BY <1>1, <1>3, Finite
  <2>3. SumFunctionOnSet(W, Mms) = SumFunctionOnSet(V, Mms) + (W[m] - V[m])
    BY <2>1, SumChange
  <2> QED BY <2>2, <2>3, SumChange
<1>7. SumFunctionOnSet(V, Mms) \in Int /\ SumFunctionOnSet(J, Tasks) \in Int
  BY <1>1, Finite, SumType
<1> QED BY <1>1, <1>2, <1>3, <1>4, <1>5, <1>6, <1>7

(* Nothing happens to the vmas.                                            *)
LEMMA VmasSame ==
    ASSUME UNCHANGED <<vmas, job>>
    PROVE  \A g \in Files : FileVmas(g)' = FileVmas(g)
BY DEF FileVmas

(* The mappings of a segment change with the vmas of one file...           *)
LEMMA MapsChange ==
    ASSUME TypeInv, TypeInv', NEW f \in Files, NEW d \in Int, UNCHANGED file,
           \A g \in Files : FileVmas(g)' = FileVmas(g) + IF g = f THEN d ELSE 0
    PROVE  \A b \in Nat : Mappings(b)' = Mappings(b) + IF FileIs(f, b) THEN d ELSE 0
<1> SUFFICES ASSUME NEW b \in Nat
             PROVE  Mappings(b)' = Mappings(b) + IF FileIs(f, b) THEN d ELSE 0
  OBVIOUS
<1>v. PICK M, N : /\ M = [g \in Files |-> IF FileIs(g, b) THEN FileVmas(g) ELSE 0]
                  /\ N = [g \in Files |-> IF FileIs(g, b) THEN FileVmas(g)' ELSE 0]
  OBVIOUS
<1>1. \A g \in Files : FileVmas(g) \in Nat
  BY CountsNat
<1>2. Mappings(b) = SumFunctionOnSet(M, Files)
  BY <1>v, FunSum DEF Mappings, FileIs
<1>3. Mappings(b)' = SumFunctionOnSet(N, Files)
  <2>1. Mappings(b)' = SumFunction(N)
    BY <1>v DEF Mappings, FileIs
  <2> QED BY <1>v, <2>1, FunSum
<1>4. /\ \A g \in Files : M[g] \in Int
      /\ \A g \in Files \ {f} : M[g] = N[g]
      /\ N[f] - M[f] = IF FileIs(f, b) THEN d ELSE 0
      /\ N[f] \in Int
  BY <1>1, <1>v
<1>5. SumFunctionOnSet(N, Files) = SumFunctionOnSet(M, Files) + (N[f] - M[f])
  BY <1>4, Finite, SumChange
<1> QED BY <1>2, <1>3, <1>4, <1>5

(* ...and stay when a file without vmas comes or goes.                     *)
LEMMA MapsSame ==
    ASSUME TypeInv, TypeInv',
           \A g \in Files : FileVmas(g)' = FileVmas(g),
           \A g \in Files : file'[g] = file[g] \/ FileVmas(g) = 0
    PROVE  \A b \in Nat : Mappings(b)' = Mappings(b)
<1> SUFFICES ASSUME NEW b \in Nat PROVE Mappings(b)' = Mappings(b)
  OBVIOUS
<1> DEFINE M == [g \in Files |-> IF FileIs(g, b) THEN FileVmas(g) ELSE 0]
           N == [g \in Files |-> IF FileIs(g, b)' THEN FileVmas(g)' ELSE 0]
<1>1. Mappings(b) = SumFunctionOnSet(M, Files)
  BY FunSum DEF Mappings, FileIs
<1>2. Mappings(b)' = SumFunctionOnSet(N, Files)
  <2>1. Mappings(b)' = SumFunction(N)
    BY DEF Mappings, FileIs
  <2> QED BY <2>1, FunSum
<1>3. \A g \in Files : FileVmas(g) \in Nat
  BY CountsNat
<1>4. M = N
  BY <1>3 DEF FileIs
<1> QED BY <1>1, <1>2, <1>4

-----------------------------------------------------------------------------
(* The table of segments: what a step does to it, and what that keeps.     *)

WeightSum == SumFunction([i \in Index |-> Weight(seg[i])])
ChargeSum(u) == SumFunction([i \in Index |-> Charge(seg[i], u)])
DyingSum(u) == SumFunction([t \in Tasks |-> Charge(dying[t], u)])

(* p and q differ in shm_nattch at most.                                   *)
Same(p, q) ==
    /\ p.born = q.born /\ p.seq = q.seq /\ p.id = q.id /\ p.key = q.key /\ p.size = q.size
    /\ p.mode = q.mode /\ p.huge = q.huge /\ p.vm_locked = q.vm_locked
    /\ p.mlock_user = q.mlock_user

OnlySlot(i) == \A j \in Index \ {i} : seg'[j] = seg[j]

(* The segment in slot i is replaced; it is attached or detached; it is    *)
(* doomed; it is handed to t to be destroyed; t has destroyed it; all of   *)
(* them go.                                                                *)
Recounted(i) ==
    /\ i \in Live /\ OnlySlot(i)
    /\ seg'[i] # NoSeg /\ Same(seg'[i], seg[i])
    /\ UNCHANGED <<in_use, shm_tot, locked_shm, dying, ids, ids_seq>>

Doomed(i) ==
    /\ i \in Live /\ OnlySlot(i)
    /\ seg'[i] = [seg[i] EXCEPT !.mode = @ \cup {"DEST"}, !.key = IPC_PRIVATE]
    /\ UNCHANGED <<in_use, shm_tot, locked_shm, dying, ids, ids_seq>>

Removed(t, i) ==
    /\ i \in Live /\ OnlySlot(i)
    /\ seg'[i] = NoSeg
    /\ in_use' = in_use - 1 /\ shm_tot' = shm_tot - Pages(seg[i].size)
    /\ dying[t] = NoSeg /\ dying'[t] # NoSeg /\ Same(dying'[t], seg[i])
    /\ \A u \in Tasks \ {t} : dying'[u] = dying[u]
    /\ UNCHANGED <<locked_shm, ids, ids_seq>>

Cleared ==
    /\ seg' = [i \in Index |-> NoSeg]
    /\ in_use' = in_use - Cardinality(Live)
    /\ shm_tot' = shm_tot - SumFunction([i \in Live |-> Weight(seg[i])])
    /\ locked_shm' = [u \in Users |-> locked_shm[u]
                                        - SumFunction([i \in Live |-> Charge(seg[i], u)])]
    /\ UNCHANGED <<dying, ids, ids_seq>>

(* The sums are numbers.                                                   *)
SumsBound ==
    /\ WeightSum \in Nat
    /\ \A u \in Users : ChargeSum(u) \in Nat /\ DyingSum(u) \in Nat

(* The sums that shm_tot and locked_shm stand for are numbers.             *)
LEMMA SumsNat == ASSUME TypeInv PROVE SumsBound
<1>1. \A i \in Index : \A u : Charge(seg[i], u) \in Nat /\ Weight(seg[i]) \in Nat
  BY ChargeNat DEF TypeInv
<1>2. \A t \in Tasks : \A u : Charge(dying[t], u) \in Nat
  BY ChargeNat DEF TypeInv
<1>3. WeightSum \in Nat
  <2>1. PICK g : g = [i \in Index |-> Weight(seg[i])]
    OBVIOUS
  <2>2. WeightSum = SumFunctionOnSet(g, Index) /\ \A x \in Index : g[x] \in Nat
    BY <1>1, <2>1, FunSum DEF WeightSum
  <2> QED BY <2>2, Finite, SumNat
<1>4. ASSUME NEW u \in Users PROVE ChargeSum(u) \in Nat /\ DyingSum(u) \in Nat
  <2>1. PICK g, h : /\ g = [i \in Index |-> Charge(seg[i], u)]
                    /\ h = [t \in Tasks |-> Charge(dying[t], u)]
    OBVIOUS
  <2>2. ChargeSum(u) = SumFunctionOnSet(g, Index) /\ \A x \in Index : g[x] \in Nat
    BY <1>1, <2>1, FunSum DEF ChargeSum
  <2>3. DyingSum(u) = SumFunctionOnSet(h, Tasks) /\ \A x \in Tasks : h[x] \in Nat
    BY <1>2, <2>1, FunSum DEF DyingSum
  <2> QED BY <2>2, <2>3, Finite, SumNat
<1> QED BY <1>3, <1>4 DEF SumsBound

(* What a change of one slot does to the sums.                             *)
LEMMA SlotSums ==
    ASSUME TypeInv, TypeInv', NEW i \in Index, OnlySlot(i)
    PROVE  /\ WeightSum' = WeightSum + (Weight(seg'[i]) - Weight(seg[i]))
           /\ \A u \in Users :
                 ChargeSum(u)' = ChargeSum(u) + (Charge(seg'[i], u) - Charge(seg[i], u))
<1>1. \A j \in Index : \A u : Charge(seg[j], u) \in Nat /\ Weight(seg[j]) \in Nat
  BY ChargeNat DEF TypeInv
<1>2. \A u : Charge(seg'[i], u) \in Nat /\ Weight(seg'[i]) \in Nat
  BY ChargeNat DEF TypeInv
<1>3. WeightSum' = WeightSum + (Weight(seg'[i]) - Weight(seg[i]))
  <2>1. PICK g, h : /\ g = [j \in Index |-> Weight(seg[j])]
                    /\ h = [j \in Index |-> Weight(seg'[j])]
    OBVIOUS
  <2>2. WeightSum = SumFunctionOnSet(g, Index) /\ WeightSum' = SumFunctionOnSet(h, Index)
    BY <2>1, FunSum DEF WeightSum
  <2>3. /\ IsFiniteSet(Index) /\ h[i] \in Int /\ \A x \in Index : g[x] \in Int
        /\ \A x \in Index \ {i} : g[x] = h[x]
    BY <1>1, <1>2, <2>1, Finite DEF OnlySlot
  <2>4. SumFunctionOnSet(h, Index) = SumFunctionOnSet(g, Index) + (h[i] - g[i])
    BY <2>3, SumChange
  <2> QED BY <2>1, <2>2, <2>4
<1>4. ASSUME NEW u \in Users
      PROVE  ChargeSum(u)' = ChargeSum(u) + (Charge(seg'[i], u) - Charge(seg[i], u))
  <2>1. PICK g, h : /\ g = [j \in Index |-> Charge(seg[j], u)]
                    /\ h = [j \in Index |-> Charge(seg'[j], u)]
    OBVIOUS
  <2>2. ChargeSum(u) = SumFunctionOnSet(g, Index) /\ ChargeSum(u)' = SumFunctionOnSet(h, Index)
    BY <2>1, FunSum DEF ChargeSum
  <2>3. /\ IsFiniteSet(Index) /\ h[i] \in Int /\ \A x \in Index : g[x] \in Int
        /\ \A x \in Index \ {i} : g[x] = h[x]
    BY <1>1, <1>2, <2>1, Finite DEF OnlySlot
  <2>4. SumFunctionOnSet(h, Index) = SumFunctionOnSet(g, Index) + (h[i] - g[i])
    BY <2>3, SumChange
  <2> QED BY <2>1, <2>2, <2>4
<1> QED BY <1>3, <1>4

(* What one more or one less segment in shm_destroy() does to the charges. *)
LEMMA DyingSums ==
    ASSUME TypeInv, TypeInv', NEW t \in Tasks, \A s \in Tasks \ {t} : dying'[s] = dying[s]
    PROVE  \A u \in Users :
              DyingSum(u)' = DyingSum(u) + (Charge(dying'[t], u) - Charge(dying[t], u))
<1>1. \A s \in Tasks : \A u : Charge(dying[s], u) \in Nat
  BY ChargeNat DEF TypeInv
<1>2. \A u : Charge(dying'[t], u) \in Nat
  BY ChargeNat DEF TypeInv
<1> SUFFICES ASSUME NEW u \in Users
      PROVE  DyingSum(u)' = DyingSum(u) + (Charge(dying'[t], u) - Charge(dying[t], u))
  OBVIOUS
<1>3. PICK g, h : /\ g = [s \in Tasks |-> Charge(dying[s], u)]
                  /\ h = [s \in Tasks |-> Charge(dying'[s], u)]
  OBVIOUS
<1>4. DyingSum(u) = SumFunctionOnSet(g, Tasks) /\ DyingSum(u)' = SumFunctionOnSet(h, Tasks)
  BY <1>3, FunSum DEF DyingSum
<1>5. /\ IsFiniteSet(Tasks) /\ h[t] \in Int /\ \A x \in Tasks : g[x] \in Int
      /\ \A x \in Tasks \ {t} : g[x] = h[x]
  BY <1>1, <1>2, <1>3, Finite
<1>6. SumFunctionOnSet(h, Tasks) = SumFunctionOnSet(g, Tasks) + (h[t] - g[t])
  BY <1>5, SumChange
<1> QED BY <1>3, <1>4, <1>6

(* The table may be counted.                                               *)
LEMMA LiveFinite == IsFiniteSet(Live) /\ Cardinality(Live) \in Nat
BY Finite, FS_Subset, FS_CardinalityType DEF Live

(* What a segment weighs and charges does not depend on shm_nattch.        *)
LEMMA SameCharge ==
    ASSUME NEW p \in SegmentRecord, NEW q \in SegmentRecord, Same(p, q)
    PROVE  Weight(p) = Weight(q) /\ \A u : Charge(p, u) = Charge(q, u)
BY ShmConstants DEF Same, Weight, Charge

-----------------------------------------------------------------------------
(* No id is given out: the sequence numbers are as they were.              *)
LEMMA QuietSeq == ASSUME SeqInv, ids' = ids, ids_seq' = ids_seq PROVE SeqInv'
<1>1. \A k \in DOMAIN ids : IdSeq(k)' = IdSeq(k)
  BY DEF IdSeq
<1> QED BY <1>1 DEF SeqInv, Ahead

(* A step that leaves the table alone.                                     *)
LEMMA QuietTable ==
    ASSUME TableInv, UNCHANGED <<seg, in_use, shm_tot, locked_shm, dying, ids, ids_seq>>
    PROVE  TableInv'
<1>1. SegInv' /\ SlotInv' /\ LockInv' /\ KeyInv'
  BY DEF TableInv, SegInv, Created, SlotInv, LockInv, KeyInv, Live
<1>2. SeqInv'
  BY QuietSeq DEF TableInv
<1>3. Accounting' /\ LockedAccounting'
  BY DEF TableInv, Accounting, LockedAccounting, Live
<1> QED BY <1>1, <1>2, <1>3 DEF TableInv

(* shm_nattch goes up or down, and nothing else of the table changes.      *)
LEMMA RecountedTable ==
    ASSUME TypeInv, TypeInv', TableInv, NEW i, Recounted(i)
    PROVE  TableInv'
<1>t. /\ i \in Index /\ \A j \in Index : seg[j] # NoSeg => seg[j] \in SegmentRecord
      /\ seg'[i] \in SegmentRecord /\ seg[i] \in SegmentRecord
  BY DEF TypeInv, Recounted, Live
<1>f. /\ \A j \in Index : /\ j \in Live' <=> j \in Live
                          /\ j \in Live => Same(seg'[j], seg[j])
      /\ Live' = Live /\ Live \subseteq Index
  <2>1. \A j \in Index : /\ j \in Live' <=> j \in Live
                         /\ j \in Live => Same(seg'[j], seg[j])
    BY <1>t DEF Recounted, Live, OnlySlot, Same
  <2> QED BY <2>1 DEF Live
<1>1. SegInv' /\ SlotInv' /\ LockInv' /\ KeyInv'
  <2>1. SegInv'
    BY <1>f, <1>t DEF TableInv, SegInv, Created, Live, Recounted, Same
  <2>2. SlotInv'
    BY <1>f DEF TableInv, SlotInv, Same, ipcid_to_idx
  <2>3. LockInv'
    BY <1>f DEF TableInv, LockInv, Same
  <2>4. KeyInv'
    BY <1>f DEF TableInv, KeyInv, Same
  <2> QED BY <2>1, <2>2, <2>3, <2>4
<1>2. SeqInv'
  BY QuietSeq DEF TableInv, Recounted
<1>3. WeightSum' = WeightSum /\ \A u \in Users : ChargeSum(u)' = ChargeSum(u)
  <2>1. Weight(seg'[i]) = Weight(seg[i]) /\ \A u : Charge(seg'[i], u) = Charge(seg[i], u)
    BY <1>t, SameCharge DEF Recounted
  <2>2. /\ Weight(seg[i]) \in Nat /\ \A u : Charge(seg[i], u) \in Nat
        /\ WeightSum \in Nat /\ \A u \in Users : ChargeSum(u) \in Nat
    BY <1>t, ChargeNat, SumsNat DEF SumsBound
  <2> QED BY <1>t, <2>1, <2>2, SlotSums DEF Recounted
<1>4. Accounting'
  BY <1>f, <1>3 DEF TableInv, Accounting, WeightSum, Recounted
<1>5. LockedAccounting'
  <2>1. \A u \in Users : DyingSum(u)' = DyingSum(u)
    BY DEF DyingSum, Recounted
  <2> QED BY <1>3, <2>1 DEF TableInv, LockedAccounting, ChargeSum, DyingSum, Recounted
<1> QED BY <1>1, <1>2, <1>4, <1>5 DEF TableInv

(* do_shm_rmid() of an attached segment.                                   *)
LEMMA DoomedTable ==
    ASSUME TypeInv, TypeInv', TableInv, NEW i, Doomed(i)
    PROVE  TableInv'
<1>t. /\ i \in Index /\ Live \subseteq Index
      /\ seg'[i] \in SegmentRecord \cup {NoSeg} /\ seg[i] \in SegmentRecord
  BY DEF TypeInv, Doomed, Live
<1>d. /\ seg'[i].born = seg[i].born /\ seg'[i].seq = seg[i].seq /\ seg'[i].id = seg[i].id
      /\ seg'[i].key = IPC_PRIVATE /\ seg'[i].size = seg[i].size
      /\ seg'[i].mode = seg[i].mode \cup {"DEST"} /\ seg'[i].huge = seg[i].huge
      /\ seg'[i].vm_locked = seg[i].vm_locked /\ seg'[i].mlock_user = seg[i].mlock_user
  BY <1>t DEF Doomed, SegmentRecord
<1>n. seg'[i] # NoSeg
  <2>1. [seg[i] EXCEPT !.mode = @ \cup {"DEST"}, !.key = IPC_PRIVATE] \in SegmentRecord
    BY <1>t DEF SegmentRecord
  <2> QED BY <2>1, ShmConstants DEF Doomed
<1>f. Live' = Live /\ \A j \in Live : j = i \/ seg'[j] = seg[j]
  BY <1>t, <1>n DEF Doomed, Live, OnlySlot
<1>1. SegInv'
  BY <1>t, <1>d, <1>n DEF TableInv, SegInv, Created, Live, Doomed, OnlySlot
<1>2. SlotInv'
  BY <1>f, <1>d DEF TableInv, SlotInv, ipcid_to_idx
<1>3. LockInv'
  BY <1>f, <1>d DEF TableInv, LockInv
<1>4. KeyInv'
  BY <1>f, <1>d DEF TableInv, KeyInv
<1>5. SeqInv'
  BY QuietSeq DEF TableInv, Doomed
<1>6. WeightSum' = WeightSum /\ \A u \in Users : ChargeSum(u)' = ChargeSum(u)
  <2>1. Weight(seg'[i]) = Weight(seg[i]) /\ \A u : Charge(seg'[i], u) = Charge(seg[i], u)
    BY <1>t, <1>d, <1>n, ShmConstants DEF Weight, Charge
  <2>2. /\ Weight(seg[i]) \in Nat /\ \A u : Charge(seg[i], u) \in Nat
        /\ WeightSum \in Nat /\ \A u \in Users : ChargeSum(u) \in Nat
    BY <1>t, ChargeNat, SumsNat DEF SumsBound
  <2> QED BY <1>t, <2>1, <2>2, SlotSums DEF Doomed
<1>7. Accounting'
  BY <1>f, <1>6 DEF TableInv, Accounting, WeightSum, Doomed
<1>8. LockedAccounting'
  <2>1. \A u \in Users : DyingSum(u)' = DyingSum(u)
    BY DEF DyingSum, Doomed
  <2> QED BY <1>6, <2>1 DEF TableInv, LockedAccounting, ChargeSum, DyingSum, Doomed
<1> QED BY <1>1, <1>2, <1>3, <1>4, <1>5, <1>7, <1>8 DEF TableInv

(* The first half of shm_destroy().                                        *)
LEMMA RemovedTable ==
    ASSUME TypeInv, TypeInv', TableInv, NEW t \in Tasks, NEW i, Removed(t, i)
    PROVE  TableInv'
<1>t. /\ i \in Index /\ Live \subseteq Index /\ i \in Live
      /\ dying'[t] \in SegmentRecord /\ seg[i] \in SegmentRecord
  BY DEF TypeInv, Removed, Live
<1>f. Live' = Live \ {i} /\ \A j \in Live' : seg'[j] = seg[j] /\ j \in Live
  BY <1>t DEF Removed, Live, OnlySlot
<1>1. SegInv'
  <2>1. Created(dying'[t])
    BY <1>t, ShmConstants DEF TableInv, SegInv, Created, Removed, Same
  <2>2. \A j \in Index : Created(seg'[j])
    BY DEF TableInv, SegInv, Created, Removed, OnlySlot
  <2>3. \A u \in Tasks : Created(dying'[u])
    BY <2>1 DEF TableInv, SegInv, Removed
  <2> QED BY <2>2, <2>3 DEF SegInv, Created, Removed
<1>2. SlotInv'
  BY <1>f DEF TableInv, SlotInv, ipcid_to_idx
<1>3. LockInv'
  BY <1>f DEF TableInv, LockInv
<1>4. KeyInv'
  BY <1>f DEF TableInv, KeyInv
<1>5. SeqInv'
  BY QuietSeq DEF TableInv, Removed
<1>6. /\ Weight(seg[i]) = Pages(seg[i].size) /\ Weight(seg[i]) \in Nat
      /\ Weight(seg'[i]) = 0 /\ \A u : Charge(seg'[i], u) = 0
      /\ \A u : Charge(seg[i], u) \in Nat
      /\ \A u : Charge(dying'[t], u) = Charge(seg[i], u) /\ Charge(dying[t], u) = 0
  <2>1. \A u : Charge(dying'[t], u) = Charge(seg[i], u)
    BY <1>t, SameCharge DEF Removed
  <2>2. Weight(seg[i]) \in Nat /\ \A u : Charge(seg[i], u) \in Nat
    BY <1>t, ChargeNat
  <2> QED BY <1>t, <2>1, <2>2, ShmConstants DEF Removed, Weight, Charge
<1>7. Accounting'
  <2>1. WeightSum' = WeightSum + (Weight(seg'[i]) - Weight(seg[i])) /\ WeightSum \in Nat
    BY <1>t, SlotSums, SumsNat DEF Removed, SumsBound
  <2>2. Cardinality(Live') = Cardinality(Live) - 1 /\ Cardinality(Live) \in Nat
    BY <1>t, <1>f, LiveFinite, FS_RemoveElement
  <2>3. shm_tot = WeightSum /\ shm_tot <= shm_ctlall /\ in_use = Cardinality(Live)
        /\ in_use <= shm_ctlmni
    BY DEF TableInv, Accounting, WeightSum
  <2>4. shm_ctlall \in Nat /\ shm_ctlmni \in Nat
    BY ShmConstants
  <2>5. shm_tot' = WeightSum' /\ shm_tot' <= shm_ctlall
    BY <1>6, <2>1, <2>3, <2>4 DEF Removed
  <2>6. in_use' = Cardinality(Live') /\ in_use' <= shm_ctlmni
    BY <2>2, <2>3, <2>4 DEF Removed
  <2> QED BY <2>5, <2>6 DEF Accounting, WeightSum
<1>8. LockedAccounting'
  <2>1. \A u \in Users : /\ ChargeSum(u)' = ChargeSum(u) + (Charge(seg'[i], u) - Charge(seg[i], u))
                         /\ DyingSum(u)' = DyingSum(u) + (Charge(dying'[t], u) - Charge(dying[t], u))
                         /\ ChargeSum(u) \in Nat /\ DyingSum(u) \in Nat
    BY <1>t, SlotSums, DyingSums, SumsNat DEF Removed, SumsBound
  <2>2. \A u \in Users : locked_shm[u] = ChargeSum(u) + DyingSum(u)
    BY DEF TableInv, LockedAccounting, ChargeSum, DyingSum
  <2>3. \A u \in Users : locked_shm'[u] = ChargeSum(u)' + DyingSum(u)'
    BY <1>6, <2>1, <2>2 DEF Removed
  <2> QED BY <2>3 DEF LockedAccounting, ChargeSum, DyingSum
<1> QED BY <1>1, <1>2, <1>3, <1>4, <1>5, <1>7, <1>8 DEF TableInv

(* The end of shm_destroy() gives the charge back.                         *)
LEMMA FinishedTable ==
    ASSUME TypeInv, TypeInv', TableInv, NEW t \in Tasks, shm_destroy_end(t)
    PROVE  TableInv'
<1>q. /\ seg' = seg /\ in_use' = in_use /\ shm_tot' = shm_tot /\ ids' = ids
      /\ ids_seq' = ids_seq
  BY DEF shm_destroy_end, idsv
<1>f. Live' = Live
  BY <1>q DEF Live
<1>1. SegInv' /\ SlotInv' /\ LockInv' /\ KeyInv'
  <2>1. \A u \in Tasks : dying'[u] = NoSeg \/ dying'[u] = dying[u]
    BY DEF shm_destroy_end, TypeInv
  <2>2. SegInv'
    BY <1>q, <2>1 DEF TableInv, SegInv, Created
  <2> QED BY <1>q, <1>f, <2>2 DEF TableInv, SlotInv, LockInv, KeyInv, ipcid_to_idx
<1>2. SeqInv'
  BY <1>q, QuietSeq DEF TableInv
<1>3. Accounting'
  BY <1>q, <1>f DEF TableInv, Accounting
<1>4. LockedAccounting'
  <2>1. /\ \A u \in Tasks \ {t} : dying'[u] = dying[u]
        /\ dying'[t] = NoSeg
    BY DEF shm_destroy_end, TypeInv
  <2>2. \A u \in Users : /\ DyingSum(u)' = DyingSum(u) + (Charge(dying'[t], u) - Charge(dying[t], u))
                         /\ ChargeSum(u) \in Nat /\ DyingSum(u) \in Nat
                         /\ ChargeSum(u)' = ChargeSum(u)
    BY <1>q, <2>1, DyingSums, SumsNat DEF SumsBound, ChargeSum
  <2>3. \A u : Charge(dying'[t], u) = 0 /\ Charge(dying[t], u) \in Nat
    BY <2>1, ChargeNat DEF Charge, TypeInv
  <2>4. \A u \in Users : locked_shm[u] = ChargeSum(u) + DyingSum(u)
    BY DEF TableInv, LockedAccounting, ChargeSum, DyingSum
  <2>5. \A u \in Users : locked_shm'[u] = locked_shm[u] - Charge(dying[t], u)
    BY DEF shm_destroy_end
  <2>6. \A u \in Users : locked_shm'[u] = ChargeSum(u)' + DyingSum(u)'
    BY <2>2, <2>3, <2>4, <2>5
  <2> QED BY <2>6 DEF LockedAccounting, ChargeSum, DyingSum
<1> QED BY <1>1, <1>2, <1>3, <1>4 DEF TableInv

(* A sum over the table is the sum over its segments.                      *)
LEMMA LiveSums ==
    ASSUME TypeInv
    PROVE  /\ WeightSum = SumFunction([i \in Live |-> Weight(seg[i])])
           /\ \A u \in Users : ChargeSum(u) = SumFunction([i \in Live |-> Charge(seg[i], u)])
<1>1. \A i \in Index : \A u : Charge(seg[i], u) \in Nat /\ Weight(seg[i]) \in Nat
  BY ChargeNat DEF TypeInv
<1>2. Live \in SUBSET Index /\ IsFiniteSet(Live)
  BY LiveFinite DEF Live
<1>3. \A i \in Index \ Live : Weight(seg[i]) = 0 /\ \A u : Charge(seg[i], u) = 0
  BY DEF Live, Weight, Charge
<1>4. WeightSum = SumFunction([i \in Live |-> Weight(seg[i])])
  <2>1. PICK g, h : /\ g = [i \in Index |-> Weight(seg[i])] /\ h = [i \in Live |-> Weight(seg[i])]
    OBVIOUS
  <2>2. SumFunction(g) = SumFunctionOnSet(g, Index) /\ SumFunction(h) = SumFunctionOnSet(h, Live)
    BY <2>1, FunSum
  <2>3. \A x \in Index : g[x] \in Int
    BY <1>1, <2>1
  <2>4. \A x \in Index \ Live : g[x] = 0
    BY <1>3, <2>1
  <2>5. SumFunctionOnSet(g, Index) = SumFunctionOnSet(g, Live)
    BY <1>2, <2>3, <2>4, Finite, SumSupport
  <2>6. \A x \in Live : g[x] \in Int /\ g[x] = h[x]
    BY <1>1, <1>2, <2>1
  <2>7. SumFunctionOnSet(g, Live) = SumFunctionOnSet(h, Live)
    BY <1>2, <2>6, SumCong
  <2> QED BY <2>1, <2>2, <2>5, <2>7 DEF WeightSum
<1>5. ASSUME NEW u \in Users
      PROVE  ChargeSum(u) = SumFunction([i \in Live |-> Charge(seg[i], u)])
  <2>1. PICK g, h : /\ g = [i \in Index |-> Charge(seg[i], u)]
                    /\ h = [i \in Live |-> Charge(seg[i], u)]
    OBVIOUS
  <2>2. SumFunction(g) = SumFunctionOnSet(g, Index) /\ SumFunction(h) = SumFunctionOnSet(h, Live)
    BY <2>1, FunSum
  <2>3. \A x \in Index : g[x] \in Int
    BY <1>1, <2>1
  <2>4. \A x \in Index \ Live : g[x] = 0
    BY <1>3, <2>1
  <2>5. SumFunctionOnSet(g, Index) = SumFunctionOnSet(g, Live)
    BY <1>2, <2>3, <2>4, Finite, SumSupport
  <2>6. \A x \in Live : g[x] \in Int /\ g[x] = h[x]
    BY <1>1, <1>2, <2>1
  <2>7. SumFunctionOnSet(g, Live) = SumFunctionOnSet(h, Live)
    BY <1>2, <2>6, SumCong
  <2> QED BY <2>1, <2>2, <2>5, <2>7 DEF ChargeSum
<1> QED BY <1>4, <1>5

(* An empty table weighs nothing.                                          *)
EmptySums ==
    (\A i \in Index : seg[i] = NoSeg) => /\ Live = {} /\ WeightSum = 0
                                         /\ \A u \in Users : ChargeSum(u) = 0

(* An empty table weighs nothing and charges nobody.                       *)
LEMMA NoSums == EmptySums
<1> SUFFICES ASSUME \A i \in Index : seg[i] = NoSeg
             PROVE  Live = {} /\ WeightSum = 0 /\ \A u \in Users : ChargeSum(u) = 0
  BY DEF EmptySums
<1>1. ASSUME NEW g, DOMAIN g = Index, \A x \in Index : g[x] = 0 PROVE SumFunction(g) = 0
  <2>1. SumFunctionOnSet(g, Index) = SumFunctionOnSet(g, {})
    <3>1. \A x \in Index : g[x] \in Int
        BY <1>1
    <3> QED BY <1>1, <3>1, Finite, SumSupport
  <2> QED BY <1>1, <2>1, FunSum, SumEmpty
<1>2. Weight(NoSeg) = 0 /\ \A u : Charge(NoSeg, u) = 0
  BY DEF Weight, Charge
<1>3. WeightSum = 0
  <2>1. PICK g : g = [i \in Index |-> Weight(seg[i])]
    OBVIOUS
  <2> QED BY <1>1, <1>2, <2>1 DEF WeightSum
<1>4. ASSUME NEW u \in Users PROVE ChargeSum(u) = 0
  <2>1. PICK g : g = [i \in Index |-> Charge(seg[i], u)]
    OBVIOUS
  <2> QED BY <1>1, <1>2, <2>1 DEF ChargeSum
<1> QED BY <1>3, <1>4 DEF Live

(* shm_exit_ns() with no segment attached.                                 *)
LEMMA ClearedTable ==
    ASSUME TypeInv, TypeInv', TableInv, Cleared
    PROVE  TableInv'
<1>e. EmptySums'
  BY NoSums, PTL
<1>f. Live' = {} /\ WeightSum' = 0 /\ \A u \in Users : ChargeSum(u)' = 0
  BY <1>e DEF EmptySums, Cleared
<1>1. SegInv'
  BY DEF TableInv, SegInv, Created, Cleared
<1>2. SlotInv' /\ LockInv' /\ KeyInv'
  BY <1>f DEF SlotInv, LockInv, KeyInv
<1>3. SeqInv'
  BY QuietSeq DEF TableInv, Cleared
<1>4. Accounting'
  <2>1. shm_tot = WeightSum /\ in_use = Cardinality(Live)
    BY DEF TableInv, Accounting, WeightSum
  <2>2. shm_tot' = 0 /\ in_use' = 0
    BY <2>1, LiveSums, LiveFinite, SumsNat DEF Cleared, SumsBound
  <2>3. Cardinality(Live') = 0
    BY <1>f, FS_EmptySet
  <2> QED BY <1>f, <2>2, <2>3, ShmConstants DEF Accounting, WeightSum
<1>5. LockedAccounting'
  <2>1. \A u \in Users : /\ locked_shm[u] = ChargeSum(u) + DyingSum(u)
                         /\ ChargeSum(u) \in Nat /\ DyingSum(u) \in Nat
    BY SumsNat DEF TableInv, LockedAccounting, ChargeSum, DyingSum, SumsBound
  <2>2. \A u \in Users : locked_shm'[u] = locked_shm[u] - ChargeSum(u)
    BY LiveSums DEF Cleared
  <2>3. \A u \in Users : DyingSum(u)' = DyingSum(u)
    BY DEF DyingSum, Cleared
  <2>4. \A u \in Users : locked_shm'[u] = ChargeSum(u)' + DyingSum(u)'
    BY <1>f, <2>1, <2>2, <2>3
  <2> QED BY <2>4 DEF LockedAccounting, ChargeSum, DyingSum
<1> QED BY <1>1, <1>2, <1>3, <1>4, <1>5 DEF TableInv

-----------------------------------------------------------------------------
(* newseg().                                                               *)
NewSeg(t, i, key, size, huge) ==
    [born |-> Len(ids) + 1, seq |-> ids_seq, id |-> ipc_buildid(i, ids_seq),
     key |-> key, size |-> size, nattch |-> 0, mode |-> {}, huge |-> huge,
     vm_locked |-> FALSE, mlock_user |-> IF huge THEN UserOf[t] ELSE NoUser]

(* There is a free slot, and it takes the new segment.                     *)
LEMMA CreateSlot ==
    ASSUME TypeInv, TableInv, NEW t \in Tasks, NEW key \in Keys \cup {IPC_PRIVATE},
           NEW size \in Nat, NEW huge \in BOOLEAN, shmget(t, key, size, huge)
    PROVE  \E i \in Index \ Live :
              /\ seg' = [seg EXCEPT ![i] = NewSeg(t, i, key, size, huge)]
              /\ NewSeg(t, i, key, size, huge) \in SegmentRecord
              /\ NewSeg(t, i, key, size, huge) # NoSeg
              /\ ids' = Append(ids, ipc_buildid(i, ids_seq))
              /\ ipc_buildid(i, ids_seq) \in Nat
<1> DEFINE i == Min(Index \ Live)
<1>1. in_use < IPCMNI /\ in_use < shm_ctlmni
  <2>1. {shm_ctlmni, IPCMNI} \in SUBSET Nat /\ {shm_ctlmni, IPCMNI} # {}
    BY ShmConstants
  <2>2. Min({shm_ctlmni, IPCMNI}) <= shm_ctlmni /\ Min({shm_ctlmni, IPCMNI}) <= IPCMNI
        /\ Min({shm_ctlmni, IPCMNI}) \in Nat
    BY <2>1, MinLeast
  <2>3. in_use \in Int /\ in_use < Min({shm_ctlmni, IPCMNI})
    BY DEF TypeInv, shmget
  <2> QED BY <2>1, <2>2, <2>3
<1>2. Index \ Live # {}
  <2> SUFFICES ASSUME Index \ Live = {} PROVE FALSE
    OBVIOUS
  <2>1. Live = Index
    BY DEF Live
  <2> QED BY <1>1, <2>1, Finite, ShmConstants DEF TableInv, Accounting
<1>3. Index \ Live \in SUBSET Nat
  BY ShmConstants DEF Index
<1>4. i \in Index \ Live
  BY <1>2, <1>3, MinLeast
<1>5. /\ seg' = [seg EXCEPT ![i] = NewSeg(t, i, key, size, huge)]
      /\ ids' = Append(ids, ipc_buildid(i, ids_seq))
  BY DEF shmget, NewSeg
<1> HIDE DEF i
<1>6. ids_seq \in Nat /\ Len(ids) \in Nat
  BY ShmConstants DEF TypeInv
<1>7. ipc_buildid(i, ids_seq) \in Nat
  BY <1>4, <1>6, IdParts
<1>8. NewSeg(t, i, key, size, huge) \in SegmentRecord
  BY <1>6, <1>7, Finite DEF NewSeg, SegmentRecord
<1> QED BY <1>4, <1>5, <1>7, <1>8, ShmConstants

(* The sequence number of a new id is next in turn.                        *)
LEMMA SeqStep ==
    ASSUME SeqInv, ids \in Seq(Nat), ids_seq \in 0 .. seq_max, NEW i \in Index,
           ids' = Append(ids, ipc_buildid(i, ids_seq)), ids_seq' = next_seq(ids_seq)
    PROVE  SeqInv'
<1>c. seq_max \in Nat /\ ids_seq \in Nat
  BY ShmConstants
<1>1. /\ Len(ids') = Len(ids) + 1 /\ Len(ids) \in Nat
      /\ DOMAIN ids = 1 .. Len(ids) /\ DOMAIN ids' = 1 .. Len(ids) + 1
      /\ \A k \in DOMAIN ids : ids'[k] = ids[k]
      /\ ids'[Len(ids) + 1] = ipc_buildid(i, ids_seq)
  <2>1. ipc_buildid(i, ids_seq) \in Nat
    BY <1>c, IdParts
  <2> QED BY <2>1
<1>2. /\ \A k \in DOMAIN ids : IdSeq(k)' = IdSeq(k)
      /\ IdSeq(Len(ids) + 1)' = IdSeq(Len(ids) + 1)'
  BY <1>1 DEF IdSeq
<1>3. ASSUME NEW k \in DOMAIN ids', k = Len(ids) + 1 PROVE IdSeq(k)' = ids_seq
  BY <1>1, <1>3, <1>c, IdParts DEF IdSeq
<1>4. \A k \in DOMAIN ids' : IdSeq(k)' \in 0 .. seq_max
  <2> SUFFICES ASSUME NEW k \in DOMAIN ids' PROVE IdSeq(k)' \in 0 .. seq_max
    OBVIOUS
  <2>1. CASE k \in DOMAIN ids
    BY <1>2, <2>1 DEF SeqInv
  <2>2. CASE k = Len(ids) + 1
    BY <1>3, <2>2
  <2> QED BY <1>1, <2>1, <2>2
<1>5. ASSUME NEW k \in DOMAIN ids', Len(ids') + 1 - k <= seq_max + 1
      PROVE  Ahead(IdSeq(k)', ids_seq', Len(ids') + 1 - k)
  <2>1. CASE k \in DOMAIN ids
    <3>1. /\ Ahead(IdSeq(k), ids_seq, Len(ids) + 1 - k) /\ IdSeq(k) \in 0 .. seq_max
          /\ k \in 1 .. Len(ids)
        BY <1>1, <1>5, <1>c, <2>1 DEF SeqInv
    <3>2. ASSUME NEW a \in 0 .. seq_max, NEW d \in 1 .. seq_max, Ahead(a, ids_seq, d)
          PROVE  Ahead(a, next_seq(ids_seq), d + 1)
        BY <1>c, <3>2 DEF Ahead, next_seq
    <3>3. Len(ids) + 1 - k \in 1 .. seq_max
        BY <1>1, <1>5, <1>c, <3>1
    <3>4. Ahead(IdSeq(k), next_seq(ids_seq), (Len(ids) + 1 - k) + 1)
        BY <3>1, <3>2, <3>3
    <3>5. (Len(ids) + 1 - k) + 1 = Len(ids') + 1 - k
        BY <1>1, <3>1
    <3> QED BY <1>2, <2>1, <3>4, <3>5
  <2>2. CASE k = Len(ids) + 1
    <3>1. IdSeq(k)' = ids_seq /\ Len(ids') + 1 - k = 1
        BY <1>1, <1>3, <2>2
    <3>2. Ahead(ids_seq, next_seq(ids_seq), 1)
        BY <1>c DEF Ahead, next_seq
    <3> QED BY <3>1, <3>2
  <2> QED BY <1>1, <2>1, <2>2
<1>6. ASSUME NEW a \in DOMAIN ids', NEW b \in DOMAIN ids', a < b, b - a <= seq_max
      PROVE  Ahead(IdSeq(a)', IdSeq(b)', b - a)
  <2>1. CASE b \in DOMAIN ids
    <3>1. a \in DOMAIN ids
        BY <1>1, <1>6, <2>1
    <3> QED BY <1>2, <1>6, <2>1, <3>1 DEF SeqInv
  <2>2. CASE b = Len(ids) + 1
    <3>1. a \in DOMAIN ids /\ Len(ids) + 1 - a <= seq_max + 1
        BY <1>1, <1>6, <1>c, <2>2
    <3>2. Ahead(IdSeq(a), ids_seq, Len(ids) + 1 - a)
        BY <3>1 DEF SeqInv
    <3> QED BY <1>2, <1>3, <2>2, <3>1, <3>2
  <2> QED BY <1>1, <2>1, <2>2
<1> QED BY <1>4, <1>5, <1>6 DEF SeqInv, Ahead

(* newseg() and ipc_addid() keep the table in order.                       *)
LEMMA CreateTable ==
    ASSUME TypeInv, TypeInv', TableInv, NEW t \in Tasks, NEW key \in Keys \cup {IPC_PRIVATE},
           NEW size \in Nat, NEW huge \in BOOLEAN, shmget(t, key, size, huge)
    PROVE  TableInv'
<1>1. PICK i \in Index \ Live :
              /\ seg' = [seg EXCEPT ![i] = NewSeg(t, i, key, size, huge)]
              /\ NewSeg(t, i, key, size, huge) \in SegmentRecord
              /\ NewSeg(t, i, key, size, huge) # NoSeg
              /\ ids' = Append(ids, ipc_buildid(i, ids_seq))
              /\ ipc_buildid(i, ids_seq) \in Nat
  BY CreateSlot
<1>t. /\ seg \in [Index -> SegmentRecord \cup {NoSeg}] /\ ids \in Seq(Nat)
      /\ ids_seq \in 0 .. seq_max /\ seq_max \in Nat
  BY ShmConstants DEF TypeInv
<1>2. PICK shp : shp = NewSeg(t, i, key, size, huge)
  OBVIOUS
<1>3. /\ seg'[i] = shp /\ shp \in SegmentRecord /\ shp # NoSeg /\ OnlySlot(i)
      /\ seg[i] = NoSeg
  BY <1>1, <1>2, <1>t DEF OnlySlot, Live
<1>4. /\ shp.born = Len(ids) + 1 /\ shp.seq = ids_seq /\ shp.id = ipc_buildid(i, ids_seq)
      /\ shp.key = key /\ shp.size = size /\ shp.mode = {} /\ shp.huge = huge
      /\ shp.vm_locked = FALSE /\ shp.mlock_user = IF huge THEN UserOf[t] ELSE NoUser
  BY <1>2 DEF NewSeg
<1>5. /\ Live' = Live \cup {i} /\ i \notin Live
      /\ \A j \in Live : seg'[j] = seg[j] /\ j # i
  BY <1>1, <1>3 DEF Live, OnlySlot
<1>6. Len(ids') = Len(ids) + 1 /\ Len(ids) \in Nat
  BY <1>1, <1>t
<1>7. SegInv'
  <2>1. \A j \in Index : seg'[j] # NoSeg =>
          /\ seg'[j].born \in 1 .. Len(ids') /\ seg'[j].seq \in 0 .. seq_max
          /\ seg'[j].size \in 1 .. shm_ctlmax
    <3> SUFFICES ASSUME NEW j \in Index, seg'[j] # NoSeg
                 PROVE  /\ seg'[j].born \in 1 .. Len(ids') /\ seg'[j].seq \in 0 .. seq_max
                        /\ seg'[j].size \in 1 .. shm_ctlmax
        OBVIOUS
    <3>1. CASE j = i
      <4>1. size \in 1 .. shm_ctlmax
        BY DEF shmget
      <4> QED BY <1>3, <1>4, <1>6, <1>t, <3>1, <4>1
    <3>2. CASE j # i
        BY <1>3, <1>6, <3>2 DEF OnlySlot, TableInv, SegInv, Created
    <3> QED BY <3>1, <3>2
  <2>2. \A u \in Tasks : dying'[u] # NoSeg =>
          /\ dying'[u].born \in 1 .. Len(ids') /\ dying'[u].seq \in 0 .. seq_max
          /\ dying'[u].size \in 1 .. shm_ctlmax
    BY <1>6 DEF TableInv, SegInv, Created, shmget, dyv
  <2> QED BY <2>1, <2>2 DEF SegInv, Created
<1>8. SlotInv'
  <2>1. ipcid_to_idx(shp.id) = i
    BY <1>4, <1>t, IdParts
  <2>2. \A j \in Live : seg[j].born \in 1 .. Len(ids)
    BY DEF TableInv, SegInv, Created, Live
  <2>3. \A j \in Live : seg[j].born # shp.born
    BY <1>4, <1>6, <2>2
  <2> QED BY <1>3, <1>5, <2>1, <2>3 DEF TableInv, SlotInv, ipcid_to_idx
<1>9. LockInv'
  BY <1>3, <1>4, <1>5 DEF TableInv, LockInv
<1>10. KeyInv'
  <2>1. key # IPC_PRIVATE => \A j \in Live : seg[j].key # key
    BY DEF shmget, ipc_findkey
  <2> QED BY <1>3, <1>4, <1>5, <2>1 DEF TableInv, KeyInv
<1>11. SeqInv'
  BY <1>1, <1>t, SeqStep DEF TableInv, shmget
<1>12. /\ Weight(shp) = Pages(size) /\ Weight(seg[i]) = 0 /\ Pages(size) \in Nat
       /\ \A u \in Users : Charge(seg[i], u) = 0
       /\ \A u \in Users : Charge(shp, u) = IF huge /\ u = UserOf[t] THEN Pages(size) ELSE 0
  BY <1>3, <1>4, PagesNat DEF Weight, Charge
<1>13. Accounting'
  <2>1. WeightSum' = WeightSum + (Weight(seg'[i]) - Weight(seg[i])) /\ WeightSum \in Nat
    BY <1>3, SlotSums, SumsNat DEF SumsBound
  <2>2. Cardinality(Live') = Cardinality(Live) + 1 /\ Cardinality(Live) \in Nat
    BY <1>5, LiveFinite, FS_AddElement
  <2>3. shm_tot = WeightSum /\ in_use = Cardinality(Live)
    BY DEF TableInv, Accounting, WeightSum
  <2>4. shm_tot' = shm_tot + Pages(size) /\ shm_tot + Pages(size) <= shm_ctlall
    BY DEF shmget
  <2>5. in_use' = in_use + 1 /\ in_use < Min({shm_ctlmni, IPCMNI}) /\ in_use \in Int
    BY DEF shmget, TypeInv
  <2>6. Min({shm_ctlmni, IPCMNI}) <= shm_ctlmni /\ Min({shm_ctlmni, IPCMNI}) \in Nat
        /\ shm_ctlmni \in Nat
    <3>1. {shm_ctlmni, IPCMNI} \in SUBSET Nat /\ {shm_ctlmni, IPCMNI} # {}
        BY ShmConstants
    <3> QED BY <3>1, MinLeast
  <2>7. shm_tot' = WeightSum' /\ shm_tot' <= shm_ctlall
    BY <1>3, <1>12, <2>1, <2>3, <2>4
  <2>8. in_use' = Cardinality(Live') /\ in_use' <= shm_ctlmni
    BY <2>2, <2>3, <2>5, <2>6
  <2> QED BY <2>7, <2>8 DEF Accounting, WeightSum
<1>14. LockedAccounting'
  <2>1. \A u \in Users : /\ ChargeSum(u)' = ChargeSum(u) + (Charge(seg'[i], u) - Charge(seg[i], u))
                         /\ ChargeSum(u) \in Nat /\ DyingSum(u) \in Nat
                         /\ DyingSum(u)' = DyingSum(u)
    BY <1>3, SlotSums, SumsNat DEF SumsBound, DyingSum, shmget, dyv
  <2>2. \A u \in Users : locked_shm[u] = ChargeSum(u) + DyingSum(u)
    BY DEF TableInv, LockedAccounting, ChargeSum, DyingSum
  <2>3. \A u \in Users : locked_shm'[u] = locked_shm[u] + IF huge /\ u = UserOf[t] THEN Pages(size) ELSE 0
    <3>1. locked_shm \in [Users -> Int]
        BY DEF TypeInv
    <3> QED BY <1>12, <3>1 DEF shmget
  <2>4. \A u \in Users : locked_shm'[u] = ChargeSum(u)' + DyingSum(u)'
    BY <1>3, <1>12, <2>1, <2>2, <2>3
  <2> QED BY <2>4 DEF LockedAccounting, ChargeSum, DyingSum
<1> QED BY <1>7, <1>8, <1>9, <1>10, <1>11, <1>13, <1>14 DEF TableInv

(* An id that passes ipc_checkid() leads to a segment.                     *)
LEMMA CheckedId ==
    ASSUME NEW id, shm_lock_check(id)
    PROVE  ipcid_to_idx(id) \in Live /\ ipcid_to_idx(id) \in Index
BY DEF shm_lock_check, Live

(* The slot whose lock state changes, everything else being as it was.     *)
Relocked(i) ==
    /\ i \in Live /\ OnlySlot(i)
    /\ seg'[i] # NoSeg
    /\ seg'[i].born = seg[i].born /\ seg'[i].seq = seg[i].seq /\ seg'[i].id = seg[i].id
    /\ seg'[i].key = seg[i].key /\ seg'[i].size = seg[i].size
    /\ seg'[i].nattch = seg[i].nattch /\ seg'[i].huge = seg[i].huge
    /\ "DEST" \in seg'[i].mode <=> "DEST" \in seg[i].mode
    /\ ~seg[i].huge => /\ seg'[i].vm_locked <=> "LOCKED" \in seg'[i].mode
                       /\ seg'[i].vm_locked => seg'[i].mlock_user # NoUser
    /\ \A u \in Users : locked_shm'[u] = locked_shm[u] + (Charge(seg'[i], u) - Charge(seg[i], u))
    /\ UNCHANGED <<in_use, shm_tot, dying, ids, ids_seq>>

(* SHM_LOCK and SHM_UNLOCK keep the table in order.                        *)
LEMMA RelockedTable ==
    ASSUME TypeInv, TypeInv', TableInv, NEW i, Relocked(i)
    PROVE  TableInv'
<1>t. i \in Index /\ Live \subseteq Index
  BY DEF Relocked, Live
<1>f. Live' = Live /\ \A j \in Live : j = i \/ seg'[j] = seg[j]
  BY <1>t DEF Relocked, Live, OnlySlot
<1>q. /\ seg'[i].born = seg[i].born /\ seg'[i].seq = seg[i].seq /\ seg'[i].id = seg[i].id
      /\ seg'[i].key = seg[i].key /\ seg'[i].size = seg[i].size /\ seg'[i].huge = seg[i].huge
      /\ "DEST" \in seg'[i].mode <=> "DEST" \in seg[i].mode
      /\ seg'[i] # NoSeg /\ seg[i] # NoSeg /\ i \in Live
  BY DEF Relocked, Live
<1>1. SegInv'
  <2>1. \A j \in Index : seg'[j] # NoSeg =>
          /\ seg'[j].born \in 1 .. Len(ids) /\ seg'[j].seq \in 0 .. seq_max
          /\ seg'[j].size \in 1 .. shm_ctlmax
    BY <1>t, <1>q DEF Relocked, OnlySlot, TableInv, SegInv, Created
  <2> QED BY <2>1 DEF TableInv, SegInv, Created, Relocked
<1>2. SlotInv'
  BY <1>f, <1>q DEF TableInv, SlotInv, ipcid_to_idx
<1>3. LockInv'
  <2>1. ~seg[i].huge => /\ seg'[i].vm_locked <=> "LOCKED" \in seg'[i].mode
                        /\ seg'[i].vm_locked => seg'[i].mlock_user # NoUser
    BY DEF Relocked
  <2> QED BY <1>f, <1>q, <2>1 DEF TableInv, LockInv
<1>4. KeyInv'
  BY <1>f, <1>q DEF TableInv, KeyInv
<1>5. SeqInv'
  BY QuietSeq DEF TableInv, Relocked
<1>6. Weight(seg'[i]) = Weight(seg[i]) /\ Weight(seg[i]) \in Nat
  <2>1. seg[i] \in SegmentRecord \cup {NoSeg}
    BY <1>t DEF TypeInv
  <2> QED BY <1>q, <2>1, ChargeNat DEF Weight
<1>7. WeightSum' = WeightSum
  BY <1>t, <1>6, SlotSums, SumsNat DEF Relocked, SumsBound
<1>8. Accounting'
  BY <1>f, <1>7 DEF TableInv, Accounting, WeightSum, Relocked
<1>9. LockedAccounting'
  <2>1. \A u \in Users : /\ ChargeSum(u)' = ChargeSum(u) + (Charge(seg'[i], u) - Charge(seg[i], u))
                         /\ ChargeSum(u) \in Nat /\ DyingSum(u) \in Nat
    BY <1>t, SlotSums, SumsNat DEF Relocked, SumsBound
  <2>2. \A u \in Users : DyingSum(u)' = DyingSum(u)
    BY DEF DyingSum, Relocked
  <2>3. \A u \in Users : locked_shm[u] = ChargeSum(u) + DyingSum(u)
    BY DEF TableInv, LockedAccounting, ChargeSum, DyingSum
  <2>4. \A u \in Users : locked_shm'[u] = locked_shm[u] + (Charge(seg'[i], u) - Charge(seg[i], u))
    BY DEF Relocked
  <2>5. \A u : Charge(seg[i], u) \in Nat /\ Charge(seg'[i], u) \in Nat
    BY <1>t, ChargeNat DEF TypeInv
  <2>6. \A u \in Users : locked_shm'[u] = ChargeSum(u)' + DyingSum(u)'
    BY <2>1, <2>2, <2>3, <2>4, <2>5
  <2> QED BY <2>6 DEF LockedAccounting, ChargeSum, DyingSum
<1> QED BY <1>1, <1>2, <1>3, <1>4, <1>5, <1>8, <1>9 DEF TableInv

(* SHM_LOCK charges a segment that was not locked.                         *)
LEMMA LockSlot ==
    ASSUME TypeInv, TableInv, NEW t \in Tasks, NEW id \in Nat, shmctl_lock(t, id)
    PROVE  /\ Relocked(ipcid_to_idx(id))
           /\ seg' \in [Index -> SegmentRecord \cup {NoSeg}]
           /\ locked_shm' \in [Users -> Int]
<1>1. PICK i : i = ipcid_to_idx(id)
  OBVIOUS
<1>2. i \in Live /\ i \in Index
  BY <1>1, CheckedId DEF shmctl_lock
<1>3. PICK u : u = UserOf[t]
  OBVIOUS
<1>4. u \in Users /\ u # NoUser
  BY <1>3, Finite, ShmConstants
<1>5. /\ ~seg[i].huge /\ seg' = [seg EXCEPT ![i] = locked_by(seg[i], u)]
      /\ locked_shm' = [locked_shm EXCEPT ![u] =
            locked_shm[u] + IF seg[i].vm_locked THEN 0 ELSE Pages(seg[i].size)]
      /\ UNCHANGED <<in_use, shm_tot, dying, ids, ids_seq>>
  BY <1>1, <1>3 DEF shmctl_lock, dyv
<1>6. PICK shp : shp = seg[i]
  OBVIOUS
<1>7. /\ shp \in SegmentRecord /\ shp # NoSeg /\ locked_shm \in [Users -> Int]
      /\ seg \in [Index -> SegmentRecord \cup {NoSeg}]
  BY <1>2, <1>6 DEF TypeInv, Live
<1>8. /\ ~shp.huge /\ Pages(shp.size) \in Nat
      /\ shp.vm_locked <=> "LOCKED" \in shp.mode
      /\ shp.vm_locked => shp.mlock_user # NoUser
  <2>1. shp.size \in Nat
    BY <1>7 DEF SegmentRecord
  <2> QED BY <1>2, <1>5, <1>6, <2>1, PagesNat DEF TableInv, LockInv
<1>9. PICK q : q = locked_by(shp, u)
  OBVIOUS
<1>10. CASE "LOCKED" \in shp.mode
  <2>1. q = shp
    BY <1>9, <1>10 DEF locked_by
  <2>2. seg' = seg
    BY <1>5, <1>6, <1>7, <1>9, <2>1
  <2>3. \A v \in Users : locked_shm'[v] = locked_shm[v]
    BY <1>5, <1>6, <1>7, <1>8, <1>10
  <2>4. \A v \in Users : Charge(shp, v) \in Nat
    BY <1>7, ChargeNat
  <2>5. \A v \in Users : locked_shm'[v] = locked_shm[v] + (Charge(seg'[i], v) - Charge(seg[i], v))
    BY <1>6, <1>7, <2>2, <2>3, <2>4
  <2>6. locked_shm' \in [Users -> Int]
    <3>1. PICK c : c = IF seg[i].vm_locked THEN 0 ELSE Pages(seg[i].size)
        OBVIOUS
    <3>2. c \in Nat /\ locked_shm' = [locked_shm EXCEPT ![u] = locked_shm[u] + c]
        BY <1>5, <1>6, <1>8, <3>1
    <3> QED BY <1>4, <1>7, <3>2
  <2> QED BY <1>1, <1>2, <1>5, <1>6, <1>7, <1>8, <2>2, <2>5, <2>6 DEF Relocked, OnlySlot
<1>11. CASE "LOCKED" \notin shp.mode
  <2>1. q = [shp EXCEPT !.vm_locked = TRUE, !.mode = shp.mode \cup {"LOCKED"}, !.mlock_user = u]
    BY <1>9, <1>11 DEF locked_by
  <2>2. q \in SegmentRecord /\ q # NoSeg
    <3>1. q \in SegmentRecord
        BY <1>4, <1>7, <2>1 DEF SegmentRecord
    <3> QED BY <3>1, ShmConstants
  <2>3. /\ q.born = shp.born /\ q.seq = shp.seq /\ q.id = shp.id /\ q.key = shp.key
        /\ q.size = shp.size /\ q.nattch = shp.nattch /\ q.huge = shp.huge
        /\ q.vm_locked = TRUE /\ q.mode = shp.mode \cup {"LOCKED"} /\ q.mlock_user = u
    BY <1>7, <2>1 DEF SegmentRecord
  <2>4. seg'[i] = q /\ OnlySlot(i) /\ seg' \in [Index -> SegmentRecord \cup {NoSeg}]
    BY <1>2, <1>5, <1>6, <1>7, <1>9, <2>2 DEF OnlySlot
  <2>5. \A v \in Users : /\ Charge(shp, v) = 0
                         /\ Charge(q, v) = IF v = u THEN Pages(shp.size) ELSE 0
    BY <1>8, <1>11, <2>2, <2>3 DEF Charge
  <2>6. /\ \A v \in Users : locked_shm'[v] = locked_shm[v] + IF v = u THEN Pages(shp.size) ELSE 0
        /\ locked_shm' \in [Users -> Int]
    BY <1>4, <1>5, <1>6, <1>7, <1>8, <1>11
  <2>7. \A v \in Users : locked_shm'[v] = locked_shm[v] + (Charge(seg'[i], v) - Charge(seg[i], v))
    BY <1>6, <1>7, <1>8, <2>4, <2>5, <2>6
  <2>8. /\ "DEST" \in q.mode <=> "DEST" \in shp.mode
        /\ "LOCKED" \in q.mode
    BY <2>3
  <2> QED BY <1>1, <1>2, <1>4, <1>5, <1>6, <2>2, <2>3, <2>4, <2>6, <2>7, <2>8 DEF Relocked
<1> QED BY <1>10, <1>11

(* SHM_UNLOCK gives the charge back to whoever was charged.                *)
LEMMA UnlockSlot ==
    ASSUME TypeInv, TableInv, NEW t \in Tasks, NEW id \in Nat, shmctl_unlock(t, id)
    PROVE  /\ Relocked(ipcid_to_idx(id))
           /\ seg' \in [Index -> SegmentRecord \cup {NoSeg}]
           /\ locked_shm' \in [Users -> Int]
<1>1. PICK i : i = ipcid_to_idx(id)
  OBVIOUS
<1>2. i \in Live /\ i \in Index
  BY <1>1, CheckedId DEF shmctl_unlock
<1>3. PICK q : q = unlocked(seg[i])
  OBVIOUS
<1>5. /\ ~seg[i].huge /\ seg' = [seg EXCEPT ![i] = q]
      /\ locked_shm' = [u \in Users |-> locked_shm[u] - Charge(seg[i], u)]
      /\ UNCHANGED <<in_use, shm_tot, dying, ids, ids_seq>>
  <2>1. /\ ~seg[i].huge
        /\ locked_shm' = [u \in Users |-> locked_shm[u] - Charge(seg[i], u)]
        /\ UNCHANGED <<in_use, shm_tot, dying, ids, ids_seq>>
    BY <1>1 DEF shmctl_unlock, dyv
  <2>2. seg' = [seg EXCEPT ![i] = q]
    BY <1>1, <1>3 DEF shmctl_unlock
  <2> QED BY <2>1, <2>2
<1>6. PICK shp : shp = seg[i]
  OBVIOUS
<1>7. /\ shp \in SegmentRecord /\ shp # NoSeg /\ locked_shm \in [Users -> Int]
      /\ seg \in [Index -> SegmentRecord \cup {NoSeg}]
  BY <1>2, <1>6 DEF TypeInv, Live
<1>8. ~shp.huge /\ (shp.vm_locked => shp.mlock_user # NoUser) /\ shp.vm_locked \in BOOLEAN
  BY <1>2, <1>5, <1>6, <1>7 DEF TableInv, LockInv, SegmentRecord
<1>9. q \in SegmentRecord /\ q # NoSeg
  <2>1. (shp.vm_locked /\ shp.mlock_user = NoUser) \in BOOLEAN
    OBVIOUS
  <2>2. q \in SegmentRecord
    BY <1>3, <1>6, <1>7, <2>1 DEF SegmentRecord, unlocked
  <2> QED BY <2>2, ShmConstants
<1>10. /\ q.born = shp.born /\ q.seq = shp.seq /\ q.id = shp.id /\ q.key = shp.key
       /\ q.size = shp.size /\ q.nattch = shp.nattch /\ q.huge = shp.huge
       /\ q.vm_locked = (shp.vm_locked /\ shp.mlock_user = NoUser)
       /\ q.mode = shp.mode \ {"LOCKED"} /\ q.mlock_user = NoUser
  BY <1>3, <1>6, <1>7 DEF SegmentRecord, unlocked
<1>11. seg'[i] = q /\ OnlySlot(i) /\ seg' \in [Index -> SegmentRecord \cup {NoSeg}]
  BY <1>2, <1>5, <1>7, <1>9 DEF OnlySlot
<1>12. \A u \in Users : Charge(q, u) = 0 /\ Charge(shp, u) \in Nat
  <2>1. \A u \in Users : u # NoUser
    BY ShmConstants
  <2> QED BY <1>7, <1>10, <2>1, ChargeNat DEF Charge
<1>13. /\ \A u \in Users : locked_shm'[u] = locked_shm[u] - Charge(shp, u)
       /\ locked_shm' \in [Users -> Int]
  BY <1>5, <1>6, <1>7, <1>12
<1>14. \A u \in Users : locked_shm'[u] = locked_shm[u] + (Charge(seg'[i], u) - Charge(seg[i], u))
  BY <1>6, <1>7, <1>11, <1>12, <1>13
<1>15. /\ "DEST" \in q.mode <=> "DEST" \in shp.mode
       /\ "LOCKED" \notin q.mode /\ ~q.vm_locked
  BY <1>8, <1>10
<1> QED BY <1>1, <1>2, <1>5, <1>6, <1>9, <1>10, <1>11, <1>13, <1>14, <1>15 DEF Relocked

-----------------------------------------------------------------------------
(* What the operations on one segment do.                                  *)

(* shm_open(), shmat_find().                                               *)
LEMMA UpSlot ==
    ASSUME TypeInv, NEW i \in Live, seg' = [seg EXCEPT ![i].nattch = @ + 1]
    PROVE  /\ seg' \in [Index -> SegmentRecord \cup {NoSeg}] /\ OnlySlot(i)
           /\ seg'[i] # NoSeg /\ Same(seg'[i], seg[i])
           /\ seg'[i].nattch = seg[i].nattch + 1
<1>1. PICK shp : shp = seg[i]
  OBVIOUS
<1>2. /\ i \in Index /\ shp \in SegmentRecord /\ shp.nattch \in Int
      /\ seg \in [Index -> SegmentRecord \cup {NoSeg}]
  BY <1>1 DEF TypeInv, Live, SegmentRecord
<1>3. PICK q : q = [shp EXCEPT !.nattch = shp.nattch + 1]
  OBVIOUS
<1>4. q \in SegmentRecord /\ Same(q, shp) /\ q.nattch = shp.nattch + 1
  BY <1>2, <1>3 DEF SegmentRecord, Same
<1>5. seg' = [seg EXCEPT ![i] = q]
  BY <1>1, <1>3
<1> QED BY <1>1, <1>2, <1>4, <1>5, ShmConstants DEF OnlySlot

(* put_attach(): the segment stays...                                      *)
Detached(t, i, back) ==
    /\ seg'[i] # NoSeg /\ Same(seg'[i], seg[i]) /\ seg'[i].nattch = seg[i].nattch - 1
    /\ "DEST" \in seg[i].mode => seg[i].nattch # 1
    /\ UNCHANGED <<in_use, shm_tot, rw_mutex, dying, ret>>
    /\ pc' = [pc EXCEPT ![t] = back]

(* ...or goes.                                                             *)
Destroyed(t, i, back) ==
    /\ seg'[i] = NoSeg
    /\ in_use' = in_use - 1 /\ shm_tot' = shm_tot - Pages(seg[i].size)
    /\ rw_mutex' = t
    /\ \E q \in SegmentRecord : dying' = [dying EXCEPT ![t] = q] /\ Same(q, seg[i])
    /\ ret' = [ret EXCEPT ![t] = back]
    /\ pc' = [pc EXCEPT ![t] = "destroy"]

SlotTypes ==
    /\ seg' \in [Index -> SegmentRecord \cup {NoSeg}]
    /\ dying' \in [Tasks -> SegmentRecord \cup {NoSeg}]
    /\ in_use' \in Int /\ shm_tot' \in Int

(* shm_destroy() empties the slot and hands the segment to t.              *)
LEMMA DestroySlot ==
    ASSUME TypeInv, NEW t \in Tasks, NEW i \in Live, NEW shp \in SegmentRecord, NEW back,
           Same(shp, seg[i]), shm_destroy(t, i, shp, back)
    PROVE  Destroyed(t, i, back) /\ OnlySlot(i) /\ SlotTypes
<1>1. /\ i \in Index /\ seg \in [Index -> SegmentRecord \cup {NoSeg}]
      /\ dying \in [Tasks -> SegmentRecord \cup {NoSeg}]
      /\ in_use \in Int /\ shm_tot \in Int
  BY DEF TypeInv, Live
<1>2. Pages(shp.size) \in Nat /\ shp.size = seg[i].size
  <2>1. shp.size \in Nat
    BY DEF SegmentRecord
  <2> QED BY <2>1, PagesNat DEF Same
<1>3. /\ seg' = [seg EXCEPT ![i] = NoSeg] /\ dying' = [dying EXCEPT ![t] = shp]
      /\ in_use' = in_use - 1 /\ shm_tot' = shm_tot - Pages(shp.size)
      /\ rw_mutex' = t /\ ret' = [ret EXCEPT ![t] = back]
      /\ pc' = [pc EXCEPT ![t] = "destroy"]
  BY DEF shm_destroy, Goto
<1>4. SlotTypes /\ seg'[i] = NoSeg /\ OnlySlot(i)
  BY <1>1, <1>2, <1>3 DEF SlotTypes, OnlySlot
<1> QED BY <1>2, <1>3, <1>4 DEF Destroyed

(* The end of do_shmat() and shm_close(): the count goes down, or the      *)
(* segment goes.                                                           *)
LEMMA PutSlot ==
    ASSUME TypeInv, NEW t \in Tasks, NEW i \in Live, NEW back, put_attach(t, i, back)
    PROVE  /\ SlotTypes /\ OnlySlot(i)
           /\ Detached(t, i, back) \/ (seg[i].nattch = 1 /\ Destroyed(t, i, back))
<1>1. PICK shp : shp = [seg[i] EXCEPT !.nattch = @ - 1]
  OBVIOUS
<1>2. /\ i \in Index /\ seg[i] \in SegmentRecord /\ seg[i].nattch \in Int
      /\ seg[i].mode \in SUBSET {"DEST", "LOCKED"}
      /\ seg \in [Index -> SegmentRecord \cup {NoSeg}]
      /\ dying \in [Tasks -> SegmentRecord \cup {NoSeg}] /\ in_use \in Int /\ shm_tot \in Int
  BY DEF TypeInv, Live, SegmentRecord
<1>3. shp \in SegmentRecord /\ Same(shp, seg[i]) /\ shp.nattch = seg[i].nattch - 1
  BY <1>1, <1>2 DEF SegmentRecord, Same
<1>4. CASE shp.nattch = 0 /\ "DEST" \in shp.mode
  <2>1. shm_destroy(t, i, shp, back)
    BY <1>1, <1>4 DEF put_attach
  <2>2. seg[i].nattch = 1
    BY <1>2, <1>3, <1>4
  <2> QED BY <1>3, <2>1, <2>2, DestroySlot
<1>5. CASE ~(shp.nattch = 0 /\ "DEST" \in shp.mode)
  <2>1. /\ seg' = [seg EXCEPT ![i] = shp]
        /\ pc' = [pc EXCEPT ![t] = back]
        /\ UNCHANGED <<in_use, shm_tot, rw_mutex, dying, ret>>
    BY <1>1, <1>5 DEF put_attach, Goto, dyv
  <2>2. "DEST" \in seg[i].mode => seg[i].nattch # 1
    BY <1>2, <1>3, <1>5 DEF Same
  <2>3. seg'[i] = shp /\ OnlySlot(i) /\ shp # NoSeg
    BY <1>2, <1>3, <2>1, ShmConstants DEF OnlySlot
  <2>4. SlotTypes
    BY <1>2, <1>3, <2>1 DEF SlotTypes
  <2> QED BY <1>3, <2>1, <2>2, <2>3, <2>4 DEF Detached
<1> QED BY <1>4, <1>5

(* do_shm_rmid().                                                          *)
LEMMA RmidSlot ==
    ASSUME TypeInv, NEW t \in Tasks, NEW i \in Live, do_shm_rmid(t, i)
    PROVE  /\ SlotTypes /\ OnlySlot(i)
           /\ \/ /\ seg[i].nattch > 0
                 /\ seg'[i] # NoSeg /\ seg'[i].nattch = seg[i].nattch
                 /\ seg'[i].born = seg[i].born
                 /\ seg'[i] = [seg[i] EXCEPT !.mode = @ \cup {"DEST"}, !.key = IPC_PRIVATE]
                 /\ UNCHANGED <<in_use, shm_tot, rw_mutex, dying, ret, pc>>
              \/ ~(seg[i].nattch > 0) /\ Destroyed(t, i, "user")
<1>2. /\ i \in Index /\ seg[i] \in SegmentRecord /\ seg[i].nattch \in Int
      /\ seg \in [Index -> SegmentRecord \cup {NoSeg}]
      /\ dying \in [Tasks -> SegmentRecord \cup {NoSeg}] /\ in_use \in Int /\ shm_tot \in Int
  BY DEF TypeInv, Live, SegmentRecord
<1>3. CASE seg[i].nattch > 0
  <2>1. PICK q : q = [seg[i] EXCEPT !.mode = @ \cup {"DEST"}, !.key = IPC_PRIVATE]
    OBVIOUS
  <2>2. q \in SegmentRecord /\ q.nattch = seg[i].nattch /\ q.born = seg[i].born
    BY <1>2, <2>1 DEF SegmentRecord
  <2>3. seg' = [seg EXCEPT ![i] = q] /\ UNCHANGED <<in_use, shm_tot, rw_mutex, dying, ret, pc>>
    <3>1. /\ seg' = [seg EXCEPT ![i].mode = @ \cup {"DEST"}, ![i].key = IPC_PRIVATE]
          /\ UNCHANGED <<in_use, shm_tot, rw_mutex, dying, ret, pc>>
        BY <1>3 DEF do_shm_rmid, dyv
    <3>2. [seg EXCEPT ![i].mode = @ \cup {"DEST"}, ![i].key = IPC_PRIVATE] = [seg EXCEPT ![i] = q]
        BY <1>2, <2>1
    <3> QED BY <3>1, <3>2
  <2>4. seg'[i] = q /\ OnlySlot(i) /\ SlotTypes /\ q # NoSeg
    BY <1>2, <2>2, <2>3, ShmConstants DEF OnlySlot, SlotTypes
  <2> QED BY <1>3, <2>1, <2>2, <2>3, <2>4
<1>4. CASE ~(seg[i].nattch > 0)
  <2>1. shm_destroy(t, i, seg[i], "user") /\ Same(seg[i], seg[i])
    BY <1>4 DEF do_shm_rmid, Same
  <2> QED BY <1>2, <1>4, <2>1, DestroySlot
<1> QED BY <1>3, <1>4

(* The last reference to the namespace takes all segments with it, when    *)
(* none is attached.                                                       *)
LEMMA PutNs ==
    ASSUME TypeInv, put_ipc_ns, nscount \in Int,
           nscount <= 1 => \A i \in Live : seg[i].nattch = 0
    PROVE  /\ nscount' = nscount - 1
           /\ \/ nscount > 1 /\ UNCHANGED <<seg, in_use, shm_tot, locked_shm>>
              \/ /\ nscount <= 1
                 /\ UNCHANGED <<dying, ids, ids_seq>> => Cleared
           /\ seg' \in [Index -> SegmentRecord \cup {NoSeg}]
           /\ in_use' \in Int /\ shm_tot' \in Int /\ locked_shm' \in [Users -> Int]
           /\ nscount <= 1 => seg' = [i \in Index |-> NoSeg]
<1>t. /\ seg \in [Index -> SegmentRecord \cup {NoSeg}] /\ in_use \in Int /\ shm_tot \in Int
      /\ locked_shm \in [Users -> Int]
  BY DEF TypeInv
<1>1. CASE nscount > 1
  BY <1>1, <1>t DEF put_ipc_ns, idsv
<1>2. CASE nscount <= 1
  <2>0. (nscount > 1) = FALSE
    BY <1>2
  <2>1. {i \in Live : seg[i].nattch = 0} = Live
    BY <1>2
  <2>2. /\ seg' = [i \in Index |-> IF i \in Live THEN NoSeg
                                  ELSE IF i \in Live THEN [seg[i] EXCEPT !.key = IPC_PRIVATE,
                                                                   !.mode = @ \cup {"DEST"}]
                                  ELSE NoSeg]
        /\ in_use' = in_use - Cardinality(Live)
        /\ shm_tot' = shm_tot - SumFunction([i \in Live |-> Weight(seg[i])])
        /\ locked_shm' = [u \in Users |-> locked_shm[u]
                                     - SumFunction([i \in Live |-> Charge(seg[i], u)])]
        /\ nscount' = nscount - 1
    BY <2>0, <2>1, Zenon DEF put_ipc_ns
  <2>3. seg' = [i \in Index |-> NoSeg]
    BY <2>2
  <2>4. /\ Cardinality(Live) \in Nat
        /\ SumFunction([i \in Live |-> Weight(seg[i])]) \in Nat
        /\ \A u \in Users : SumFunction([i \in Live |-> Charge(seg[i], u)]) \in Nat
    BY LiveFinite, LiveSums, SumsNat DEF SumsBound
  <2>5. in_use' \in Int /\ shm_tot' \in Int /\ locked_shm' \in [Users -> Int]
    BY <1>t, <2>2, <2>4
  <2> QED BY <1>2, <2>2, <2>3, <2>5 DEF Cleared
<1> QED BY <1>1, <1>2

-----------------------------------------------------------------------------
(* The last reference to a file, and to the namespace.                     *)

Open == {f \in Files : file[f] # NoFile}

(* The files of attaches can be counted.                                   *)
LEMMA OpenFinite == IsFiniteSet(Open) /\ Cardinality(Open) \in Nat
BY Finite, FS_Subset, FS_CardinalityType DEF Open

(* Without a vma and without a do_shmat(), shm_nattch is zero everywhere.  *)
LEMMA NoUsers ==
    ASSUME IInv, \A f \in Files : FileVmas(f) = 0, \A t \in Tasks : at[t].born = 0
    PROVE  \A i \in Live : seg[i].nattch = 0
<1> SUFFICES ASSUME NEW i \in Live PROVE seg[i].nattch = 0
  OBVIOUS
<1>1. PICK b : b = seg[i].born
  OBVIOUS
<1>2. b \in Nat
  BY <1>1 DEF IInv, TypeInv, Live, SegmentRecord
<1>3. Attaching(b) = {}
  BY DEF IInv, UseInv, TaskInv, TaskAt, Attaching
<1>4. Mappings(b) = 0 /\ Cardinality(Attaching(b)) = 0
  BY <1>2, <1>3, UsesNat DEF IInv, UsesBound
<1>5. seg[i].nattch = Mappings(b) + Cardinality(Attaching(b))
  BY <1>1 DEF IInv, UseInv, AttachCount
<1> QED BY <1>4, <1>5

(* fput() of the last reference finds no other.                            *)
LEMMA LastRef ==
    ASSUME TypeInv, NEW t \in Tasks, NEW f \in Files, cur[t] = f \/ at[t].f = f,
           ~(FileRefs(f) > 1)
    PROVE  /\ FileVmas(f) = 0
           /\ \A u \in Tasks : cur[u] = f => u = t /\ at[t].f # f
           /\ \A u \in Tasks : at[u].f = f => u = t /\ cur[t] # f
<1> DEFINE C == {u \in Tasks : cur[u] = f}
           A == {u \in Tasks : at[u].f = f}
<1>1. /\ IsFiniteSet(C) /\ Cardinality(C) \in Nat
      /\ IsFiniteSet(A) /\ Cardinality(A) \in Nat
  BY Finite, FS_Subset, FS_CardinalityType
<1>2. FileRefs(f) = FileVmas(f) + Cardinality(C) + Cardinality(A)
  BY DEF FileRefs
<1>3. FileVmas(f) \in Nat
  BY CountsNat
<1>4. t \in C \/ t \in A
  OBVIOUS
<1> HIDE DEF C, A
<1>5. /\ t \in C => Cardinality(C) # 0 /\ Cardinality(C \ {t}) = Cardinality(C) - 1
      /\ t \in A => Cardinality(A) # 0 /\ Cardinality(A \ {t}) = Cardinality(A) - 1
  BY <1>1, FS_EmptySet, FS_RemoveElement
<1>6. IsFiniteSet(C \ {t}) /\ IsFiniteSet(A \ {t})
  BY <1>1, FS_Subset
<1>7. CASE t \in C
  <2>1. FileVmas(f) = 0 /\ Cardinality(C) = 1 /\ Cardinality(A) = 0
    BY <1>1, <1>2, <1>3, <1>5, <1>7
  <2>2. A = {} /\ C \ {t} = {}
    BY <1>1, <1>5, <1>6, <1>7, <2>1, FS_EmptySet
  <2> QED BY <2>1, <2>2 DEF A, C
<1>8. CASE t \in A
  <2>1. FileVmas(f) = 0 /\ Cardinality(A) = 1 /\ Cardinality(C) = 0
    BY <1>1, <1>2, <1>3, <1>5, <1>8
  <2>2. C = {} /\ A \ {t} = {}
    BY <1>1, <1>5, <1>6, <1>8, <2>1, FS_EmptySet
  <2> QED BY <2>1, <2>2 DEF A, C
<1> QED BY <1>4, <1>7, <1>8

(* The namespace is freed by a file only when that is all there is.        *)
LEMMA LastFile ==
    ASSUME IInv, NEW t \in Tasks, NEW f \in Files, cur[t] = f \/ at[t].f = f,
           ~(FileRefs(f) > 1), nscount <= 1
    PROVE  \A i \in Live : seg[i].nattch = 0
<1>1. FileVmas(f) = 0
  BY LastRef DEF IInv
<1>2. file[f] # NoFile
  BY ShmConstants DEF IInv, UseInv, PinInv
<1>3. f \in Open /\ IsFiniteSet(Open) /\ Cardinality(Open) \in Nat
  BY <1>2, OpenFinite DEF Open
<1>4. Cardinality(Open) # 0 /\ Cardinality(Open \ {f}) = Cardinality(Open) - 1
      /\ IsFiniteSet(Open \ {f})
  BY <1>3, FS_EmptySet, FS_RemoveElement, FS_Subset
<1>5. nscount = Cardinality(Open) + IF members = {} THEN 0 ELSE 1
  BY DEF IInv, UseInv, NsInv, Open
<1>6. members = {} /\ Cardinality(Open) = 1
  BY <1>3, <1>4, <1>5 DEF IInv, TypeInv
<1>7. Open \ {f} = {}
  BY <1>4, <1>6, FS_EmptySet
<1>8. \A g \in Files : FileVmas(g) = 0
  <2> SUFFICES ASSUME NEW g \in Files PROVE FileVmas(g) = 0
    OBVIOUS
  <2>1. g # f => file[g] = NoFile
    BY <1>7 DEF Open
  <2>2. FileVmas(g) \in Nat
    BY CountsNat DEF IInv
  <2>3. FileVmas(g) > 0 => file[g] # NoFile
    BY DEF IInv, UseInv, PinInv
  <2> QED BY <1>1, <2>1, <2>2, <2>3
<1>9. \A u \in Tasks : at[u].born = 0
  BY <1>6 DEF IInv, UseInv, TaskInv, TaskAt
<1> QED BY <1>8, <1>9, NoUsers

(* ...and by a task only when there are no files.                          *)
LEMMA LastMember ==
    ASSUME IInv, NEW t \in Tasks, members = {t}, at[t].born = 0, nscount <= 1
    PROVE  /\ \A i \in Live : seg[i].nattch = 0
           /\ \A f \in Files : file[f] = NoFile
<1>1. IsFiniteSet(Open) /\ Cardinality(Open) \in Nat
  BY OpenFinite
<1>2. nscount = Cardinality(Open) + 1
  BY DEF IInv, UseInv, NsInv, Open
<1>3. Open = {}
  BY <1>1, <1>2, FS_EmptySet
<1>4. \A g \in Files : FileVmas(g) = 0 /\ file[g] = NoFile
  <2> SUFFICES ASSUME NEW g \in Files PROVE FileVmas(g) = 0 /\ file[g] = NoFile
    OBVIOUS
  <2>1. file[g] = NoFile
    BY <1>3 DEF Open
  <2>2. FileVmas(g) \in Nat
    BY CountsNat DEF IInv
  <2>3. FileVmas(g) > 0 => file[g] # NoFile
    BY DEF IInv, UseInv, PinInv
  <2> QED BY <2>1, <2>2, <2>3
<1>5. \A u \in Tasks : at[u].born = 0
  BY DEF IInv, UseInv, TaskInv, TaskAt
<1> QED BY <1>4, <1>5, NoUsers

-----------------------------------------------------------------------------
(* fput(f) by its holder t.                                                *)
Kept == UNCHANGED <<file, nscount, seg, in_use, shm_tot, locked_shm>>

NsTypes ==
    /\ seg' \in [Index -> SegmentRecord \cup {NoSeg}]
    /\ in_use' \in Int /\ shm_tot' \in Int /\ locked_shm' \in [Users -> Int]
    /\ nscount' \in Int

(* One reference to the namespace less.                                    *)
NsPut ==
    /\ nscount' = nscount - 1
    /\ \/ nscount > 1 /\ UNCHANGED <<seg, in_use, shm_tot, locked_shm>>
       \/ /\ nscount <= 1 /\ seg' = [i \in Index |-> NoSeg]
          /\ UNCHANGED <<dying, ids, ids_seq>> => Cleared
          /\ \A i \in Live : seg[i].nattch = 0

(* fput(): the last reference frees the file, and with it a reference to   *)
(* the namespace, which at that point no segment is attached in if it was  *)
(* the last.                                                               *)
LEMMA FputEffect ==
    ASSUME IInv, NEW t \in Tasks, NEW f \in Files, cur[t] = f \/ at[t].f = f, fput(f)
    PROVE  /\ NsTypes
           /\ file' \in [Files -> FileRecord \cup {NoFile}]
           /\ \/ Kept
              \/ /\ NsPut
                 /\ file' = [file EXCEPT ![f] = NoFile] /\ file[f] # NoFile
                 /\ FileVmas(f) = 0
                 /\ \A u \in Tasks : cur[u] = f => u = t /\ at[t].f # f
                 /\ \A u \in Tasks : at[u].f = f => u = t /\ cur[t] # f
<1>t. /\ seg \in [Index -> SegmentRecord \cup {NoSeg}] /\ in_use \in Int /\ shm_tot \in Int
      /\ locked_shm \in [Users -> Int] /\ nscount \in Int
      /\ file \in [Files -> FileRecord \cup {NoFile}]
  BY DEF IInv, TypeInv
<1>1. CASE FileRefs(f) > 1
  BY <1>1, <1>t DEF fput, Kept, idsv, NsTypes
<1>2. CASE ~(FileRefs(f) > 1)
  <2>1. file' = [file EXCEPT ![f] = NoFile] /\ put_ipc_ns
    BY <1>2 DEF fput
  <2>2. nscount <= 1 => \A i \in Live : seg[i].nattch = 0
    BY <1>2, LastFile
  <2>3. /\ NsPut /\ NsTypes
    <3>1. /\ nscount' = nscount - 1
          /\ \/ nscount > 1 /\ UNCHANGED <<seg, in_use, shm_tot, locked_shm>>
             \/ /\ nscount <= 1
                /\ UNCHANGED <<dying, ids, ids_seq>> => Cleared
          /\ seg' \in [Index -> SegmentRecord \cup {NoSeg}]
          /\ in_use' \in Int /\ shm_tot' \in Int /\ locked_shm' \in [Users -> Int]
          /\ nscount <= 1 => seg' = [i \in Index |-> NoSeg]
        BY <1>t, <2>1, <2>2, PutNs DEF IInv
    <3> QED BY <1>t, <2>2, <3>1 DEF NsPut, NsTypes
  <2>4. /\ FileVmas(f) = 0
        /\ \A u \in Tasks : cur[u] = f => u = t /\ at[t].f # f
        /\ \A u \in Tasks : at[u].f = f => u = t /\ cur[t] # f
    BY <1>2, LastRef DEF IInv
  <2>5. file[f] # NoFile
    BY ShmConstants DEF IInv, UseInv, PinInv
  <2>6. file' \in [Files -> FileRecord \cup {NoFile}]
    BY <1>t, <2>1
  <2> QED BY <2>1, <2>3, <2>4, <2>5, <2>6
<1> QED BY <1>1, <1>2

(* A task that leaves drops the reference of the members when it is the    *)
(* last of them.                                                           *)
LEMMA LeaveEffect ==
    ASSUME IInv, NEW t \in Tasks, at[t].born = 0, LeaveNs(t)
    PROVE  /\ NsTypes /\ members' = members \ {t}
           /\ \/ UNCHANGED <<nscount, seg, in_use, shm_tot, locked_shm>> /\ members # {t}
              \/ members = {t} /\ NsPut
<1>t. /\ seg \in [Index -> SegmentRecord \cup {NoSeg}] /\ in_use \in Int /\ shm_tot \in Int
      /\ locked_shm \in [Users -> Int] /\ nscount \in Int
  BY DEF IInv, TypeInv
<1>1. CASE members # {t}
  BY <1>1, <1>t DEF LeaveNs, idsv, NsTypes
<1>2. CASE members = {t}
  <2>1. put_ipc_ns /\ members' = members \ {t}
    BY <1>2 DEF LeaveNs
  <2>2. nscount <= 1 => \A i \in Live : seg[i].nattch = 0
    BY <1>2, LastMember
  <2>3. /\ nscount' = nscount - 1
        /\ \/ nscount > 1 /\ UNCHANGED <<seg, in_use, shm_tot, locked_shm>>
           \/ /\ nscount <= 1
              /\ UNCHANGED <<dying, ids, ids_seq>> => Cleared
        /\ seg' \in [Index -> SegmentRecord \cup {NoSeg}]
        /\ in_use' \in Int /\ shm_tot' \in Int /\ locked_shm' \in [Users -> Int]
        /\ nscount <= 1 => seg' = [i \in Index |-> NoSeg]
    BY <1>t, <2>1, <2>2, PutNs DEF IInv
  <2> QED BY <1>2, <1>t, <2>1, <2>2, <2>3 DEF NsPut, NsTypes
<1> QED BY <1>1, <1>2

-----------------------------------------------------------------------------
(* Lookups by slot find their segment.                                     *)

(* Inside do_shmat() the segment is there.                                 *)
LEMMA AtPinned ==
    ASSUME IInv, NEW t \in Tasks, pc[t] \in {"alloc", "map", "fput", "out_nattch"}
    PROVE  /\ at[t].born # 0 /\ Pinned(at[t].id, at[t].born)
           /\ at[t].id \in Nat /\ at[t].born \in Nat /\ t \in members
BY DEF IInv, UseInv, TaskInv, TaskAt, PinInv, TypeInv

(* A file with a vma has its segment.                                      *)
LEMMA FilePinned ==
    ASSUME IInv, NEW f \in Files, FileVmas(f) > 0
    PROVE  file[f] # NoFile /\ Pinned(file[f].id, file[f].born) /\ file[f] \in FileRecord
BY DEF IInv, UseInv, PinInv, TypeInv

(* The file that do_shmat() is about to map has its segment.               *)
LEMMA MapPinned ==
    ASSUME IInv, NEW t \in Tasks, pc[t] \in {"map", "fput"}
    PROVE  /\ at[t].f \in Files /\ file[at[t].f] # NoFile
           /\ Pinned(file[at[t].f].id, file[at[t].f].born)
           /\ file[at[t].f].born = at[t].born
<1>1. at[t].f # NoFile /\ at[t].f \in Files
  BY DEF IInv, UseInv, TaskInv, TaskAt, TypeInv
<1>2. Pinned(at[t].id, at[t].born)
  BY AtPinned
<1>3. /\ file[at[t].f] # NoFile /\ file[at[t].f].born = at[t].born
      /\ ipcid_to_idx(file[at[t].f].id) = ipcid_to_idx(at[t].id)
  BY <1>1 DEF IInv, UseInv, PinInv
<1> QED BY <1>1, <1>2, <1>3 DEF Pinned

(* One more vma of a file whose segment is there.                          *)
Opened(f, m) ==
    /\ f \in Files /\ m \in Mms
    /\ file[f] # NoFile /\ Pinned(file[f].id, file[f].born)
    /\ seg' = [seg EXCEPT ![ipcid_to_idx(file[f].id)].nattch = @ + 1]
    /\ vmas[m][f] < MaxFrag
    /\ vmas' = [vmas EXCEPT ![m][f] = @ + 1]
    /\ UNCHANGED <<job, file, in_use, shm_tot, ids_seq, rw_mutex, nscount, members, locked_shm,
                   at, cur, then, child, dying, ret, ids>>

(* do_mmap() opens a vma of a segment that is there.                       *)
LEMMA MapOpens ==
    ASSUME IInv, NEW t \in Tasks, shmat_map(t)
    PROVE  Opened(at[t].f, MmOf[t])
<1>1. /\ at[t].f \in Files /\ file[at[t].f] # NoFile
      /\ Pinned(file[at[t].f].id, file[at[t].f].born) /\ MmOf[t] \in Mms
  BY MapPinned, Finite DEF shmat_map
<1> QED BY <1>1 DEF shmat_map, shm_open, Opened, nsv, jobv, dyv

(* So does the split of a vma.                                             *)
LEMMA SplitOpens ==
    ASSUME IInv, NEW t \in Tasks, NEW f \in Files, split_vma(t, f)
    PROVE  Opened(f, MmOf[t])
<1>1. MmOf[t] \in Mms /\ vmas[MmOf[t]][f] \in 1 .. (MaxFrag - 1) /\ MaxFrag \in Nat
  BY Finite, ShmConstants DEF split_vma
<1>2. FileVmas(f) \in Nat /\ vmas[MmOf[t]][f] <= FileVmas(f)
  BY <1>1, CountsNat DEF IInv
<1>3. file[f] # NoFile /\ Pinned(file[f].id, file[f].born)
  BY <1>1, <1>2, FilePinned
<1> QED BY <1>1, <1>3 DEF split_vma, shm_open, Opened, nsv, jobv, dyv

(* So does dup_mmap().                                                     *)
LEMMA DupOpens ==
    ASSUME IInv, NEW t \in Tasks, dup_mmap(t)
    PROVE  \E f \in Files, m \in Mms : Opened(f, m)
<1>1. child[t] \in Tasks /\ MmOf[t] \in Mms
  BY Finite DEF IInv, UseInv, ForkInv, TypeInv, dup_mmap
<1>2. PICK k \in Mms : k = MmOf[child[t]]
  BY <1>1, Finite
<1>3. PICK f \in Files : /\ vmas[k][f] < vmas[MmOf[t]][f] /\ shm_open(f)
                         /\ vmas' = [vmas EXCEPT ![k][f] = @ + 1]
  BY <1>2 DEF dup_mmap
<1>4. vmas \in [Mms -> [Files -> 0 .. MaxFrag]] /\ MaxFrag \in Nat
  BY ShmConstants DEF IInv, TypeInv
<1>5. vmas[k][f] < MaxFrag /\ vmas[MmOf[t]][f] > 0
  BY <1>1, <1>3, <1>4
<1>6. FileVmas(f) \in Nat /\ vmas[MmOf[t]][f] <= FileVmas(f) /\ vmas[MmOf[t]][f] \in Nat
  BY <1>1, <1>4, CountsNat DEF IInv
<1>7. file[f] # NoFile /\ Pinned(file[f].id, file[f].born)
  BY <1>5, <1>6, FilePinned
<1> QED BY <1>3, <1>5, <1>7 DEF dup_mmap, shm_open, Opened, nsv, jobv, dyv

(* What an opened vma does to the types and to the segment.                *)
LEMMA OpenedTypes ==
    ASSUME IInv, NEW f, NEW m, Opened(f, m)
    PROVE  /\ seg' \in [Index -> SegmentRecord \cup {NoSeg}]
           /\ vmas' \in [Mms -> [Files -> 0 .. MaxFrag]]
           /\ \E i \in Live : /\ OnlySlot(i) /\ i = ipcid_to_idx(file[f].id)
                              /\ seg'[i] # NoSeg /\ Same(seg'[i], seg[i])
                              /\ seg'[i].nattch = seg[i].nattch + 1
                              /\ seg[i].born = file[f].born
<1>1. PICK i : i = ipcid_to_idx(file[f].id)
  OBVIOUS
<1>2. i \in Live /\ seg[i].born = file[f].born /\ seg' = [seg EXCEPT ![i].nattch = @ + 1]
  BY <1>1 DEF Opened, Pinned
<1>3. vmas' \in [Mms -> [Files -> 0 .. MaxFrag]]
  <2>1. vmas \in [Mms -> [Files -> 0 .. MaxFrag]] /\ MaxFrag \in Nat
    BY ShmConstants DEF IInv, TypeInv
  <2> QED BY <2>1 DEF Opened
<1>4. /\ seg' \in [Index -> SegmentRecord \cup {NoSeg}] /\ OnlySlot(i)
      /\ seg'[i] # NoSeg /\ Same(seg'[i], seg[i])
      /\ seg'[i].nattch = seg[i].nattch + 1
  BY <1>2, UpSlot DEF IInv
<1> QED BY <1>1, <1>2, <1>3, <1>4

(* Unmap() of vmas that are there.                                         *)
LEMMA UnmapTypes ==
    ASSUME TypeInv, NEW t \in Tasks, NEW m \in Mms, NEW v \in [Files -> Nat], NEW next,
           \A f \in Files : v[f] <= vmas[m][f], Unmap(t, m, v, next)
    PROVE  /\ vmas' \in [Mms -> [Files -> 0 .. MaxFrag]]
           /\ job' \in [Tasks -> [Files -> 0 .. MaxFrag]]
<1>1. /\ vmas \in [Mms -> [Files -> 0 .. MaxFrag]] /\ MaxFrag \in Nat
      /\ job \in [Tasks -> [Files -> 0 .. MaxFrag]]
  BY ShmConstants DEF TypeInv
<1>2. v \in [Files -> 0 .. MaxFrag]
  BY <1>1
<1>3. [f \in Files |-> vmas[m][f] - v[f]] \in [Files -> 0 .. MaxFrag]
  BY <1>1, <1>2
<1> QED BY <1>1, <1>2, <1>3 DEF Unmap

(* The three operations that unmap take out vmas that are there.           *)
Unmapping(t, m, v, next) ==
    /\ m \in Mms /\ v \in [Files -> Nat] /\ next \in {"user", "map", "exit_ns"}
    /\ \A f \in Files : v[f] <= vmas[m][f]
    /\ Unmap(t, m, v, next) /\ job[t] = NoJob

(* munmap() and shmdt() take out vmas that are there.                      *)
LEMMA MunmapIs ==
    ASSUME IInv, NEW t \in Tasks, NEW f \in Files, NEW n \in 1 .. vmas[MmOf[t]][f],
           munmap(t, f, n)
    PROVE  /\ Unmapping(t, MmOf[t], [NoJob EXCEPT ![f] = n], pc[t])
           /\ [NoJob EXCEPT ![f] = n] # NoJob
<1>1. vmas \in [Mms -> [Files -> 0 .. MaxFrag]] /\ MaxFrag \in Nat /\ MmOf[t] \in Mms
  BY ShmConstants, Finite DEF IInv, TypeInv
<1>2. n \in Nat \ {0} /\ n <= vmas[MmOf[t]][f]
  BY <1>1
<1>3. [NoJob EXCEPT ![f] = n] \in [Files -> Nat] /\ NoJob \in [Files -> Nat]
  BY <1>2 DEF NoJob
<1>4. [NoJob EXCEPT ![f] = n][f] = n /\ NoJob[f] = 0
  BY DEF NoJob
<1>5. \A g \in Files : [NoJob EXCEPT ![f] = n][g] <= vmas[MmOf[t]][g]
  BY <1>1, <1>2 DEF NoJob
<1>6. job[t] = NoJob /\ pc[t] \in {"user", "map"}
  BY DEF IInv, UseInv, TaskInv, TaskAt, Closing, munmap
<1> QED BY <1>1, <1>2, <1>3, <1>4, <1>5, <1>6 DEF Unmapping, munmap

(* So does the mmput() of a fork that failed.                              *)
LEMMA NomemIs ==
    ASSUME IInv, NEW t \in Tasks, fork_nomem(t)
    PROVE  Unmapping(t, MmOf[child[t]], vmas[MmOf[child[t]]], "user")
<1>1. vmas \in [Mms -> [Files -> 0 .. MaxFrag]] /\ MaxFrag \in Nat
  BY ShmConstants DEF IInv, TypeInv
<1>2. child[t] \in Tasks /\ job[t] = NoJob
  <2>1. pc[t] = "fork"
    BY DEF fork_nomem
  <2>2. child[t] \in Tasks
    BY <2>1 DEF IInv, UseInv, ForkInv, TypeInv
  <2> QED BY <2>1, <2>2 DEF IInv, UseInv, TaskInv, TaskAt, Closing
<1>3. MmOf[child[t]] \in Mms
  BY <1>2, Finite
<1> QED BY <1>1, <1>2, <1>3 DEF Unmapping, fork_nomem

(* So does exit_mm().                                                      *)
LEMMA ExitIs ==
    ASSUME IInv, NEW t \in Tasks, exit_mm(t)
    PROVE  \E v : Unmapping(t, MmOf[t], v, "exit_ns")
<1>1. vmas \in [Mms -> [Files -> 0 .. MaxFrag]] /\ MaxFrag \in Nat /\ MmOf[t] \in Mms
  BY ShmConstants, Finite DEF IInv, TypeInv
<1>2. job[t] = NoJob
  BY DEF IInv, UseInv, TaskInv, TaskAt, Closing, exit_mm
<1>3. PICK v : v \in {vmas[MmOf[t]], NoJob} /\ Unmap(t, MmOf[t], v, "exit_ns")
  BY DEF exit_mm
<1>4. v \in [Files -> Nat] /\ \A f \in Files : v[f] <= vmas[MmOf[t]][f]
  BY <1>1, <1>3 DEF NoJob
<1> QED BY <1>1, <1>2, <1>3, <1>4 DEF Unmapping

(* shm_destroy() returns to where it was called.                           *)
LEMMA PutTypes ==
    ASSUME IInv, NEW t \in Tasks, NEW i \in Live, NEW back \in {"user", "vm_fput"},
           put_attach(t, i, back)
    PROVE  /\ SlotTypes /\ pc' \in [Tasks -> Labels] /\ ret' \in [Tasks -> {"user", "vm_fput"}]
           /\ rw_mutex' \in Tasks \cup {NoTask}
<1>1. /\ SlotTypes
      /\ Detached(t, i, back) \/ Destroyed(t, i, back)
  BY PutSlot DEF IInv
<1>2. /\ pc \in [Tasks -> Labels] /\ ret \in [Tasks -> {"user", "vm_fput"}]
      /\ rw_mutex \in Tasks \cup {NoTask}
  BY DEF IInv, TypeInv
<1> QED BY <1>1, <1>2 DEF Detached, Destroyed, Labels

(* Every step keeps the types.                                             *)
LEMMA TypeStep ==
    ASSUME IInv, [Next]_vars
    PROVE  TypeInv'
<1> USE DEF Goto, nsv, mmv, jobv, dyv, idsv
<1>t. /\ seg \in [Index -> SegmentRecord \cup {NoSeg}] /\ dying \in [Tasks -> SegmentRecord \cup {NoSeg}]
      /\ in_use \in Int /\ shm_tot \in Int /\ ids_seq \in 0 .. seq_max /\ ids \in Seq(Nat)
      /\ rw_mutex \in Tasks \cup {NoTask} /\ nscount \in Int /\ members \subseteq Tasks
      /\ locked_shm \in [Users -> Int]
      /\ vmas \in [Mms -> [Files -> 0 .. MaxFrag]] /\ mmap_sem \in [Mms -> Tasks \cup {NoTask}]
      /\ file \in [Files -> FileRecord \cup {NoFile}]
      /\ pc \in [Tasks -> Labels] /\ then \in [Tasks -> {"user", "map", "exit_ns"}]
      /\ ret \in [Tasks -> {"user", "vm_fput"}]
      /\ at \in [Tasks -> [id : Nat, born : Nat, f : Files \cup {NoFile}]]
      /\ job \in [Tasks -> [Files -> 0 .. MaxFrag]] /\ cur \in [Tasks -> Files \cup {NoFile}]
      /\ child \in [Tasks -> Tasks \cup {NoTask}] /\ may \in Scenarios
  BY DEF IInv, TypeInv
<1>p. at \in [Tasks -> [id : Nat, born : Nat, f : Files \cup {NoFile}]]
  BY <1>t
<1>c. MaxFrag \in Nat /\ seq_max \in Nat /\ \A t \in Tasks : MmOf[t] \in Mms /\ UserOf[t] \in Users
  BY ShmConstants, Finite
<1>i. \A id \in ShmIds : id \in Nat
  BY IdParts, <1>c DEF ShmIds
<1>s. CASE UNCHANGED vars
  BY <1>s, <1>t DEF vars, TypeInv
<1> SUFFICES ASSUME NEW t \in Tasks, Call(t) \/ Step(t), UNCHANGED may PROVE TypeInv'
  BY <1>s DEF Next, Stopped
<1>1. ASSUME NEW key \in Keys \cup {IPC_PRIVATE}, NEW size \in may.sizes, NEW huge \in may.huge,
             shmget(t, key, size, huge)
      PROVE  TypeInv'
  <2>1. size \in Nat /\ huge \in BOOLEAN
    BY <1>t, ShmConstants
  <2>2. \E i \in Index \ Live :
              /\ seg' = [seg EXCEPT ![i] = NewSeg(t, i, key, size, huge)]
              /\ NewSeg(t, i, key, size, huge) \in SegmentRecord
              /\ ids' = Append(ids, ipc_buildid(i, ids_seq))
              /\ ipc_buildid(i, ids_seq) \in Nat
    BY <1>1, <2>1, CreateSlot DEF IInv
  <2>3. seg' \in [Index -> SegmentRecord \cup {NoSeg}] /\ ids' \in Seq(Nat)
    BY <1>t, <2>2
  <2>4. Pages(size) \in Nat
    BY <2>1, PagesNat
  <2>5. locked_shm' \in [Users -> Int] /\ in_use' \in Int /\ shm_tot' \in Int
    <3>1. /\ locked_shm' = IF huge THEN [locked_shm EXCEPT ![UserOf[t]] = @ + Pages(size)]
                            ELSE locked_shm
          /\ in_use' = in_use + 1 /\ shm_tot' = shm_tot + Pages(size)
        BY <1>1 DEF shmget
    <3>2. UserOf[t] \in Users /\ in_use \in Int /\ shm_tot \in Int
        BY <1>c, <1>t
    <3>3. locked_shm \in [Users -> Int]
        BY <1>t
    <3> QED BY <2>4, <3>1, <3>2, <3>3
  <2>6. ids_seq' \in 0 .. seq_max
    BY <1>1, <1>c, <1>t DEF shmget, next_seq
  <2>7. UNCHANGED <<rw_mutex, nsv, mmv, file, pc, at, jobv, child, dyv>>
    BY <1>1 DEF shmget
  <2> QED BY <1>t, <2>3, <2>5, <2>6, <2>7 DEF TypeInv
<1>2. ASSUME NEW id \in ShmIds, shmctl_rmid(t, id) PROVE TypeInv'
  <2>1. SlotTypes /\ pc' \in [Tasks -> Labels] /\ ret' \in [Tasks -> {"user", "vm_fput"}]
        /\ rw_mutex' \in Tasks \cup {NoTask}
    <3>1. ipcid_to_idx(id) \in Live
        BY <1>2, CheckedId DEF shmctl_rmid
    <3>2. PICK i \in Live : i = ipcid_to_idx(id)
        BY <3>1
    <3>3. do_shm_rmid(t, i)
        BY <1>2, <3>2 DEF shmctl_rmid
    <3>4. SlotTypes /\ (UNCHANGED <<rw_mutex, ret, pc>> \/ Destroyed(t, i, "user"))
        BY <3>3, RmidSlot DEF IInv
    <3> QED BY <1>t, <3>4 DEF Destroyed, Labels
  <2>2. UNCHANGED <<ids_seq, nsv, locked_shm, mmv, file, at, jobv, child, ids>>
    BY <1>2 DEF shmctl_rmid
  <2> QED BY <1>t, <2>1, <2>2 DEF TypeInv, SlotTypes
<1>3. ASSUME NEW id \in ShmIds, shmctl_lock(t, id) PROVE TypeInv'
  <2>1. seg' \in [Index -> SegmentRecord \cup {NoSeg}] /\ locked_shm' \in [Users -> Int]
    BY <1>3, <1>i, LockSlot DEF IInv
  <2> QED BY <1>3, <1>t, <2>1 DEF TypeInv, shmctl_lock
<1>4. ASSUME NEW id \in ShmIds, shmctl_unlock(t, id) PROVE TypeInv'
  <2>1. seg' \in [Index -> SegmentRecord \cup {NoSeg}] /\ locked_shm' \in [Users -> Int]
    BY <1>4, <1>i, UnlockSlot DEF IInv
  <2> QED BY <1>4, <1>t, <2>1 DEF TypeInv, shmctl_unlock
<1>5. ASSUME NEW id \in ShmIds, shmat_find(t, id) PROVE TypeInv'
  <2>1. PICK i \in Live : i = ipcid_to_idx(id)
    BY <1>5, CheckedId DEF shmat_find
  <2>2. seg' \in [Index -> SegmentRecord \cup {NoSeg}]
    BY <1>5, <2>1, UpSlot DEF shmat_find, IInv
  <2>3. seg[i].born \in Nat
    BY <1>t, <2>1 DEF Live, SegmentRecord
  <2>4. at' \in [Tasks -> [id : Nat, born : Nat, f : Files \cup {NoFile}]]
    BY <1>5, <1>i, <1>t, <2>1, <2>3 DEF shmat_find, shm_lock
  <2> QED BY <1>5, <1>t, <2>2, <2>4 DEF TypeInv, shmat_find, Labels
<1>6. ASSUME NEW m, NEW v, NEW next, Unmapping(t, m, v, next), mmap_sem' \in [Mms -> Tasks \cup {NoTask}],
             child' \in [Tasks -> Tasks \cup {NoTask}],
             UNCHANGED <<idsv, ids_seq, rw_mutex, nsv, locked_shm, file, at, cur, dyv, ids>>
      PROVE  TypeInv'
  <2>1. vmas' \in [Mms -> [Files -> 0 .. MaxFrag]] /\ job' \in [Tasks -> [Files -> 0 .. MaxFrag]]
    BY <1>6, UnmapTypes DEF IInv, Unmapping
  <2>2. pc' \in [Tasks -> Labels] /\ then' \in [Tasks -> {"user", "map", "exit_ns"}]
    BY <1>6, <1>t DEF Unmapping, Unmap, Labels
  <2> QED BY <1>6, <1>t, <2>1, <2>2 DEF TypeInv
<1>7. ASSUME NEW f \in Files, NEW n \in 1 .. vmas[MmOf[t]][f], munmap(t, f, n) PROVE TypeInv'
  <2>1. Unmapping(t, MmOf[t], [NoJob EXCEPT ![f] = n], pc[t])
    BY <1>7, MunmapIs
  <2>2. /\ mmap_sem' \in [Mms -> Tasks \cup {NoTask}] /\ child' \in [Tasks -> Tasks \cup {NoTask}]
        /\ UNCHANGED <<idsv, ids_seq, rw_mutex, nsv, locked_shm, file, at, cur, dyv, ids>>
    BY <1>7, <1>t DEF munmap
  <2> QED BY <1>6, <2>1, <2>2
<1>8. CASE fork_nomem(t)
  <2>1. Unmapping(t, MmOf[child[t]], vmas[MmOf[child[t]]], "user")
    BY <1>8, NomemIs
  <2>2. /\ mmap_sem' \in [Mms -> Tasks \cup {NoTask}] /\ child' \in [Tasks -> Tasks \cup {NoTask}]
        /\ UNCHANGED <<idsv, ids_seq, rw_mutex, nsv, locked_shm, file, at, cur, dyv, ids>>
    BY <1>8, <1>t DEF fork_nomem
  <2> QED BY <1>6, <2>1, <2>2
<1>9. CASE exit_mm(t)
  <2>1. PICK v : Unmapping(t, MmOf[t], v, "exit_ns")
    BY <1>9, ExitIs
  <2>2. /\ mmap_sem' \in [Mms -> Tasks \cup {NoTask}] /\ child' \in [Tasks -> Tasks \cup {NoTask}]
        /\ UNCHANGED <<idsv, ids_seq, rw_mutex, nsv, locked_shm, file, at, cur, dyv, ids>>
    BY <1>9, <1>t DEF exit_mm
  <2> QED BY <1>6, <2>1, <2>2
<1>10. ASSUME NEW f, NEW m, Opened(f, m), pc' \in [Tasks -> Labels],
              mmap_sem' \in [Mms -> Tasks \cup {NoTask}]
       PROVE  TypeInv'
  <2>1. seg' \in [Index -> SegmentRecord \cup {NoSeg}] /\ vmas' \in [Mms -> [Files -> 0 .. MaxFrag]]
    BY <1>10, OpenedTypes
  <2> QED BY <1>10, <1>t, <2>1 DEF TypeInv, Opened
<1>11. ASSUME NEW f \in Files, split_vma(t, f) PROVE TypeInv'
  <2>1. Opened(f, MmOf[t])
    BY <1>11, SplitOpens
  <2> QED BY <1>10, <1>11, <1>t, <2>1 DEF split_vma
<1>12. CASE shmat_map(t)
  <2>1. Opened(at[t].f, MmOf[t])
    BY <1>12, MapOpens
  <2>2. pc' \in [Tasks -> Labels] /\ mmap_sem' \in [Mms -> Tasks \cup {NoTask}]
    BY <1>12, <1>t DEF shmat_map, Labels
  <2> QED BY <1>10, <2>1, <2>2
<1>13. CASE dup_mmap(t)
  <2>1. PICK f \in Files, m \in Mms : Opened(f, m)
    BY <1>13, DupOpens
  <2> QED BY <1>10, <1>13, <1>t, <2>1 DEF dup_mmap
<1>14. ASSUME NEW c \in Tasks, fork(t, c) PROVE TypeInv'
  BY <1>14, <1>t DEF TypeInv, fork, Labels
<1>15. CASE unshare(t)
  <2>1. at[t].born = 0
    BY <1>15 DEF IInv, UseInv, TaskInv, TaskAt, Closing, unshare
  <2>2. NsTypes /\ members' = members \ {t}
    BY <1>15, <2>1, LeaveEffect DEF unshare
  <2> QED BY <1>15, <1>t, <2>2 DEF TypeInv, unshare, NsTypes
<1>16. CASE exit_ns(t)
  <2>1. at[t].born = 0
    BY <1>16 DEF IInv, UseInv, TaskInv, TaskAt, Closing, exit_ns
  <2>2. NsTypes /\ members' = members \ {t}
    BY <1>16, <2>1, LeaveEffect DEF exit_ns
  <2> QED BY <1>16, <1>t, <2>2 DEF TypeInv, exit_ns, NsTypes, Labels
<1>17. CASE shmat_alloc(t)
  <2>1. PICK f \in Files :
          /\ file' = [file EXCEPT ![f] = [id |-> shm_lock(at[t].id).id, born |-> at[t].born]]
          /\ at' = [at EXCEPT ![t].f = f]
    BY <1>17 DEF shmat_alloc
  <2>2. shm_lock(at[t].id) \in SegmentRecord /\ at[t].born \in Nat
    BY <1>17, <1>t, AtPinned DEF shmat_alloc, Pinned, Live, shm_lock
  <2>3. [id |-> shm_lock(at[t].id).id, born |-> at[t].born] \in FileRecord
    BY <2>2 DEF SegmentRecord, FileRecord
  <2>4. file' \in [Files -> FileRecord \cup {NoFile}]
    BY <1>t, <2>1, <2>3
  <2>5. at' \in [Tasks -> [id : Nat, born : Nat, f : Files \cup {NoFile}]]
    BY <1>p, <2>1
  <2>6. nscount' \in Int
    BY <1>17, <1>t DEF shmat_alloc, get_ipc_ns
  <2> QED BY <1>17, <1>t, <2>4, <2>5, <2>6 DEF TypeInv, shmat_alloc, Labels
<1>18. CASE shmat_nomem(t)
  BY <1>18, <1>t DEF TypeInv, shmat_nomem, Labels
<1>19. CASE shmat_nomap(t)
  BY <1>19, <1>t DEF TypeInv, shmat_nomap, Labels
<1>20. CASE shmat_fput(t)
  <2>1. NsTypes /\ file' \in [Files -> FileRecord \cup {NoFile}]
    <3>1. PICK f \in Files : f = at[t].f
        BY <1>20, MapPinned DEF shmat_fput
    <3> QED BY <1>20, <3>1, FputEffect DEF shmat_fput
  <2>2. at' \in [Tasks -> [id : Nat, born : Nat, f : Files \cup {NoFile}]]
    <3>1. at' = [at EXCEPT ![t].f = NoFile]
        BY <1>20 DEF shmat_fput
    <3> QED BY <1>p, <3>1
  <2> QED BY <1>20, <1>t, <2>1, <2>2 DEF TypeInv, shmat_fput, NsTypes, Labels
<1>21. CASE vm_fput(t)
  <2>1. NsTypes /\ file' \in [Files -> FileRecord \cup {NoFile}]
    <3>1. PICK f \in Files : f = cur[t]
        BY <1>21, <1>t DEF vm_fput, IInv, UseInv, TaskInv, TaskAt, Closing
    <3> QED BY <1>21, <3>1, FputEffect DEF vm_fput
  <2>2. pc' \in [Tasks -> Labels] /\ then' \in [Tasks -> {"user", "map", "exit_ns"}]
        /\ mmap_sem' \in [Mms -> Tasks \cup {NoTask}] /\ cur' \in [Tasks -> Files \cup {NoFile}]
    BY <1>21, <1>t DEF vm_fput, Labels
  <2> QED BY <1>21, <1>t, <2>1, <2>2 DEF TypeInv, vm_fput, NsTypes
<1>22. CASE shmat_out(t)
  <2>1. PICK i \in Live : i = ipcid_to_idx(at[t].id)
    BY <1>22, AtPinned DEF shmat_out, Pinned
  <2>2. /\ SlotTypes /\ pc' \in [Tasks -> Labels] /\ ret' \in [Tasks -> {"user", "vm_fput"}]
        /\ rw_mutex' \in Tasks \cup {NoTask}
    BY <1>22, <2>1, PutTypes DEF shmat_out
  <2>3. at' \in [Tasks -> [id : Nat, born : Nat, f : Files \cup {NoFile}]]
    BY <1>22, <1>t DEF shmat_out, NoAt
  <2> QED BY <1>22, <1>t, <2>2, <2>3 DEF TypeInv, shmat_out, SlotTypes
<1>23. CASE shm_close(t)
  <2>1. PICK f \in Files : /\ job[t][f] > 0
                           /\ put_attach(t, ipcid_to_idx(file[f].id), "vm_fput")
                           /\ job' = [job EXCEPT ![t][f] = @ - 1]
                           /\ cur' = [cur EXCEPT ![t] = f]
    BY <1>23 DEF shm_close
  <2>2. job[t][f] \in 0 .. MaxFrag /\ FileVmas(f) \in Nat /\ job[t][f] <= FileVmas(f)
    BY <1>t, CountsNat DEF IInv
  <2>3. PICK i \in Live : i = ipcid_to_idx(file[f].id)
    BY <1>c, <2>1, <2>2, FilePinned DEF Pinned
  <2>4. /\ SlotTypes /\ pc' \in [Tasks -> Labels] /\ ret' \in [Tasks -> {"user", "vm_fput"}]
        /\ rw_mutex' \in Tasks \cup {NoTask}
    BY <2>1, <2>3, PutTypes
  <2>5. job' \in [Tasks -> [Files -> 0 .. MaxFrag]] /\ cur' \in [Tasks -> Files \cup {NoFile}]
    BY <1>c, <1>t, <2>1, <2>2
  <2> QED BY <1>23, <1>t, <2>4, <2>5 DEF TypeInv, shm_close, SlotTypes
<1>24. CASE fork_end(t)
  <2>1. child[t] \in Tasks
    BY <1>24, <1>t DEF fork_end, IInv, UseInv, ForkInv
  <2>2. /\ pc' \in [Tasks -> Labels] /\ members' \subseteq Tasks
        /\ mmap_sem' \in [Mms -> Tasks \cup {NoTask}] /\ child' \in [Tasks -> Tasks \cup {NoTask}]
    BY <1>24, <1>t, <2>1 DEF fork_end, Labels
  <2> QED BY <1>24, <1>t, <2>2 DEF TypeInv, fork_end
<1>25. CASE shm_destroy_end(t)
  <2>1. \A u : Charge(dying[t], u) \in Nat
    BY <1>t, ChargeNat
  <2>2. locked_shm' \in [Users -> Int]
    BY <1>25, <1>t, <2>1 DEF shm_destroy_end
  <2> QED BY <1>25, <1>t, <2>2 DEF TypeInv, shm_destroy_end, Labels
<1> QED BY <1>1, <1>2, <1>3, <1>4, <1>5, <1>7, <1>8, <1>9, <1>11, <1>12, <1>13, <1>14, <1>15, <1>16,
       <1>17, <1>18, <1>19, <1>20, <1>21, <1>22, <1>23, <1>24, <1>25 DEF Call, Step

(* A step of t leaves the other tasks where they are.                      *)
LEMMA OtherTasks ==
    ASSUME TaskInv, NEW t \in Tasks, TaskAt(t)',
           \A u \in Tasks \ {t} :
              /\ pc'[u] = pc[u] /\ then'[u] = then[u] /\ ret'[u] = ret[u] /\ at'[u] = at[u]
              /\ cur'[u] = cur[u] /\ job'[u] = job[u] /\ dying'[u] = dying[u]
              /\ rw_mutex' = u <=> rw_mutex = u
              /\ u \in members => u \in members'
    PROVE  TaskInv'
<1> SUFFICES ASSUME NEW u \in Tasks \ {t} PROVE TaskAt(u)'
  BY DEF TaskInv
<1> QED BY DEF TaskInv, TaskAt, Closing

(* Every step keeps each task in agreement with the place of its call: who *)
(* holds rw_mutex, who has a file, who is inside do_shmat().               *)
LEMMA TaskStep ==
    ASSUME IInv, [Next]_vars
    PROVE  TaskInv'
<1> USE DEF Goto, nsv, mmv, jobv, dyv, idsv
<1>t. /\ dying \in [Tasks -> SegmentRecord \cup {NoSeg}]
      /\ rw_mutex \in Tasks \cup {NoTask} /\ members \subseteq Tasks
      /\ pc \in [Tasks -> Labels] /\ then \in [Tasks -> {"user", "map", "exit_ns"}]
      /\ ret \in [Tasks -> {"user", "vm_fput"}]
      /\ at \in [Tasks -> [id : Nat, born : Nat, f : Files \cup {NoFile}]]
      /\ job \in [Tasks -> [Files -> 0 .. MaxFrag]] /\ cur \in [Tasks -> Files \cup {NoFile}]
      /\ child \in [Tasks -> Tasks \cup {NoTask}]
  BY DEF IInv, TypeInv
<1>c. NoTask \notin Tasks /\ NoFile \notin Files /\ NoSeg \notin SegmentRecord
  BY ShmConstants
<1>n. NoAt.born = 0 /\ NoAt.f = NoFile
  BY DEF NoAt
<1>s. CASE UNCHANGED vars
  BY <1>s DEF vars, IInv, UseInv, TaskInv, TaskAt, Closing
<1> SUFFICES ASSUME NEW t \in Tasks, Call(t) \/ Step(t), UNCHANGED may PROVE TaskInv'
  BY <1>s DEF Next, Stopped
<1>a. TaskInv /\ TaskAt(t)
  BY DEF IInv, UseInv, TaskInv
<1>1. ASSUME NEW key \in Keys \cup {IPC_PRIVATE}, NEW size \in may.sizes, NEW huge \in may.huge,
             shmget(t, key, size, huge)
      PROVE  TaskInv'
  BY <1>1, <1>a DEF shmget, TaskInv, TaskAt, Closing
<1>2. ASSUME NEW id \in ShmIds, shmctl_rmid(t, id) PROVE TaskInv'
  <2>1. ipcid_to_idx(id) \in Live
    BY <1>2, CheckedId DEF shmctl_rmid
  <2>2. PICK i \in Live : i = ipcid_to_idx(id)
    BY <2>1
  <2>3. do_shm_rmid(t, i) /\ pc[t] = "user" /\ UNCHANGED <<members, at, job, cur, then>>
        /\ rw_mutex = NoTask
    BY <1>2, <2>2 DEF shmctl_rmid
  <2>4. UNCHANGED <<rw_mutex, dying, ret, pc>> \/ Destroyed(t, i, "user")
    BY <2>3, RmidSlot DEF IInv
  <2>5. CASE UNCHANGED <<rw_mutex, dying, ret, pc>>
    BY <1>a, <2>3, <2>5 DEF TaskInv, TaskAt, Closing
  <2>6. CASE Destroyed(t, i, "user")
    <3>1. TaskAt(t)'
        BY <1>a, <1>c, <1>t, <2>3, <2>6 DEF Destroyed, TaskAt, Closing
    <3> QED BY <1>a, <1>c, <1>t, <2>3, <2>6, <3>1, OtherTasks DEF Destroyed
  <2> QED BY <2>4, <2>5, <2>6
<1>3. ASSUME NEW id \in ShmIds, shmctl_lock(t, id) PROVE TaskInv'
  BY <1>3, <1>a DEF shmctl_lock, TaskInv, TaskAt, Closing
<1>4. ASSUME NEW id \in ShmIds, shmctl_unlock(t, id) PROVE TaskInv'
  BY <1>4, <1>a DEF shmctl_unlock, TaskInv, TaskAt, Closing
<1>5. ASSUME NEW id \in ShmIds, shmat_find(t, id) PROVE TaskInv'
  <2>1. PICK i \in Live : i = ipcid_to_idx(id)
    BY <1>5, CheckedId DEF shmat_find
  <2>2. seg[i].born \in 1 .. Len(ids) /\ Len(ids) \in Nat
    BY <2>1 DEF IInv, TableInv, SegInv, Created, Live, TypeInv
  <2>3. at' = [at EXCEPT ![t] = [id |-> id, born |-> seg[i].born, f |-> NoFile]]
        /\ pc' = [pc EXCEPT ![t] = "alloc"] /\ pc[t] = "user" /\ t \in members
        /\ UNCHANGED <<rw_mutex, members, job, cur, then, dying, ret>>
    BY <1>5, <2>1 DEF shmat_find, shm_lock
  <2>4. at'[t].born # 0 /\ at'[t].f = NoFile /\ pc'[t] = "alloc"
    BY <1>t, <2>2, <2>3
  <2>5. TaskAt(t)'
    BY <1>a, <1>c, <2>3, <2>4 DEF TaskAt, Closing
  <2> QED BY <1>a, <1>t, <2>3, <2>5, OtherTasks
<1>6. ASSUME NEW m, NEW v, NEW next, Unmapping(t, m, v, next), pc[t] \in {"user", "map", "fork"},
             pc[t] = "map" <=> next = "map", pc[t] = "map" => v # NoJob,
             UNCHANGED <<rw_mutex, members, at, cur, dying, ret>>
      PROVE  TaskInv'
  <2>1. /\ job' = [job EXCEPT ![t] = v] /\ then' = [then EXCEPT ![t] = next]
        /\ pc' = [pc EXCEPT ![t] = IF v = NoJob THEN next ELSE "close"]
        /\ next \in {"user", "map", "exit_ns"}
    BY <1>6 DEF Unmapping, Unmap
  <2>2. /\ job'[t] = v /\ then'[t] = next /\ pc'[t] = IF v = NoJob THEN next ELSE "close"
    BY <1>t, <2>1
  <2>3. TaskAt(t)'
    BY <1>6, <1>a, <1>c, <2>1, <2>2 DEF TaskAt, Closing
  <2> QED BY <1>6, <1>a, <1>t, <2>1, <2>3, OtherTasks
<1>7. ASSUME NEW f \in Files, NEW n \in 1 .. vmas[MmOf[t]][f], munmap(t, f, n) PROVE TaskInv'
  <2>1. /\ Unmapping(t, MmOf[t], [NoJob EXCEPT ![f] = n], pc[t])
        /\ [NoJob EXCEPT ![f] = n] # NoJob
    BY <1>7, MunmapIs
  <2>2. pc[t] \in {"user", "map"} /\ UNCHANGED <<rw_mutex, members, at, cur, dying, ret>>
    BY <1>7 DEF munmap
  <2> QED BY <1>6, <2>1, <2>2
<1>8. CASE fork_nomem(t)
  <2>1. Unmapping(t, MmOf[child[t]], vmas[MmOf[child[t]]], "user")
    BY <1>8, NomemIs
  <2>2. pc[t] = "fork" /\ UNCHANGED <<rw_mutex, members, at, cur, dying, ret>>
    BY <1>8 DEF fork_nomem
  <2> QED BY <1>6, <2>1, <2>2
<1>9. CASE exit_mm(t)
  <2>1. PICK v : Unmapping(t, MmOf[t], v, "exit_ns")
    BY <1>9, ExitIs
  <2>2. pc[t] = "user" /\ UNCHANGED <<rw_mutex, members, at, cur, dying, ret>>
    BY <1>9 DEF exit_mm
  <2> QED BY <1>6, <2>1, <2>2
<1>11. ASSUME NEW f \in Files, split_vma(t, f) PROVE TaskInv'
  BY <1>11, <1>a DEF split_vma, TaskInv, TaskAt, Closing
<1>12. CASE shmat_map(t)
  <2>1. TaskAt(t)'
    BY <1>12, <1>a, <1>t DEF shmat_map, TaskAt, Closing
  <2> QED BY <1>12, <1>a, <1>t, <2>1, OtherTasks DEF shmat_map
<1>13. CASE dup_mmap(t)
  BY <1>13, <1>a DEF dup_mmap, TaskInv, TaskAt, Closing
<1>14. ASSUME NEW c \in Tasks, fork(t, c) PROVE TaskInv'
  <2>1. TaskAt(t)'
    BY <1>14, <1>a, <1>t DEF fork, TaskAt, Closing
  <2> QED BY <1>14, <1>a, <1>t, <2>1, OtherTasks DEF fork
<1>15. CASE unshare(t)
  <2>1. /\ pc[t] = "user" /\ members' = members \ {t}
        /\ UNCHANGED <<rw_mutex, pc, at, job, cur, then, dying, ret>>
    BY <1>15 DEF unshare, LeaveNs
  <2>2. TaskAt(t)'
    BY <1>a, <2>1 DEF TaskAt, Closing
  <2> QED BY <1>a, <2>1, <2>2, OtherTasks
<1>16. CASE exit_ns(t)
  <2>1. /\ pc[t] = "exit_ns" /\ members' = members \ {t} /\ pc' = [pc EXCEPT ![t] = "dead"]
        /\ then' = [then EXCEPT ![t] = "user"]
        /\ UNCHANGED <<rw_mutex, at, job, cur, dying, ret>>
    BY <1>16 DEF exit_ns, LeaveNs
  <2>2. TaskAt(t)'
    BY <1>a, <1>t, <2>1 DEF TaskAt, Closing
  <2> QED BY <1>a, <1>t, <2>1, <2>2, OtherTasks
<1>17. CASE shmat_alloc(t)
  <2>1. PICK f \in Files : at' = [at EXCEPT ![t].f = f]
    BY <1>17 DEF shmat_alloc
  <2>2. /\ at'[t].f = f /\ at'[t].born = at[t].born /\ \A u \in Tasks \ {t} : at'[u] = at[u]
    BY <1>t, <2>1
  <2>3. pc[t] = "alloc" /\ pc' = [pc EXCEPT ![t] = "map"]
        /\ UNCHANGED <<rw_mutex, members, job, cur, then, dying, ret>>
    BY <1>17 DEF shmat_alloc
  <2>4. TaskAt(t)'
    BY <1>a, <1>c, <1>t, <2>2, <2>3 DEF TaskAt, Closing
  <2> QED BY <1>a, <1>t, <2>2, <2>3, <2>4, OtherTasks
<1>18. CASE shmat_nomem(t)
  <2>1. TaskAt(t)'
    BY <1>18, <1>a, <1>t DEF shmat_nomem, TaskAt, Closing
  <2> QED BY <1>18, <1>a, <1>t, <2>1, OtherTasks DEF shmat_nomem
<1>19. CASE shmat_nomap(t)
  <2>1. TaskAt(t)'
    BY <1>19, <1>a, <1>t DEF shmat_nomap, TaskAt, Closing
  <2> QED BY <1>19, <1>a, <1>t, <2>1, OtherTasks DEF shmat_nomap
<1>20. CASE shmat_fput(t)
  <2>1. /\ pc[t] = "fput" /\ pc' = [pc EXCEPT ![t] = "out_nattch"]
        /\ at' = [at EXCEPT ![t].f = NoFile]
        /\ UNCHANGED <<rw_mutex, members, job, cur, then, dying, ret>>
    BY <1>20 DEF shmat_fput
  <2>2. /\ at'[t].f = NoFile /\ at'[t].born = at[t].born /\ \A u \in Tasks \ {t} : at'[u] = at[u]
    BY <1>t, <2>1
  <2>3. TaskAt(t)'
    BY <1>a, <1>t, <2>1, <2>2 DEF TaskAt, Closing
  <2> QED BY <1>a, <1>t, <2>1, <2>2, <2>3, OtherTasks
<1>21. CASE vm_fput(t)
  <2>1. /\ pc[t] = "vm_fput" /\ cur' = [cur EXCEPT ![t] = NoFile]
        /\ pc' = [pc EXCEPT ![t] = IF job[t] = NoJob THEN then[t] ELSE "close"]
        /\ then' = IF job[t] = NoJob THEN [then EXCEPT ![t] = "user"] ELSE then
        /\ UNCHANGED <<rw_mutex, members, job, at, dying, ret>>
    BY <1>21 DEF vm_fput
  <2>2. /\ pc'[t] = IF job[t] = NoJob THEN then[t] ELSE "close"
        /\ then'[t] = IF job[t] = NoJob THEN "user" ELSE then[t]
        /\ cur'[t] = NoFile
    BY <1>t, <2>1
  <2>3. TaskAt(t)'
    BY <1>a, <1>t, <2>1, <2>2 DEF TaskAt, Closing
  <2> QED BY <1>a, <1>t, <2>1, <2>3, OtherTasks
<1>22. CASE shmat_out(t)
  <2>1. PICK i \in Live : i = ipcid_to_idx(at[t].id)
    BY <1>22, AtPinned DEF shmat_out, Pinned
  <2>2. Detached(t, i, "user") \/ Destroyed(t, i, "user")
    BY <1>22, <2>1, PutSlot DEF shmat_out, IInv
  <2>3. /\ pc[t] = "out_nattch" /\ at' = [at EXCEPT ![t] = NoAt] /\ rw_mutex = NoTask
        /\ UNCHANGED <<members, job, cur, then>>
    BY <1>22 DEF shmat_out
  <2>4. at'[t] = NoAt
    BY <1>t, <2>3
  <2>5. TaskAt(t)'
    BY <1>a, <1>c, <1>n, <1>t, <2>2, <2>3, <2>4 DEF TaskAt, Closing, Detached, Destroyed
  <2>6. CASE Detached(t, i, "user")
    BY <1>a, <1>c, <1>t, <2>3, <2>5, <2>6, OtherTasks DEF Detached
  <2>7. CASE Destroyed(t, i, "user")
    BY <1>a, <1>c, <1>t, <2>3, <2>5, <2>7, OtherTasks DEF Destroyed
  <2> QED BY <2>2, <2>6, <2>7
<1>23. CASE shm_close(t)
  <2>1. PICK f \in Files : /\ job[t][f] > 0
                           /\ put_attach(t, ipcid_to_idx(file[f].id), "vm_fput")
                           /\ job' = [job EXCEPT ![t][f] = @ - 1]
                           /\ cur' = [cur EXCEPT ![t] = f]
    BY <1>23 DEF shm_close
  <2>2. job[t][f] \in 0 .. MaxFrag /\ FileVmas(f) \in Nat /\ job[t][f] <= FileVmas(f)
        /\ MaxFrag \in Nat
    BY <1>t, CountsNat, ShmConstants DEF IInv
  <2>3. PICK i \in Live : i = ipcid_to_idx(file[f].id)
    BY <2>1, <2>2, FilePinned DEF Pinned
  <2>4. Detached(t, i, "vm_fput") \/ Destroyed(t, i, "vm_fput")
    BY <2>1, <2>3, PutSlot DEF IInv
  <2>5. pc[t] = "close" /\ rw_mutex = NoTask /\ UNCHANGED <<members, at, then>>
    BY <1>23 DEF shm_close
  <2>6. cur'[t] = f /\ f # NoFile
    BY <1>c, <1>t, <2>1
  <2>7. TaskAt(t)'
    BY <1>a, <1>c, <1>t, <2>4, <2>5, <2>6 DEF TaskAt, Closing, Detached, Destroyed
  <2>8. CASE Detached(t, i, "vm_fput")
    BY <1>a, <1>c, <1>t, <2>1, <2>5, <2>7, <2>8, OtherTasks DEF Detached
  <2>9. CASE Destroyed(t, i, "vm_fput")
    BY <1>a, <1>c, <1>t, <2>1, <2>5, <2>7, <2>9, OtherTasks DEF Destroyed
  <2> QED BY <2>4, <2>8, <2>9
<1>24. CASE fork_end(t)
  <2>1. child[t] \in Tasks /\ pc[child[t]] = "dead" /\ child[t] # t
    BY <1>24, <1>t DEF fork_end, IInv, UseInv, ForkInv
  <2>2. PICK c \in Tasks : c = child[t]
    BY <2>1
  <2>3. /\ pc[t] = "fork" /\ pc' = [pc EXCEPT ![t] = "user", ![c] = "user"]
        /\ members \subseteq members'
        /\ UNCHANGED <<rw_mutex, at, job, cur, then, dying, ret>>
    BY <1>24, <2>2 DEF fork_end
  <2>4. pc'[t] = "user" /\ pc'[c] = "user" /\ \A u \in Tasks \ {t, c} : pc'[u] = pc[u]
    BY <1>t, <2>1, <2>2, <2>3
  <2>5. TaskAt(t)'
    BY <1>a, <2>3, <2>4 DEF TaskAt, Closing
  <2>6. TaskAt(c)
    BY <1>a DEF TaskInv
  <2>7. TaskAt(c)'
    BY <2>1, <2>2, <2>3, <2>4, <2>6 DEF TaskAt, Closing
  <2>8. ASSUME NEW u \in Tasks \ {t, c} PROVE TaskAt(u)'
    <3>1. TaskAt(u)
        BY <1>a DEF TaskInv
    <3> QED BY <2>3, <2>4, <3>1 DEF TaskAt, Closing
  <2> QED BY <2>5, <2>7, <2>8 DEF TaskInv
<1>25. CASE shm_destroy_end(t)
  <2>1. /\ pc[t] = "destroy" /\ dying' = [dying EXCEPT ![t] = NoSeg] /\ rw_mutex' = NoTask
        /\ pc' = [pc EXCEPT ![t] = ret[t]] /\ ret' = [ret EXCEPT ![t] = "user"]
        /\ UNCHANGED <<members, at, job, cur, then>>
    BY <1>25 DEF shm_destroy_end
  <2>2. dying'[t] = NoSeg /\ pc'[t] = ret[t] /\ ret'[t] = "user" /\ ret[t] \in {"user", "vm_fput"}
        /\ rw_mutex = t
    BY <1>a, <1>t, <2>1 DEF TaskAt
  <2>3. TaskAt(t)'
    BY <1>a, <1>c, <2>1, <2>2 DEF TaskAt, Closing
  <2> QED BY <1>a, <1>c, <1>t, <2>1, <2>2, <2>3, OtherTasks
<1> QED BY <1>1, <1>2, <1>3, <1>4, <1>5, <1>7, <1>8, <1>9, <1>11, <1>12, <1>13, <1>14, <1>15, <1>16,
       <1>17, <1>18, <1>19, <1>20, <1>21, <1>22, <1>23, <1>24, <1>25 DEF Call, Step

(* A step that is no part of fork() leaves the forks under way alone.      *)
LEMMA OtherForks ==
    ASSUME ForkInv, pc \in [Tasks -> Labels], NEW t \in Tasks, UNCHANGED child,
           pc[t] \notin {"fork", "dead"},
           \E l \in Labels \ {"fork"} : pc' = [pc EXCEPT ![t] = l]
    PROVE  ForkInv'
BY DEF ForkInv

(* Every step keeps the child of a fork out of the way until the fork is   *)
(* complete.                                                               *)
LEMMA ForkStep ==
    ASSUME IInv, [Next]_vars
    PROVE  ForkInv'
<1> USE DEF Goto, nsv, mmv, jobv, dyv, idsv
<1>t. /\ pc \in [Tasks -> Labels] /\ then \in [Tasks -> {"user", "map", "exit_ns"}]
      /\ ret \in [Tasks -> {"user", "vm_fput"}]
      /\ child \in [Tasks -> Tasks \cup {NoTask}]
      /\ job \in [Tasks -> [Files -> 0 .. MaxFrag]]
  BY DEF IInv, TypeInv
<1>c. NoTask \notin Tasks
  BY ShmConstants
<1>a. ForkInv
  BY DEF IInv, UseInv
<1>s. CASE UNCHANGED vars
  BY <1>a, <1>s DEF vars, ForkInv
<1> SUFFICES ASSUME NEW t \in Tasks, Call(t) \/ Step(t), UNCHANGED may PROVE ForkInv'
  BY <1>s DEF Next, Stopped
<1>1. CASE UNCHANGED <<pc, child>>
  BY <1>1, <1>a DEF ForkInv
<1>2. ASSUME UNCHANGED child, pc[t] \notin {"fork", "dead"},
             NEW l \in Labels \ {"fork"}, pc' = [pc EXCEPT ![t] = l]
      PROVE  ForkInv'
  BY <1>2, <1>a, <1>t, OtherForks
<1>3. ASSUME NEW id \in ShmIds, shmctl_rmid(t, id) PROVE ForkInv'
  <2>1. PICK i \in Live : i = ipcid_to_idx(id)
    BY <1>3, CheckedId DEF shmctl_rmid
  <2>2. do_shm_rmid(t, i) /\ pc[t] = "user" /\ UNCHANGED child
    BY <1>3, <2>1 DEF shmctl_rmid
  <2>3. UNCHANGED pc \/ Destroyed(t, i, "user")
    BY <2>2, RmidSlot DEF IInv
  <2> QED BY <1>1, <1>2, <2>2, <2>3 DEF Destroyed, Labels
<1>4. ASSUME NEW i \in Live, NEW back \in {"user", "vm_fput"}, put_attach(t, i, back),
             pc[t] \in {"close", "out_nattch"}, UNCHANGED child
      PROVE  ForkInv'
  <2>1. Detached(t, i, back) \/ Destroyed(t, i, back)
    BY <1>4, PutSlot DEF IInv
  <2>2. PICK l \in {"user", "vm_fput", "destroy"} : pc' = [pc EXCEPT ![t] = l]
    BY <1>4, <2>1 DEF Detached, Destroyed
  <2> QED BY <1>2, <1>4, <2>2 DEF Labels
<1>5. CASE shmat_out(t)
  <2>1. PICK i \in Live : i = ipcid_to_idx(at[t].id)
    BY <1>5, AtPinned DEF shmat_out, Pinned
  <2> QED BY <1>4, <1>5, <2>1 DEF shmat_out
<1>6. CASE shm_close(t)
  <2>1. PICK f \in Files : job[t][f] > 0 /\ put_attach(t, ipcid_to_idx(file[f].id), "vm_fput")
    BY <1>6 DEF shm_close
  <2>2. job[t][f] \in 0 .. MaxFrag /\ FileVmas(f) \in Nat /\ job[t][f] <= FileVmas(f)
        /\ MaxFrag \in Nat
    BY <1>t, CountsNat, ShmConstants DEF IInv
  <2>3. PICK i \in Live : i = ipcid_to_idx(file[f].id)
    BY <2>1, <2>2, FilePinned DEF Pinned
  <2> QED BY <1>4, <1>6, <2>1, <2>3 DEF shm_close
<1>7. ASSUME NEW f \in Files, NEW n \in 1 .. vmas[MmOf[t]][f], munmap(t, f, n) PROVE ForkInv'
  <2>1. PICK l \in Labels \ {"fork"} : pc' = [pc EXCEPT ![t] = l]
    BY <1>7 DEF munmap, Unmap, Labels
  <2> QED BY <1>2, <1>7, <2>1 DEF munmap
<1>8. CASE exit_mm(t)
  <2>1. PICK l \in Labels \ {"fork"} : pc' = [pc EXCEPT ![t] = l]
    BY <1>8 DEF exit_mm, Unmap, Labels
  <2> QED BY <1>2, <1>8, <2>1 DEF exit_mm
<1>9. CASE fork_nomem(t)
  <2>0. pc' = [pc EXCEPT ![t] = IF vmas[MmOf[child[t]]] = NoJob THEN "user" ELSE "close"]
    BY <1>9 DEF fork_nomem, Unmap
  <2>1. PICK l \in {"user", "close"} : pc' = [pc EXCEPT ![t] = l]
    BY <2>0
  <2>2. pc[t] = "fork" /\ child' = [child EXCEPT ![t] = NoTask]
    BY <1>9 DEF fork_nomem
  <2> QED BY <1>a, <1>c, <1>t, <2>1, <2>2 DEF ForkInv, Labels
<1>10. CASE fork_end(t)
  <2>1. PICK c \in Tasks : c = child[t]
    BY <1>10, <1>a, <1>t DEF fork_end, ForkInv
  <2>2. /\ pc[t] = "fork" /\ pc' = [pc EXCEPT ![t] = "user", ![c] = "user"]
        /\ child' = [child EXCEPT ![t] = NoTask]
    BY <1>10, <2>1 DEF fork_end
  <2>3. pc[c] = "dead" /\ \A u \in Tasks \ {t} : child[u] # c
    BY <1>a, <1>c, <2>1 DEF ForkInv
  <2> QED BY <1>a, <1>c, <1>t, <2>1, <2>2, <2>3 DEF ForkInv
<1>11. ASSUME NEW c \in Tasks, fork(t, c) PROVE ForkInv'
  <2>1. /\ pc[t] = "user" /\ pc[c] = "dead" /\ \A u \in Tasks : child[u] # c
        /\ pc' = [pc EXCEPT ![t] = "fork"] /\ child' = [child EXCEPT ![t] = c]
    BY <1>11 DEF fork
  <2> QED BY <1>a, <1>c, <1>t, <2>1 DEF ForkInv
<1>12. CASE vm_fput(t)
  <2>1. PICK l \in Labels \ {"fork"} : pc' = [pc EXCEPT ![t] = l]
    BY <1>12, <1>t DEF vm_fput, Labels
  <2> QED BY <1>2, <1>12, <2>1 DEF vm_fput
<1>13. CASE shm_destroy_end(t)
  <2>1. PICK l \in Labels \ {"fork"} : pc' = [pc EXCEPT ![t] = l]
    BY <1>13, <1>t DEF shm_destroy_end, Labels
  <2> QED BY <1>2, <1>13, <2>1 DEF shm_destroy_end
<1>14. ASSUME NEW key \in Keys \cup {IPC_PRIVATE}, NEW size \in may.sizes, NEW huge \in may.huge,
              shmget(t, key, size, huge)
       PROVE  ForkInv'
  BY <1>1, <1>14 DEF shmget
<1>15. ASSUME NEW id \in ShmIds, shmctl_lock(t, id) \/ shmctl_unlock(t, id) PROVE ForkInv'
  BY <1>1, <1>15 DEF shmctl_lock, shmctl_unlock
<1>16. ASSUME NEW id \in ShmIds, shmat_find(t, id) PROVE ForkInv'
  BY <1>2, <1>16 DEF shmat_find, Labels
<1>17. ASSUME NEW f \in Files, split_vma(t, f) PROVE ForkInv'
  BY <1>1, <1>17 DEF split_vma
<1>18. CASE dup_mmap(t)
  BY <1>1, <1>18 DEF dup_mmap
<1>19. CASE unshare(t)
  BY <1>1, <1>19 DEF unshare
<1>20. CASE shmat_alloc(t) \/ shmat_nomem(t) \/ shmat_map(t) \/ shmat_nomap(t) \/ shmat_fput(t)
  BY <1>2, <1>20 DEF shmat_alloc, shmat_nomem, shmat_map, shmat_nomap, shmat_fput, Labels
<1>21. CASE exit_ns(t)
  BY <1>2, <1>21 DEF exit_ns, Labels
<1> QED
  BY <1>3, <1>5, <1>6, <1>7, <1>8, <1>9, <1>10, <1>11, <1>12, <1>13, <1>14, <1>15, <1>16, <1>17,
       <1>18, <1>19, <1>20, <1>21 DEF Call, Step

(* The calls of do_shmat() that hold a segment.                            *)
Holders == \A b \in Nat \ {0} : Attaching(b) = {t \in Tasks : at[t].born = b}

(* A call of do_shmat() holds the segment it found.                        *)
LEMMA AttachingIs == ASSUME TaskInv PROVE Holders
BY DEF TaskInv, TaskAt, Attaching, NoAt, Holders

(* No call of do_shmat() begins or ends.                                   *)
LEMMA AttachSame ==
    ASSUME TaskInv, TaskInv', \A u \in Tasks : at'[u].born = at[u].born
    PROVE  \A b \in Nat \ {0} : Cardinality(Attaching(b))' = Cardinality(Attaching(b))
<1>1. Holders /\ Holders'
  BY AttachingIs, PTL
<1>2. \A b \in Nat \ {0} : Attaching(b)' = Attaching(b)
  BY <1>1 DEF Holders
<1> QED BY <1>2

(* One call of do_shmat() begins or ends.                                  *)
LEMMA AttachUp ==
    ASSUME TypeInv, TaskInv, TaskInv', NEW t \in Tasks, at[t].born = 0, at'[t].born # 0,
           \A u \in Tasks \ {t} : at'[u].born = at[u].born
    PROVE  \A b \in Nat \ {0} : Cardinality(Attaching(b))' =
              Cardinality(Attaching(b)) + IF b = at'[t].born THEN 1 ELSE 0
<1>1. Holders /\ Holders'
  BY AttachingIs, PTL
<1> SUFFICES ASSUME NEW b \in Nat \ {0}
             PROVE  Cardinality(Attaching(b))' =
                       Cardinality(Attaching(b)) + IF b = at'[t].born THEN 1 ELSE 0
  OBVIOUS
<1>2. PICK A, B : A = Attaching(b) /\ B = Attaching(b)'
  OBVIOUS
<1>3. A = {u \in Tasks : at[u].born = b} /\ B = {u \in Tasks : at'[u].born = b}
  BY <1>1, <1>2 DEF Holders
<1>4. IsFiniteSet(A) /\ Cardinality(A) \in Nat
  BY <1>3, Finite, FS_Subset, FS_CardinalityType
<1>5. CASE b = at'[t].born
  <2>1. B = A \cup {t} /\ t \notin A
    BY <1>3, <1>5
  <2>2. Cardinality(B) = Cardinality(A) + 1
    BY <1>4, <2>1, FS_AddElement
  <2> QED BY <1>2, <1>5, <2>2
<1>6. CASE b # at'[t].born
  <2>1. B = A
    BY <1>3, <1>6
  <2> QED BY <1>2, <1>4, <1>6, <2>1
<1> QED BY <1>5, <1>6

(* One call of do_shmat() ends.                                            *)
LEMMA AttachDown ==
    ASSUME TypeInv, TaskInv, TaskInv', NEW t \in Tasks, at'[t].born = 0, at[t].born # 0,
           \A u \in Tasks \ {t} : at'[u].born = at[u].born
    PROVE  \A b \in Nat \ {0} : Cardinality(Attaching(b))' =
              Cardinality(Attaching(b)) + IF b = at[t].born THEN -1 ELSE 0
<1>1. Holders /\ Holders'
  BY AttachingIs, PTL
<1> SUFFICES ASSUME NEW b \in Nat \ {0}
             PROVE  Cardinality(Attaching(b))' =
                       Cardinality(Attaching(b)) + IF b = at[t].born THEN -1 ELSE 0
  OBVIOUS
<1>2. PICK A, B : A = Attaching(b) /\ B = Attaching(b)'
  OBVIOUS
<1>3. A = {u \in Tasks : at[u].born = b} /\ B = {u \in Tasks : at'[u].born = b}
  BY <1>1, <1>2 DEF Holders
<1>4. IsFiniteSet(A) /\ Cardinality(A) \in Nat
  BY <1>3, Finite, FS_Subset, FS_CardinalityType
<1>5. CASE b = at[t].born
  <2>1. B = A \ {t} /\ t \in A
    BY <1>3, <1>5
  <2>2. Cardinality(B) = Cardinality(A) - 1
    BY <1>4, <2>1, FS_RemoveElement
  <2> QED BY <1>2, <1>4, <1>5, <2>2
<1>6. CASE b # at[t].born
  <2>1. B = A
    BY <1>3, <1>6
  <2> QED BY <1>2, <1>4, <1>6, <2>1
<1> QED BY <1>5, <1>6

-----------------------------------------------------------------------------
(* The uses of a segment over a step.                                      *)

(* Nobody attaches or detaches.                                            *)
LEMMA UsesSame ==
    ASSUME TypeInv, TypeInv', TaskInv, TaskInv',
           \A g \in Files : FileVmas(g)' = FileVmas(g),
           \A g \in Files : file'[g] = file[g] \/ FileVmas(g) = 0,
           \A u \in Tasks : at'[u].born = at[u].born
    PROVE  \A b \in Nat \ {0} : Uses(b)' = Uses(b)
<1>1. \A b \in Nat \ {0} : Mappings(b)' = Mappings(b)
  BY MapsSame
<1>2. \A b \in Nat \ {0} : Cardinality(Attaching(b))' = Cardinality(Attaching(b))
  BY AttachSame
<1> QED BY <1>1, <1>2 DEF Uses

(* A vma of file f is opened or closed.                                    *)
LEMMA UsesFile ==
    ASSUME TypeInv, TypeInv', TaskInv, TaskInv', NEW f \in Files, NEW d \in Int, UNCHANGED file,
           \A g \in Files : FileVmas(g)' = FileVmas(g) + IF g = f THEN d ELSE 0,
           \A u \in Tasks : at'[u].born = at[u].born
    PROVE  \A b \in Nat \ {0} : Uses(b)' = Uses(b) + IF FileIs(f, b) THEN d ELSE 0
<1>1. \A b \in Nat : Mappings(b)' = Mappings(b) + IF FileIs(f, b) THEN d ELSE 0
  BY MapsChange
<1>2. \A b \in Nat \ {0} : Cardinality(Attaching(b))' = Cardinality(Attaching(b))
  BY AttachSame
<1>3. \A b \in Nat \ {0} : Mappings(b) \in Nat /\ Cardinality(Attaching(b)) \in Nat
  BY UsesNat DEF UsesBound
<1> QED BY <1>1, <1>2, <1>3 DEF Uses

(* What the counts have to agree with.                                     *)
Pins ==
    /\ \A t \in Tasks : at[t].born # 0 => Pinned(at[t].id, at[t].born)
    /\ \A f \in Files : FileVmas(f) > 0 => file[f] # NoFile /\ Pinned(file[f].id, file[f].born)

UsersInv == AttachCount /\ Pins /\ NoDoomedLeft

VmasNat == \A f \in Files : FileVmas(f) \in Nat

(* The vmas of a file are a number.                                        *)
LEMMA VmasCount == ASSUME TypeInv PROVE VmasNat
BY CountsNat DEF VmasNat

(* The count of a segment follows its uses, and a segment in use stays.    *)
LEMMA UsersKept ==
    ASSUME IInv, TypeInv', TaskInv',
           \A b \in Nat \ {0} : \A i \in Live : b = seg[i].born =>
              \/ /\ seg'[i] # NoSeg /\ seg'[i].born = b
                 /\ seg'[i].nattch - seg[i].nattch = Uses(b)' - Uses(b)
              \/ seg'[i] = NoSeg /\ Uses(b)' = 0,
           \A b \in Nat \ {0} : \A i \in Index \ Live :
              seg'[i] # NoSeg /\ b = seg'[i].born => Uses(b)' = seg'[i].nattch /\ seg'[i].mode = {},
           \A i \in Live : seg'[i] # NoSeg /\ "DEST" \in seg'[i].mode => seg'[i].nattch # 0,
           \A t \in Tasks : at'[t].born # 0 => Pinned(at'[t].id, at'[t].born),
           \A f \in Files : FileVmas(f)' > 0 =>
              file'[f] # NoFile /\ Pinned(file'[f].id, file'[f].born),
           SegInv'
    PROVE  UsersInv'
<1>t. /\ seg \in [Index -> SegmentRecord \cup {NoSeg}]
      /\ seg' \in [Index -> SegmentRecord \cup {NoSeg}] /\ ids' \in Seq(Nat)
      /\ at' \in [Tasks -> [id : Nat, born : Nat, f : Files \cup {NoFile}]]
      /\ file' \in [Files -> FileRecord \cup {NoFile}]
      /\ ids \in Seq(Nat)
  BY DEF IInv, TypeInv
<1>u. UsesBound /\ UsesBound'
  BY UsesNat, PTL DEF IInv
<1>k. \A f \in Files : FileVmas(f)' \in Nat
  <2>1. VmasNat'
    BY VmasCount, PTL
  <2> QED BY <2>1 DEF VmasNat
<1>n. \A b \in Nat \ {0} : Uses(b) \in Nat /\ Uses(b)' \in Nat
  BY <1>u DEF UsesBound, Uses
<1>b. \A i \in Live : seg[i].born \in Nat \ {0} /\ seg[i].nattch \in Int
  BY <1>t DEF IInv, TableInv, SegInv, Created, Live, SegmentRecord
<1>c. \A i \in Index : seg'[i] # NoSeg => seg'[i].born \in Nat \ {0} /\ seg'[i].nattch \in Int
  <2> SUFFICES ASSUME NEW i \in Index, seg'[i] # NoSeg
               PROVE  seg'[i].born \in Nat \ {0} /\ seg'[i].nattch \in Int
    OBVIOUS
  <2>1. seg'[i] \in SegmentRecord
    BY <1>t
  <2>2. seg'[i].born \in 1 .. Len(ids')
    BY DEF SegInv, Created
  <2> QED BY <1>t, <2>1, <2>2 DEF SegmentRecord
<1>1. ASSUME NEW i \in Index, seg'[i] # NoSeg, NEW b \in Nat \ {0}, b = seg'[i].born
      PROVE  seg'[i].nattch = Uses(b)' /\ ("DEST" \in seg'[i].mode => seg'[i].nattch > 0)
  <2>1. CASE i \in Live
    <3>1. seg[i].born = b /\ seg'[i].nattch - seg[i].nattch = Uses(b)' - Uses(b)
        BY <1>1, <1>b, <2>1
    <3>2. seg[i].nattch = Uses(b)
        BY <2>1, <3>1 DEF IInv, UseInv, AttachCount, Uses
    <3>3. seg'[i].nattch = Uses(b)'
        BY <1>1, <1>n, <1>c, <3>1, <3>2
    <3> QED BY <1>1, <1>n, <2>1, <3>3
  <2>2. CASE i \notin Live
    BY <1>1, <2>2
  <2> QED BY <2>1, <2>2
<1>2. AttachCount'
  <2> SUFFICES ASSUME NEW i \in Live'
               PROVE  (seg[i].nattch = Mappings(seg[i].born) + Cardinality(Attaching(seg[i].born)))'
    BY DEF AttachCount
  <2>1. i \in Index /\ seg'[i] # NoSeg
    BY DEF Live
  <2>2. PICK b \in Nat \ {0} : b = seg'[i].born
    BY <1>c, <2>1
  <2>3. seg'[i].nattch = Uses(b)'
    BY <1>1, <2>1, <2>2
  <2> QED BY <2>2, <2>3 DEF Uses, Mappings, Attaching
<1>3. NoDoomedLeft'
  <2> SUFFICES ASSUME NEW i \in Live', "DEST" \in seg'[i].mode PROVE seg'[i].nattch > 0
    BY DEF NoDoomedLeft
  <2>1. i \in Index /\ seg'[i] # NoSeg
    BY DEF Live
  <2>2. PICK b \in Nat \ {0} : b = seg'[i].born
    BY <1>c, <2>1
  <2> QED BY <1>1, <2>1, <2>2
<1>4. ASSUME NEW id, NEW b \in Nat \ {0}, Pinned(id, b), Uses(b)' # 0
      PROVE  Pinned(id, b)'
  <2>1. ipcid_to_idx(id) \in Live /\ seg[ipcid_to_idx(id)].born = b
    BY <1>4 DEF Pinned
  <2>2. ipcid_to_idx(id) \in Index
    BY <2>1 DEF Live
  <2>3. seg'[ipcid_to_idx(id)] # NoSeg /\ seg'[ipcid_to_idx(id)].born = b
    BY <1>4, <2>1
  <2> QED BY <2>2, <2>3 DEF Pinned, Live, ipcid_to_idx
<1>5. ASSUME NEW t \in Tasks, at'[t].born # 0
      PROVE  Pinned(at[t].id, at[t].born)'
  <2>1. PICK b \in Nat \ {0}, id \in Nat : id = at'[t].id /\ b = at'[t].born
    BY <1>5, <1>t
  <2>2. t \in Attaching(b)'
    BY <1>5, <2>1 DEF Attaching, NoAt
  <2>3. Uses(b)' # 0
    BY <1>u, <2>2 DEF UsesBound, Uses
  <2>4. Pinned(id, b)'
    BY <1>4, <1>5, <2>1, <2>3
  <2> QED BY <2>1, <2>4 DEF Pinned
<1>6. ASSUME NEW f \in Files, FileVmas(f)' > 0
      PROVE  file'[f] # NoFile /\ Pinned(file[f].id, file[f].born)'
  <2>1. file'[f] # NoFile /\ Pinned(file'[f].id, file'[f].born)
    BY <1>6
  <2>2. file'[f].born \in Nat \ {0} /\ file'[f].id \in Nat
    BY <1>b, <1>t, <2>1 DEF Pinned, FileRecord
  <2>3. PICK b \in Nat \ {0}, id \in Nat : id = file'[f].id /\ b = file'[f].born
    BY <2>2
  <2>4. FileIs(f, b)'
    BY <2>1, <2>3 DEF FileIs
  <2>5. Uses(b)' # 0
    <3>1. /\ FileVmas(f)' <= Mappings(b)' /\ Mappings(b)' \in Nat
          /\ Cardinality(Attaching(b))' \in Nat
        BY <1>u, <2>4 DEF UsesBound
    <3>2. FileVmas(f)' \in Nat
        BY <1>k
    <3> QED BY <1>6, <3>1, <3>2 DEF Uses
  <2>6. Pinned(id, b)'
    BY <1>4, <2>1, <2>3, <2>5
  <2> QED BY <2>1, <2>3, <2>6 DEF Pinned
<1>7. Pins'
  BY <1>5, <1>6 DEF Pins
<1> QED BY <1>2, <1>3, <1>7 DEF UsersInv

(* Nobody attaches or detaches: vmas change hands at most, and only a file *)
(* without a vma comes or goes.                                            *)
SameUse ==
    /\ \A g \in Files : FileVmas(g)' = FileVmas(g)
    /\ \A g \in Files : file'[g] = file[g] \/ FileVmas(g) = 0
    /\ \A u \in Tasks : at'[u].born = at[u].born /\ at'[u].id = at[u].id

(* Segments stay, but for some that nobody uses.                           *)
SegsKept ==
    /\ \A i \in Live :
          \/ /\ seg'[i] # NoSeg /\ seg'[i].born = seg[i].born /\ seg'[i].nattch = seg[i].nattch
             /\ "DEST" \in seg'[i].mode => "DEST" \in seg[i].mode \/ seg[i].nattch > 0
          \/ seg'[i] = NoSeg /\ seg[i].nattch = 0
    /\ \A i \in Index \ Live : seg'[i] = NoSeg

(* Where nobody attaches or detaches, counts and lookups stay right.       *)
LEMMA SteadyUsers ==
    ASSUME IInv, TypeInv', TaskInv', SegInv', SameUse, SegsKept
    PROVE  UsersInv'
<1>u. \A b \in Nat \ {0} : Uses(b)' = Uses(b)
  BY UsesSame DEF IInv, UseInv, SameUse
<1>n. \A b \in Nat \ {0} : Uses(b) \in Nat
  BY UsesNat DEF UsesBound, Uses, IInv
<1>s. \A i \in Live : seg[i].nattch \in Int
  BY DEF IInv, TypeInv, Live, SegmentRecord
<1>1. ASSUME NEW b \in Nat \ {0}, NEW i \in Live, b = seg[i].born
      PROVE  \/ /\ seg'[i] # NoSeg /\ seg'[i].born = b
                /\ seg'[i].nattch - seg[i].nattch = Uses(b)' - Uses(b)
             \/ seg'[i] = NoSeg /\ Uses(b)' = 0
  <2>1. seg[i].nattch = Uses(b)
    BY <1>1 DEF IInv, UseInv, AttachCount, Uses
  <2> QED BY <1>1, <1>n, <1>s, <1>u, <2>1 DEF SegsKept
<1>2. \A i \in Live : seg'[i] # NoSeg /\ "DEST" \in seg'[i].mode => seg'[i].nattch # 0
  BY <1>s DEF SegsKept, IInv, UseInv, NoDoomedLeft
<1>3. \A t \in Tasks : at'[t].born # 0 => Pinned(at'[t].id, at'[t].born)
  BY DEF SameUse, IInv, UseInv, PinInv
<1>4. \A f \in Files : FileVmas(f)' > 0 => file'[f] # NoFile /\ Pinned(file'[f].id, file'[f].born)
  <2> SUFFICES ASSUME NEW f \in Files, FileVmas(f)' > 0
               PROVE  file'[f] # NoFile /\ Pinned(file'[f].id, file'[f].born)
    OBVIOUS
  <2>1. FileVmas(f) > 0 /\ file'[f] = file[f]
    BY DEF SameUse
  <2> QED BY <2>1 DEF IInv, UseInv, PinInv
<1>5. \A b \in Nat \ {0} : \A i \in Index \ Live :
         seg'[i] # NoSeg /\ b = seg'[i].born => Uses(b)' = seg'[i].nattch /\ seg'[i].mode = {}
  BY DEF SegsKept
<1> QED BY <1>1, <1>2, <1>3, <1>4, <1>5, UsersKept

(* One use of the segment in slot i more or less.                          *)
Counted(i, d) ==
    /\ i \in Live /\ OnlySlot(i) /\ d \in {-1, 1}
    /\ \A b \in Nat \ {0} : Uses(b)' = Uses(b) + IF b = seg[i].born THEN d ELSE 0
    /\ \/ /\ seg'[i] # NoSeg /\ seg'[i].born = seg[i].born /\ seg'[i].mode = seg[i].mode
          /\ seg'[i].nattch = seg[i].nattch + d
          /\ d = -1 /\ "DEST" \in seg[i].mode => seg[i].nattch # 1
       \/ seg'[i] = NoSeg /\ d = -1 /\ seg[i].nattch = 1

(* Where one use comes or goes and is counted, counts and lookups stay     *)
(* right.                                                                  *)
LEMMA CountedUsers ==
    ASSUME IInv, TypeInv', TaskInv', SegInv', NEW i, NEW d, Counted(i, d),
           \A t \in Tasks : at'[t].born # 0 => Pinned(at'[t].id, at'[t].born),
           \A f \in Files : FileVmas(f)' > 0 =>
              file'[f] # NoFile /\ Pinned(file'[f].id, file'[f].born)
    PROVE  UsersInv'
<1>n. \A b \in Nat \ {0} : Uses(b) \in Nat
  BY UsesNat DEF UsesBound, Uses, IInv
<1>t. seg \in [Index -> SegmentRecord \cup {NoSeg}] /\ ids \in Seq(Nat)
  BY DEF IInv, TypeInv
<1>l. Len(ids) \in Nat
  BY <1>t
<1>s. \A j \in Live : seg[j].nattch \in Int /\ j \in Index /\ seg[j].born \in Nat \ {0}
  BY <1>l, <1>t DEF IInv, TableInv, SegInv, Created, Live, SegmentRecord
<1>v. \A b \in Nat \ {0} : \A j \in Live : b = seg[j].born => seg[j].nattch = Uses(b)
  BY DEF IInv, UseInv, AttachCount, Uses
<1>1. ASSUME NEW b \in Nat \ {0}, NEW j \in Live, b = seg[j].born
      PROVE  \/ /\ seg'[j] # NoSeg /\ seg'[j].born = b
                /\ seg'[j].nattch - seg[j].nattch = Uses(b)' - Uses(b)
             \/ seg'[j] = NoSeg /\ Uses(b)' = 0
  <2>1. seg[j].nattch = Uses(b) /\ seg[j].nattch \in Int
    BY <1>1, <1>s, <1>v
  <2>2. CASE j = i
    <3>1. Uses(b)' = Uses(b) + d /\ d \in {-1, 1}
        BY <1>1, <2>2 DEF Counted
    <3> QED BY <1>1, <1>n, <2>1, <2>2, <3>1 DEF Counted
  <2>3. CASE j # i
    <3>1. seg'[j] = seg[j] /\ seg[j] # NoSeg
        BY <1>s, <2>3 DEF Counted, OnlySlot, Live
    <3>2. seg[i].born # b
        BY <1>1, <2>3 DEF Counted, IInv, TableInv, SlotInv
    <3>3. Uses(b)' = Uses(b)
        BY <1>n, <3>2 DEF Counted
    <3> QED BY <1>1, <1>n, <2>1, <3>1, <3>3
  <2> QED BY <2>2, <2>3
<1>2. ASSUME NEW j \in Live, seg'[j] # NoSeg, "DEST" \in seg'[j].mode PROVE seg'[j].nattch # 0
  <2>1. CASE j = i
    <3>1. seg[i].nattch \in Nat
        BY <1>n, <1>s, <1>v, <2>1
    <3> QED BY <1>2, <2>1, <3>1 DEF Counted
  <2>2. CASE j # i
    <3>1. seg'[j] = seg[j]
        BY <1>s, <2>2 DEF Counted, OnlySlot
    <3> QED BY <1>2, <1>s, <3>1 DEF IInv, UseInv, NoDoomedLeft
  <2> QED BY <2>1, <2>2
<1>3. \A b \in Nat \ {0} : \A j \in Index \ Live :
         seg'[j] # NoSeg /\ b = seg'[j].born => Uses(b)' = seg'[j].nattch /\ seg'[j].mode = {}
  BY DEF Counted, OnlySlot, Live
<1> QED BY <1>1, <1>2, <1>3, UsersKept

(* A new segment is one that nobody has seen.                              *)
LEMMA CreatedUsers ==
    ASSUME IInv, TypeInv', TaskInv', SegInv', NEW t \in Tasks, NEW key \in Keys \cup {IPC_PRIVATE},
           NEW size \in Nat, NEW huge \in BOOLEAN, shmget(t, key, size, huge)
    PROVE  UsersInv'
<1>1. PICK i \in Index \ Live :
              /\ seg' = [seg EXCEPT ![i] = NewSeg(t, i, key, size, huge)]
              /\ NewSeg(t, i, key, size, huge) # NoSeg
  BY CreateSlot DEF IInv
<1>q. seg \in [Index -> SegmentRecord \cup {NoSeg}] /\ ids \in Seq(Nat)
  BY DEF IInv, TypeInv
<1>t. seg \in [Index -> SegmentRecord \cup {NoSeg}] /\ Len(ids) \in Nat
  BY <1>q
<1>u. UNCHANGED <<vmas, job, file, at>>
  BY DEF shmget, mmv, jobv
<1>2. \A b \in Nat \ {0} : Uses(b)' = Uses(b)
  <2>1. \A g \in Files : FileVmas(g)' = FileVmas(g)
    BY <1>u, VmasSame
  <2> QED BY <1>u, <2>1, UsesSame DEF IInv, UseInv
<1>n. \A b \in Nat \ {0} : Uses(b) \in Nat
  BY UsesNat DEF UsesBound, Uses, IInv
<1>s. \A j \in Live : seg[j].nattch \in Int /\ j \in Index /\ seg[j].born \in 1 .. Len(ids)
  BY DEF IInv, TypeInv, TableInv, SegInv, Created, Live, SegmentRecord
<1>v. \A b \in Nat \ {0} : \A j \in Live : b = seg[j].born => seg[j].nattch = Uses(b)
  BY DEF IInv, UseInv, AttachCount, Uses
<1>3. Uses(Len(ids) + 1) = 0
  <2>1. PICK b \in Nat \ {0} : b = Len(ids) + 1
    BY <1>t
  <2>2. \A f \in Files : ~FileIs(f, b)
    BY <1>t, <2>1 DEF IInv, UseInv, PinInv, FileIs
  <2>3. Attaching(b) = {}
    <3>1. Holders
        BY AttachingIs DEF IInv, UseInv
    <3>2. \A u \in Tasks : at[u].born # b
        BY <1>s, <1>t, <2>1 DEF IInv, UseInv, PinInv, Pinned
    <3> QED BY <3>1, <3>2 DEF Holders
  <2>4. UsesBound
    BY UsesNat DEF IInv
  <2>5. Mappings(b) = 0 /\ Cardinality(Attaching(b)) = 0
    BY <2>2, <2>3, <2>4 DEF UsesBound
  <2> QED BY <2>1, <2>5 DEF Uses
<1>4. ASSUME NEW b \in Nat \ {0}, NEW j \in Live, b = seg[j].born
      PROVE  \/ /\ seg'[j] # NoSeg /\ seg'[j].born = b
                /\ seg'[j].nattch - seg[j].nattch = Uses(b)' - Uses(b)
             \/ seg'[j] = NoSeg /\ Uses(b)' = 0
  <2>1. seg[j].nattch = Uses(b) /\ seg[j].nattch \in Int /\ j \in Index /\ j # i
    BY <1>1, <1>4, <1>s, <1>v
  <2>2. seg'[j] = seg[j] /\ seg[j] # NoSeg
    BY <1>1, <1>t, <2>1 DEF Live
  <2> QED BY <1>2, <1>4, <2>1, <2>2
<1>5. ASSUME NEW j \in Live, seg'[j] # NoSeg, "DEST" \in seg'[j].mode PROVE seg'[j].nattch # 0
  <2>1. seg'[j] = seg[j]
    BY <1>1, <1>s, <1>t
  <2> QED BY <1>5, <1>s, <2>1 DEF IInv, UseInv, NoDoomedLeft
<1>6. ASSUME NEW b \in Nat \ {0}, NEW j \in Index \ Live, seg'[j] # NoSeg, b = seg'[j].born
      PROVE  Uses(b)' = seg'[j].nattch /\ seg'[j].mode = {}
  <2>1. j = i /\ seg'[j] = NewSeg(t, i, key, size, huge)
    BY <1>1, <1>6, <1>t DEF Live
  <2>2. b = Len(ids) + 1 /\ seg'[j].nattch = 0 /\ seg'[j].mode = {}
    BY <1>6, <2>1 DEF NewSeg
  <2> QED BY <1>2, <1>3, <2>2
<1>7. \A u \in Tasks : at'[u].born # 0 => Pinned(at'[u].id, at'[u].born)
  BY <1>u DEF IInv, UseInv, PinInv
<1>8. \A f \in Files : FileVmas(f)' > 0 => file'[f] # NoFile /\ Pinned(file'[f].id, file'[f].born)
  <2>1. \A g \in Files : FileVmas(g)' = FileVmas(g)
    BY <1>u, VmasSame
  <2> QED BY <1>u, <2>1 DEF IInv, UseInv, PinInv
<1> QED BY <1>4, <1>5, <1>6, <1>7, <1>8, UsersKept

Counts == TableInv /\ UsersInv

(* Neither the table nor the uses change.                                  *)
LEMMA QuietCounts ==
    ASSUME IInv, TypeInv', TaskInv', SameUse,
           UNCHANGED <<seg, in_use, shm_tot, locked_shm, dying, ids, ids_seq>>
    PROVE  Counts'
<1>1. TableInv'
  BY QuietTable DEF IInv
<1>2. SegsKept
  BY DEF SegsKept, Live
<1> QED BY <1>1, <1>2, SteadyUsers DEF Counts, TableInv

(* A reference to the namespace is dropped.                                *)
LEMMA PutCounts ==
    ASSUME IInv, TypeInv', TaskInv', SameUse, NsPut, UNCHANGED <<dying, ids, ids_seq>>
    PROVE  Counts'
<1>1. CASE UNCHANGED <<seg, in_use, shm_tot, locked_shm>>
  BY <1>1, QuietCounts
<1>2. CASE Cleared /\ \A i \in Live : seg[i].nattch = 0
  <2>1. TableInv'
    BY <1>2, ClearedTable DEF IInv
  <2>2. SegsKept
    BY <1>2 DEF SegsKept, Cleared, Live
  <2> QED BY <2>1, <2>2, SteadyUsers DEF Counts, TableInv
<1> QED BY <1>1, <1>2 DEF NsPut

(* An attach is counted.                                                   *)
LEMMA OpenedCounts ==
    ASSUME IInv, TypeInv', TaskInv', NEW f, NEW m, Opened(f, m)
    PROVE  Counts'
<1>1. PICK i \in Live : /\ OnlySlot(i) /\ i = ipcid_to_idx(file[f].id)
                        /\ seg'[i] # NoSeg /\ Same(seg'[i], seg[i])
                        /\ seg'[i].nattch = seg[i].nattch + 1
                        /\ seg[i].born = file[f].born
  BY OpenedTypes
<1>2. Recounted(i)
  BY <1>1 DEF Recounted, Opened
<1>3. TableInv'
  BY <1>2, RecountedTable DEF IInv
<1>4. f \in Files /\ m \in Mms /\ file[f] # NoFile /\ Pinned(file[f].id, file[f].born)
      /\ UNCHANGED <<file, at>>
  BY DEF Opened
<1>5. \A g \in Files : FileVmas(g)' = FileVmas(g) + IF g = f THEN 1 ELSE 0
  BY VmaUp DEF IInv, Opened
<1>6. \A b \in Nat \ {0} : Uses(b)' = Uses(b) + IF FileIs(f, b) THEN 1 ELSE 0
  BY <1>4, <1>5, UsesFile DEF IInv, UseInv
<1>7. Counted(i, 1)
  BY <1>1, <1>4, <1>6 DEF Counted, FileIs, Same
<1>8. \A t \in Tasks : at'[t].born # 0 => Pinned(at'[t].id, at'[t].born)
  BY <1>4 DEF IInv, UseInv, PinInv
<1>9. \A g \in Files : FileVmas(g)' > 0 => file'[g] # NoFile /\ Pinned(file'[g].id, file'[g].born)
  <2>1. \A g \in Files : FileVmas(g) \in Nat
    BY CountsNat DEF IInv
  <2> QED BY <1>4, <1>5, <2>1 DEF IInv, UseInv, PinInv
<1> QED BY <1>3, <1>7, <1>8, <1>9, CountedUsers DEF Counts, TableInv

(* An attach is given back.                                                *)
LEMMA PutAttachCounts ==
    ASSUME IInv, TypeInv', TaskInv', NEW t \in Tasks, NEW i \in Live, NEW back,
           put_attach(t, i, back), pc[t] # "destroy", UNCHANGED <<locked_shm, ids, ids_seq>>,
           \A b \in Nat \ {0} : Uses(b)' = Uses(b) + IF b = seg[i].born THEN -1 ELSE 0,
           \A u \in Tasks : at'[u].born # 0 => Pinned(at'[u].id, at'[u].born),
           \A f \in Files : FileVmas(f)' > 0 =>
              file'[f] # NoFile /\ Pinned(file'[f].id, file'[f].born)
    PROVE  Counts'
<1>1. OnlySlot(i) /\ (Detached(t, i, back) \/ (seg[i].nattch = 1 /\ Destroyed(t, i, back)))
  BY PutSlot DEF IInv
<1>2. CASE Detached(t, i, back)
  <2>1. Recounted(i)
    BY <1>1, <1>2 DEF Recounted, Detached
  <2>2. TableInv'
    BY <2>1, RecountedTable DEF IInv
  <2>3. seg[i].nattch \in Int
    BY DEF IInv, TypeInv, Live, SegmentRecord
  <2>4. Counted(i, -1)
    BY <1>1, <1>2, <2>3 DEF Counted, Detached, Same
  <2> QED BY <2>2, <2>4, CountedUsers DEF Counts, TableInv
<1>3. CASE seg[i].nattch = 1 /\ Destroyed(t, i, back)
  <2>1. dying[t] = NoSeg /\ dying \in [Tasks -> SegmentRecord \cup {NoSeg}]
    BY DEF IInv, UseInv, TaskInv, TaskAt, TypeInv
  <2>2. Removed(t, i)
    BY <1>1, <1>3, <2>1, ShmConstants DEF Removed, Destroyed
  <2>3. TableInv'
    BY <2>2, RemovedTable DEF IInv
  <2>4. Counted(i, -1)
    BY <1>1, <1>3 DEF Counted, Destroyed
  <2> QED BY <2>3, <2>4, CountedUsers DEF Counts, TableInv
<1> QED BY <1>1, <1>2, <1>3

(* do_shmat() up to shm_unlock() counts itself.                            *)
LEMMA FindCounts ==
    ASSUME IInv, TypeInv', TaskInv', NEW t \in Tasks, NEW id \in Nat, shmat_find(t, id)
    PROVE  Counts'
<1> USE DEF Goto, nsv, mmv, jobv, dyv, idsv
<1>1. PICK i \in Live : i = ipcid_to_idx(id)
  BY CheckedId DEF shmat_find
<1>2. OnlySlot(i) /\ seg'[i] # NoSeg /\ Same(seg'[i], seg[i]) /\ seg'[i].nattch = seg[i].nattch + 1
  BY <1>1, UpSlot DEF shmat_find, IInv
<1>3. Recounted(i)
  BY <1>2 DEF Recounted, shmat_find
<1>4. TableInv'
  BY <1>3, RecountedTable DEF IInv
<1>5. UNCHANGED <<vmas, job, file>> /\ pc[t] = "user"
  BY DEF shmat_find
<1>6. /\ at' = [at EXCEPT ![t] = [id |-> id, born |-> seg[i].born, f |-> NoFile]]
      /\ at \in [Tasks -> [id : Nat, born : Nat, f : Files \cup {NoFile}]]
  BY <1>1 DEF shmat_find, shm_lock, IInv, TypeInv
<1>7. at'[t].born = seg[i].born /\ at'[t].id = id /\ \A u \in Tasks \ {t} : at'[u] = at[u]
  BY <1>6
<1>8. ids \in Seq(Nat)
  BY DEF IInv, TypeInv
<1>9. seg[i].born \in Nat \ {0}
  <2>1. seg[i].born \in 1 .. Len(ids) /\ Len(ids) \in Nat
    BY <1>8 DEF IInv, TableInv, SegInv, Created, Live
  <2> QED BY <2>1
<1>10. at[t].born = 0
  BY <1>5 DEF IInv, UseInv, TaskInv, TaskAt, Closing
<1>11. \A b \in Nat \ {0} : Cardinality(Attaching(b))' =
          Cardinality(Attaching(b)) + IF b = at'[t].born THEN 1 ELSE 0
  <2>1. at'[t].born # 0 /\ \A u \in Tasks \ {t} : at'[u].born = at[u].born
    BY <1>7, <1>9
  <2> QED BY <1>10, <2>1, AttachUp DEF IInv, UseInv
<1>12. \A g \in Files : FileVmas(g)' = FileVmas(g)
  BY <1>5, VmasSame
<1>13. \A b \in Nat : Mappings(b)' = Mappings(b)
  BY <1>5, <1>12, MapsSame DEF IInv
<1>14. \A b \in Nat : Mappings(b) \in Nat /\ Cardinality(Attaching(b)) \in Nat
  BY UsesNat DEF UsesBound, IInv
<1>15. \A b \in Nat \ {0} : Uses(b)' = Uses(b) + IF b = seg[i].born THEN 1 ELSE 0
  BY <1>7, <1>11, <1>13, <1>14 DEF Uses
<1>16. Counted(i, 1)
  BY <1>2, <1>15 DEF Counted, Same
<1>17. \A u \in Tasks : at'[u].born # 0 => Pinned(at'[u].id, at'[u].born)
  BY <1>1, <1>7 DEF IInv, UseInv, PinInv, Pinned
<1>18. \A g \in Files : FileVmas(g)' > 0 => file'[g] # NoFile /\ Pinned(file'[g].id, file'[g].born)
  BY <1>5, <1>12 DEF IInv, UseInv, PinInv
<1> QED BY <1>4, <1>16, <1>17, <1>18, CountedUsers DEF Counts, TableInv

(* The end of do_shmat() takes the call back.                              *)
LEMMA OutCounts ==
    ASSUME IInv, TypeInv', TaskInv', NEW t \in Tasks, shmat_out(t)
    PROVE  Counts'
<1> USE DEF Goto, nsv, mmv, jobv, dyv, idsv
<1>1. PICK i \in Live : i = ipcid_to_idx(at[t].id)
  BY AtPinned DEF shmat_out, Pinned
<1>2. seg[i].born = at[t].born /\ at[t].born # 0
  BY <1>1, AtPinned DEF shmat_out, Pinned
<1>3. /\ put_attach(t, i, "user") /\ pc[t] = "out_nattch"
      /\ UNCHANGED <<locked_shm, ids, ids_seq, vmas, job, file>>
      /\ at' = [at EXCEPT ![t] = NoAt]
  BY <1>1 DEF shmat_out
<1>4. at \in [Tasks -> [id : Nat, born : Nat, f : Files \cup {NoFile}]]
  BY DEF IInv, TypeInv
<1>5. at'[t].born = 0 /\ \A u \in Tasks \ {t} : at'[u] = at[u]
  BY <1>3, <1>4 DEF NoAt
<1>11. \A b \in Nat \ {0} : Cardinality(Attaching(b))' =
          Cardinality(Attaching(b)) + IF b = at[t].born THEN -1 ELSE 0
  <2>1. \A u \in Tasks \ {t} : at'[u].born = at[u].born
    BY <1>5
  <2> QED BY <1>2, <1>5, <2>1, AttachDown DEF IInv, UseInv
<1>12. \A g \in Files : FileVmas(g)' = FileVmas(g)
  BY <1>3, VmasSame
<1>13. \A b \in Nat : Mappings(b)' = Mappings(b)
  BY <1>3, <1>12, MapsSame DEF IInv
<1>14. \A b \in Nat : Mappings(b) \in Nat /\ Cardinality(Attaching(b)) \in Nat
  BY UsesNat DEF UsesBound, IInv
<1>15. \A b \in Nat \ {0} : Uses(b)' = Uses(b) + IF b = seg[i].born THEN -1 ELSE 0
  BY <1>2, <1>11, <1>13, <1>14 DEF Uses
<1>17. \A u \in Tasks : at'[u].born # 0 => Pinned(at'[u].id, at'[u].born)
  BY <1>5 DEF IInv, UseInv, PinInv
<1>18. \A g \in Files : FileVmas(g)' > 0 => file'[g] # NoFile /\ Pinned(file'[g].id, file'[g].born)
  BY <1>3, <1>12 DEF IInv, UseInv, PinInv
<1> QED BY <1>3, <1>15, <1>17, <1>18, PutAttachCounts

(* shm_close() takes a vma back.                                           *)
LEMMA CloseCounts ==
    ASSUME IInv, TypeInv', TaskInv', NEW t \in Tasks, shm_close(t)
    PROVE  Counts'
<1> USE DEF Goto, nsv, mmv, jobv, dyv, idsv
<1>1. PICK f \in Files : /\ job[t][f] > 0
                         /\ put_attach(t, ipcid_to_idx(file[f].id), "vm_fput")
                         /\ job' = [job EXCEPT ![t][f] = @ - 1]
  BY DEF shm_close
<1>t. job \in [Tasks -> [Files -> 0 .. MaxFrag]]
  BY DEF IInv, TypeInv
<1>2. job[t][f] \in 0 .. MaxFrag /\ FileVmas(f) \in Nat /\ job[t][f] <= FileVmas(f)
      /\ MaxFrag \in Nat
  BY <1>t, CountsNat, ShmConstants DEF IInv
<1>3. file[f] # NoFile /\ Pinned(file[f].id, file[f].born)
  BY <1>1, <1>2, FilePinned
<1>4. PICK i \in Live : i = ipcid_to_idx(file[f].id)
  BY <1>3 DEF Pinned
<1>5. seg[i].born = file[f].born
  BY <1>3, <1>4 DEF Pinned
<1>6. put_attach(t, i, "vm_fput") /\ pc[t] = "close"
      /\ UNCHANGED <<locked_shm, ids, ids_seq, vmas, file, at>>
  BY <1>1, <1>4 DEF shm_close
<1>7. \A g \in Files : FileVmas(g)' = FileVmas(g) + IF g = f THEN -1 ELSE 0
  BY <1>1, <1>6, JobDown DEF IInv
<1>8. \A b \in Nat \ {0} : Uses(b)' = Uses(b) + IF FileIs(f, b) THEN -1 ELSE 0
  <2>1. PICK d \in Int : d = -1
    OBVIOUS
  <2>2. /\ \A g \in Files : FileVmas(g)' = FileVmas(g) + IF g = f THEN d ELSE 0
        /\ UNCHANGED file /\ \A u \in Tasks : at'[u].born = at[u].born
    BY <1>6, <1>7, <2>1
  <2>3. \A b \in Nat \ {0} : Uses(b)' = Uses(b) + IF FileIs(f, b) THEN d ELSE 0
    BY <2>2, UsesFile DEF IInv, UseInv
  <2> QED BY <2>1, <2>3
<1>9. \A b \in Nat \ {0} : Uses(b)' = Uses(b) + IF b = seg[i].born THEN -1 ELSE 0
  BY <1>3, <1>5, <1>8 DEF FileIs
<1>10. \A u \in Tasks : at'[u].born # 0 => Pinned(at'[u].id, at'[u].born)
  BY <1>6 DEF IInv, UseInv, PinInv
<1>11. \A g \in Files : FileVmas(g)' > 0 => file'[g] # NoFile /\ Pinned(file'[g].id, file'[g].born)
  <2>1. \A g \in Files : FileVmas(g) \in Nat
    BY CountsNat DEF IInv
  <2>2. \A g \in Files : FileVmas(g)' > 0 => FileVmas(g) > 0
    BY <1>7, <2>1
  <2> QED BY <1>6, <2>2 DEF IInv, UseInv, PinInv
<1> QED BY <1>6, <1>9, <1>10, <1>11, PutAttachCounts

(* IPC_RMID dooms a segment in use and destroys one that is not.           *)
LEMMA RmidCounts ==
    ASSUME IInv, TypeInv', TaskInv', NEW t \in Tasks, NEW id \in Nat, shmctl_rmid(t, id)
    PROVE  Counts'
<1> USE DEF Goto, nsv, mmv, jobv, dyv, idsv
<1>1. PICK i \in Live : i = ipcid_to_idx(id)
  BY CheckedId DEF shmctl_rmid
<1>2. do_shm_rmid(t, i) /\ pc[t] = "user"
      /\ UNCHANGED <<locked_shm, ids, ids_seq, vmas, job, file, at>>
  BY <1>1 DEF shmctl_rmid
<1>3. OnlySlot(i)
  BY <1>2, RmidSlot DEF IInv
<1>u. SameUse
  BY <1>2, VmasSame DEF SameUse
<1>n. seg[i].nattch \in Nat /\ i \in Index
  <2>1. UsesBound
    BY UsesNat DEF IInv
  <2>2. ids \in Seq(Nat) /\ seg \in [Index -> SegmentRecord \cup {NoSeg}]
    BY DEF IInv, TypeInv
  <2>3. seg[i].born \in Nat
    BY <2>2 DEF Live, SegmentRecord
  <2> QED BY <2>1, <2>3 DEF UsesBound, IInv, UseInv, AttachCount, Live
<1>4. CASE /\ seg[i].nattch > 0
           /\ seg'[i] # NoSeg /\ seg'[i].nattch = seg[i].nattch /\ seg'[i].born = seg[i].born
           /\ seg'[i] = [seg[i] EXCEPT !.mode = @ \cup {"DEST"}, !.key = IPC_PRIVATE]
           /\ UNCHANGED <<in_use, shm_tot, dying>>
  <2>1. Doomed(i)
    BY <1>2, <1>3, <1>4 DEF Doomed
  <2>2. TableInv'
    BY <2>1, DoomedTable DEF IInv
  <2>3. SegsKept
    BY <1>3, <1>4, <1>n DEF SegsKept, OnlySlot, Live
  <2> QED BY <1>u, <2>2, <2>3, SteadyUsers DEF Counts, TableInv
<1>5. CASE ~(seg[i].nattch > 0) /\ Destroyed(t, i, "user")
  <2>1. dying[t] = NoSeg /\ dying \in [Tasks -> SegmentRecord \cup {NoSeg}]
    BY <1>2 DEF IInv, UseInv, TaskInv, TaskAt, TypeInv
  <2>2. Removed(t, i)
    BY <1>2, <1>3, <1>5, <2>1, ShmConstants DEF Removed, Destroyed
  <2>3. TableInv'
    BY <2>2, RemovedTable DEF IInv
  <2>4. SegsKept
    BY <1>3, <1>5, <1>n DEF SegsKept, OnlySlot, Live, Destroyed
  <2> QED BY <1>u, <2>3, <2>4, SteadyUsers DEF Counts, TableInv
<1> QED BY <1>2, <1>4, <1>5, RmidSlot DEF IInv

(* Every step keeps the table in order and the counts right.               *)
LEMMA CountsStep ==
    ASSUME IInv, [Next]_vars, TypeInv', TaskInv'
    PROVE  Counts'
<1> USE DEF Goto, nsv, mmv, jobv, dyv, idsv
<1>t. /\ file \in [Files -> FileRecord \cup {NoFile}]
      /\ at \in [Tasks -> [id : Nat, born : Nat, f : Files \cup {NoFile}]]
      /\ cur \in [Tasks -> Files \cup {NoFile}] /\ may \in Scenarios
  BY DEF IInv, TypeInv
<1>i. \A id \in ShmIds : id \in Nat
  BY IdParts, ShmConstants DEF ShmIds
<1>v. UNCHANGED <<vmas, job, file, at>> => SameUse
  BY VmasSame DEF SameUse
<1>s. CASE UNCHANGED vars
  BY <1>s, <1>v, QuietCounts DEF vars
<1> SUFFICES ASSUME NEW t \in Tasks, Call(t) \/ Step(t), UNCHANGED may PROVE Counts'
  BY <1>s DEF Next, Stopped
<1>1. ASSUME NEW key \in Keys \cup {IPC_PRIVATE}, NEW size \in may.sizes, NEW huge \in may.huge,
             shmget(t, key, size, huge)
      PROVE  Counts'
  <2>1. size \in Nat /\ huge \in BOOLEAN
    BY <1>t, ShmConstants
  <2>2. TableInv'
    BY <1>1, <2>1, CreateTable DEF IInv
  <2>3. SegInv'
    BY <2>2 DEF TableInv
  <2> QED BY <1>1, <2>1, <2>2, <2>3, CreatedUsers DEF Counts
<1>2. ASSUME NEW id \in ShmIds, shmctl_rmid(t, id) PROVE Counts'
  BY <1>2, <1>i, RmidCounts
<1>3. ASSUME NEW id \in ShmIds, shmctl_lock(t, id) \/ shmctl_unlock(t, id) PROVE Counts'
  <2>1. Relocked(ipcid_to_idx(id))
    BY <1>3, <1>i, LockSlot, UnlockSlot DEF IInv
  <2>2. PICK i \in Live : i = ipcid_to_idx(id) /\ Relocked(i)
    BY <2>1 DEF Relocked
  <2>3. TableInv'
    BY <2>2, RelockedTable DEF IInv
  <2>4. SegsKept
    BY <2>2 DEF Relocked, SegsKept, OnlySlot, Live
  <2>5. SameUse
    BY <1>3, <1>v DEF shmctl_lock, shmctl_unlock
  <2> QED BY <2>3, <2>4, <2>5, SteadyUsers DEF Counts, TableInv
<1>5. ASSUME NEW id \in ShmIds, shmat_find(t, id) PROVE Counts'
  BY <1>5, <1>i, FindCounts
<1>6. ASSUME NEW m, NEW v, NEW next, Unmapping(t, m, v, next),
             UNCHANGED <<idsv, ids_seq, locked_shm, file, at, dying, ids>>
      PROVE  Counts'
  <2>1. \A g \in Files : FileVmas(g)' = FileVmas(g)
    <3>1. /\ m \in Mms /\ v \in [Files -> Int] /\ job[t] = NoJob
          /\ vmas' = [vmas EXCEPT ![m] = [f \in Files |-> @[f] - v[f]]]
          /\ job' = [job EXCEPT ![t] = v]
        BY <1>6 DEF Unmapping, Unmap
    <3> QED BY <3>1, VmasMove DEF IInv
  <2>2. SameUse
    BY <1>6, <2>1 DEF SameUse
  <2> QED BY <1>6, <2>2, QuietCounts
<1>7. ASSUME NEW f \in Files, NEW n \in 1 .. vmas[MmOf[t]][f], munmap(t, f, n) PROVE Counts'
  <2>1. Unmapping(t, MmOf[t], [NoJob EXCEPT ![f] = n], pc[t])
    BY <1>7, MunmapIs
  <2>2. UNCHANGED <<idsv, ids_seq, locked_shm, file, at, dying, ids>>
    BY <1>7 DEF munmap
  <2> QED BY <1>6, <2>1, <2>2
<1>8. CASE fork_nomem(t)
  <2>1. Unmapping(t, MmOf[child[t]], vmas[MmOf[child[t]]], "user")
    BY <1>8, NomemIs
  <2>2. UNCHANGED <<idsv, ids_seq, locked_shm, file, at, dying, ids>>
    BY <1>8 DEF fork_nomem
  <2> QED BY <1>6, <2>1, <2>2
<1>9. CASE exit_mm(t)
  <2>1. PICK v : Unmapping(t, MmOf[t], v, "exit_ns")
    BY <1>9, ExitIs
  <2>2. UNCHANGED <<idsv, ids_seq, locked_shm, file, at, dying, ids>>
    BY <1>9 DEF exit_mm
  <2> QED BY <1>6, <2>1, <2>2
<1>11. ASSUME NEW f \in Files, split_vma(t, f) PROVE Counts'
  BY <1>11, SplitOpens, OpenedCounts
<1>12. CASE shmat_map(t)
  BY <1>12, MapOpens, OpenedCounts
<1>13. CASE dup_mmap(t)
  BY <1>13, DupOpens, OpenedCounts
<1>14. ASSUME NEW c \in Tasks, fork(t, c) PROVE Counts'
  BY <1>14, <1>v, QuietCounts DEF fork
<1>15. CASE unshare(t)
  <2>1. at[t].born = 0
    BY <1>15 DEF IInv, UseInv, TaskInv, TaskAt, Closing, unshare
  <2>2. UNCHANGED <<seg, in_use, shm_tot, locked_shm>> \/ NsPut
    BY <1>15, <2>1, LeaveEffect DEF unshare
  <2>3. SameUse /\ UNCHANGED <<dying, ids, ids_seq>>
    BY <1>15, <1>v DEF unshare
  <2> QED BY <2>2, <2>3, QuietCounts, PutCounts
<1>16. CASE exit_ns(t)
  <2>1. at[t].born = 0
    BY <1>16 DEF IInv, UseInv, TaskInv, TaskAt, Closing, exit_ns
  <2>2. UNCHANGED <<seg, in_use, shm_tot, locked_shm>> \/ NsPut
    BY <1>16, <2>1, LeaveEffect DEF exit_ns
  <2>3. SameUse /\ UNCHANGED <<dying, ids, ids_seq>>
    BY <1>16, <1>v DEF exit_ns
  <2> QED BY <2>2, <2>3, QuietCounts, PutCounts
<1>17. CASE shmat_alloc(t)
  <2>1. PICK f \in Files :
          /\ file[f] = NoFile
          /\ file' = [file EXCEPT ![f] = [id |-> shm_lock(at[t].id).id, born |-> at[t].born]]
          /\ at' = [at EXCEPT ![t].f = f]
    BY <1>17 DEF shmat_alloc
  <2>2. FileVmas(f) = 0
    <3>1. FileVmas(f) \in Nat
        BY CountsNat DEF IInv
    <3> QED BY <2>1, <3>1 DEF IInv, UseInv, PinInv
  <2>3. \A g \in Files : FileVmas(g)' = FileVmas(g)
    BY <1>17, VmasSame DEF shmat_alloc
  <2>4. \A g \in Files : file'[g] = file[g] \/ FileVmas(g) = 0
    BY <1>t, <2>1, <2>2
  <2>5. \A u \in Tasks : at'[u].born = at[u].born /\ at'[u].id = at[u].id
    BY <1>t, <2>1
  <2>6. SameUse
    BY <2>3, <2>4, <2>5 DEF SameUse
  <2> QED BY <1>17, <2>6, QuietCounts DEF shmat_alloc
<1>18. CASE shmat_nomem(t) \/ shmat_nomap(t) \/ fork_end(t)
  BY <1>18, <1>v, QuietCounts DEF shmat_nomem, shmat_nomap, fork_end
<1>19. ASSUME NEW f \in Files, cur[t] = f \/ at[t].f = f, fput(f), UNCHANGED <<vmas, job>>,
              UNCHANGED <<dying, ids, ids_seq>>,
              \A u \in Tasks : at'[u].born = at[u].born /\ at'[u].id = at[u].id
       PROVE  Counts'
  <2>1. \A g \in Files : FileVmas(g)' = FileVmas(g)
    BY <1>19, VmasSame
  <2>2. CASE Kept
    BY <1>19, <2>1, <2>2, QuietCounts DEF Kept, SameUse
  <2>3. CASE NsPut /\ file' = [file EXCEPT ![f] = NoFile] /\ FileVmas(f) = 0
    <3>1. \A g \in Files : file'[g] = file[g] \/ FileVmas(g) = 0
        BY <1>t, <2>3
    <3>2. SameUse
        BY <1>19, <2>1, <3>1 DEF SameUse
    <3> QED BY <1>19, <2>3, <3>2, PutCounts
  <2> QED BY <1>19, <2>2, <2>3, FputEffect
<1>20. CASE shmat_fput(t)
  <2>1. PICK f \in Files : f = at[t].f
    BY <1>20, MapPinned DEF shmat_fput
  <2>2. fput(f) /\ at' = [at EXCEPT ![t].f = NoFile] /\ UNCHANGED <<vmas, job, dying, ids, ids_seq>>
    BY <1>20, <2>1 DEF shmat_fput
  <2>3. \A u \in Tasks : at'[u].born = at[u].born /\ at'[u].id = at[u].id
    BY <1>t, <2>2
  <2> QED BY <1>19, <2>1, <2>2, <2>3
<1>21. CASE vm_fput(t)
  <2>1. PICK f \in Files : f = cur[t]
    BY <1>21, <1>t DEF vm_fput, IInv, UseInv, TaskInv, TaskAt, Closing
  <2>2. fput(f) /\ UNCHANGED <<vmas, job, dying, ids, ids_seq, at>>
    BY <1>21, <2>1 DEF vm_fput
  <2> QED BY <1>19, <2>1, <2>2
<1>22. CASE shmat_out(t)
  BY <1>22, OutCounts
<1>23. CASE shm_close(t)
  BY <1>23, CloseCounts
<1>25. CASE shm_destroy_end(t)
  <2>1. TableInv'
    BY <1>25, FinishedTable DEF IInv
  <2>2. UNCHANGED <<seg, vmas, job, file, at>>
    BY <1>25 DEF shm_destroy_end
  <2>3. SegsKept
    BY <2>2 DEF SegsKept, Live
  <2> QED BY <1>v, <2>1, <2>2, <2>3, SteadyUsers DEF Counts, TableInv
<1> QED BY <1>1, <1>2, <1>3, <1>5, <1>7, <1>8, <1>9, <1>11, <1>12, <1>13, <1>14, <1>15, <1>16,
       <1>17, <1>18, <1>20, <1>21, <1>22, <1>23, <1>25 DEF Call, Step

(* Files and the references to the namespace.                              *)
FilesInv ==
    /\ \A t \in Tasks : at[t].f # NoFile =>
          /\ file[at[t].f] # NoFile /\ file[at[t].f].born = at[t].born
          /\ ipcid_to_idx(file[at[t].f].id) = ipcid_to_idx(at[t].id)
    /\ \A t \in Tasks : cur[t] # NoFile => file[cur[t]] # NoFile
    /\ \A f \in Files : file[f] # NoFile => file[f].born \in 1 .. Len(ids)

(* Steps that make and free no file.                                       *)
LEMMA FilesKept ==
    ASSUME FilesInv, UNCHANGED <<file, nscount>>, NsInv, Len(ids) \in Nat, Len(ids)' \in Nat,
           Len(ids) <= Len(ids)', nscount \in Int,
           \A u \in Tasks : at'[u].f # NoFile => at'[u] = at[u],
           \A u \in Tasks : cur'[u] # NoFile => file[cur'[u]] # NoFile,
           members = {} <=> members' = {},
           Live # {} \/ members # {} \/ UNCHANGED seg
    PROVE  FilesInv' /\ NsInv'
<1>1. \A t \in Tasks : at'[t].f # NoFile =>
          /\ file'[at'[t].f] # NoFile /\ file'[at'[t].f].born = at'[t].born
          /\ ipcid_to_idx(file'[at'[t].f].id) = ipcid_to_idx(at'[t].id)
  BY DEF FilesInv
<1>2. \A f \in Files : file'[f] # NoFile => file'[f].born \in 1 .. Len(ids)'
  BY DEF FilesInv
<1>3. FilesInv'
  BY <1>1, <1>2 DEF FilesInv, ipcid_to_idx
<1>4. PICK n : n = Cardinality({f \in Files : file[f] # NoFile})
  OBVIOUS
<1>5. n \in Nat
  BY <1>4, OpenFinite DEF Open
<1>6. nscount' = n + IF members' = {} THEN 0 ELSE 1
  BY <1>4 DEF NsInv
<1>7. nscount' = 0 => Live' = {}
  <2> SUFFICES ASSUME nscount = 0 PROVE Live' = {}
    OBVIOUS
  <2>1. Live = {} /\ members = {}
    BY <1>4, <1>5 DEF NsInv
  <2>2. UNCHANGED seg
    BY <2>1
  <2> QED BY <2>1, <2>2 DEF Live
<1> QED BY <1>3, <1>4, <1>6, <1>7 DEF NsInv

(* The last reference to a file goes, and its reference to the namespace.  *)
LEMMA FputFiles ==
    ASSUME IInv, FilesInv, NEW t \in Tasks, NEW f \in Files, cur[t] = f \/ at[t].f = f, fput(f),
           UNCHANGED <<members, ids>>,
           \A u \in Tasks : at'[u].f # NoFile => at'[u] = at[u],
           \A u \in Tasks : cur'[u] # NoFile => cur'[u] = cur[u],
           cur[t] = f => cur'[t] = NoFile,
           at[t].f = f => at'[t].f = NoFile
    PROVE  FilesInv' /\ NsInv'
<1>t. /\ file \in [Files -> FileRecord \cup {NoFile}] /\ nscount \in Int /\ ids \in Seq(Nat)
      /\ NoFile \notin Files
  BY ShmConstants DEF IInv, TypeInv
<1>l. Len(ids) \in Nat
  BY <1>t
<1>n. NsInv
  BY DEF IInv, UseInv
<1>1. CASE Kept
  <2>1. \A u \in Tasks : cur'[u] # NoFile => file[cur'[u]] # NoFile
    BY DEF FilesInv
  <2> QED BY <1>1, <1>l, <1>n, <1>t, <2>1, FilesKept DEF Kept
<1>2. CASE /\ NsPut
           /\ file' = [file EXCEPT ![f] = NoFile] /\ file[f] # NoFile
           /\ \A u \in Tasks : cur[u] = f => u = t /\ at[t].f # f
           /\ \A u \in Tasks : at[u].f = f => u = t /\ cur[t] # f
  <2>1. \A u \in Tasks : at'[u].f # NoFile => at'[u] = at[u] /\ at'[u].f # f
    BY <1>2
  <2>2. \A u \in Tasks : cur'[u] # NoFile => cur'[u] = cur[u] /\ cur'[u] # f
    BY <1>2
  <2>3. /\ \A g : g # f => file'[g] = file[g]
        /\ file'[f] = NoFile
    BY <1>2, <1>t
  <2>4. FilesInv'
    <3>1. \A u \in Tasks : at'[u].f # NoFile =>
            /\ file'[at'[u].f] # NoFile /\ file'[at'[u].f].born = at'[u].born
            /\ ipcid_to_idx(file'[at'[u].f].id) = ipcid_to_idx(at'[u].id)
        BY <2>1, <2>3 DEF FilesInv
    <3>2. \A u \in Tasks : cur'[u] # NoFile => file'[cur'[u]] # NoFile
        BY <2>2, <2>3 DEF FilesInv
    <3>3. \A g \in Files : file'[g] # NoFile => file'[g].born \in 1 .. Len(ids)'
        BY <2>3 DEF FilesInv
    <3> QED BY <3>1, <3>2, <3>3 DEF FilesInv, ipcid_to_idx
  <2>5. PICK A, B : A = Open /\ B = Open'
    OBVIOUS
  <2>6. B = A \ {f} /\ f \in A
    BY <1>2, <2>3, <2>5 DEF Open
  <2>7. IsFiniteSet(A) /\ Cardinality(A) \in Nat
    BY <2>5, OpenFinite
  <2>8. Cardinality(B) = Cardinality(A) - 1
    BY <2>6, <2>7, FS_RemoveElement
  <2>9. /\ nscount = Cardinality(A) + (IF members = {} THEN 0 ELSE 1)
        /\ nscount' = Cardinality(B) + (IF members' = {} THEN 0 ELSE 1)
    <3>1. nscount = Cardinality(A) + (IF members = {} THEN 0 ELSE 1)
        BY <1>n, <2>5 DEF NsInv, Open
    <3> QED BY <1>2, <2>7, <2>8, <3>1 DEF NsPut
  <2>10. nscount' = 0 => Live' = {}
    BY <1>2, <1>t DEF NsPut, Live
  <2> QED BY <2>4, <2>5, <2>9, <2>10 DEF NsInv, Open
<1> QED BY <1>1, <1>2, FputEffect

(* A task leaves the namespace.                                            *)
LEMMA LeaveFiles ==
    ASSUME IInv, FilesInv, NEW t \in Tasks, at[t].born = 0, LeaveNs(t),
           UNCHANGED <<at, cur, file, ids>>
    PROVE  FilesInv' /\ NsInv'
<1>t. /\ nscount \in Int /\ ids \in Seq(Nat) /\ members \subseteq Tasks
  BY DEF IInv, TypeInv
<1>l. Len(ids) \in Nat
  BY <1>t
<1>n. NsInv
  BY DEF IInv, UseInv
<1>0. members' = members \ {t}
  BY LeaveEffect
<1>1. CASE UNCHANGED <<nscount, seg>> /\ members # {t}
  <2>1. members = {} <=> members' = {}
    BY <1>0, <1>1
  <2>2. \A u \in Tasks : cur'[u] # NoFile => file[cur'[u]] # NoFile
    BY DEF FilesInv
  <2> QED BY <1>1, <1>l, <1>n, <1>t, <2>1, <2>2, FilesKept
<1>2. CASE members = {t} /\ NsPut
  <2>1. FilesInv'
    BY DEF FilesInv, ipcid_to_idx
  <2>2. members' = {} /\ nscount' = nscount - 1
    BY <1>0, <1>2 DEF NsPut
  <2>3. PICK n : n = Cardinality({f \in Files : file[f] # NoFile})
    OBVIOUS
  <2>4. n \in Nat
    BY <2>3, OpenFinite DEF Open
  <2>5. nscount = n + 1
    BY <1>2, <1>n, <2>3 DEF NsInv
  <2>6. nscount' = n /\ n = Cardinality({f \in Files : file'[f] # NoFile})
    BY <2>2, <2>3, <2>4, <2>5
  <2>7. nscount' = 0 => Live' = {}
    BY <1>2, <1>t DEF NsPut, Live
  <2> QED BY <2>1, <2>2, <2>4, <2>6, <2>7 DEF NsInv
<1> QED BY <1>1, <1>2, LeaveEffect

(* do_shmat() makes a file.                                                *)
LEMMA AllocFiles ==
    ASSUME IInv, FilesInv, NEW t \in Tasks, shmat_alloc(t)
    PROVE  FilesInv' /\ NsInv'
<1> USE DEF Goto, nsv, mmv, jobv, dyv, idsv
<1>t. /\ file \in [Files -> FileRecord \cup {NoFile}] /\ nscount \in Int /\ ids \in Seq(Nat)
      /\ at \in [Tasks -> [id : Nat, born : Nat, f : Files \cup {NoFile}]]
      /\ seg \in [Index -> SegmentRecord \cup {NoSeg}]
      /\ NoFile \notin Files /\ NoFile \notin FileRecord
  BY ShmConstants DEF IInv, TypeInv
<1>n. NsInv
  BY DEF IInv, UseInv
<1>1. PICK f \in Files :
          /\ file[f] = NoFile
          /\ file' = [file EXCEPT ![f] = [id |-> shm_lock(at[t].id).id, born |-> at[t].born]]
          /\ at' = [at EXCEPT ![t].f = f]
  BY DEF shmat_alloc
<1>2. pc[t] = "alloc" /\ nscount' = nscount + 1 /\ UNCHANGED <<members, cur, ids, seg>>
  BY DEF shmat_alloc, get_ipc_ns
<1>3. at[t].born # 0 /\ Pinned(at[t].id, at[t].born) /\ at[t].born \in Nat /\ t \in members
  BY <1>2, AtPinned
<1>4. PICK i \in Live : i = ipcid_to_idx(at[t].id)
  BY <1>3 DEF Pinned
<1>5. /\ seg[i].born = at[t].born /\ seg[i].id \in Nat /\ ipcid_to_idx(seg[i].id) = i
      /\ seg[i].born \in 1 .. Len(ids) /\ shm_lock(at[t].id) = seg[i]
  <2>1. seg[i] \in SegmentRecord /\ i \in Index /\ seg[i] # NoSeg
    BY <1>t DEF Live
  <2>2. seg[i].id \in Nat
    BY <2>1 DEF SegmentRecord
  <2> QED BY <1>3, <1>4, <2>1, <2>2 DEF Pinned, shm_lock, IInv, TableInv, SlotInv, SegInv, Created
<1>6. PICK r \in FileRecord : r = [id |-> seg[i].id, born |-> at[t].born]
  BY <1>3, <1>5 DEF FileRecord
<1>7. /\ file' = [file EXCEPT ![f] = r] /\ r # NoFile /\ r.born = at[t].born
      /\ ipcid_to_idx(r.id) = ipcid_to_idx(at[t].id) /\ r.born \in 1 .. Len(ids)
  BY <1>1, <1>4, <1>5, <1>6, <1>t
<1>8. /\ file'[f] = r /\ \A g : g # f => file'[g] = file[g]
      /\ at'[t].f = f /\ at'[t].id = at[t].id /\ at'[t].born = at[t].born
      /\ \A u \in Tasks \ {t} : at'[u] = at[u]
  BY <1>1, <1>7, <1>t
<1>9. FilesInv'
  <2>1. \A u \in Tasks : at'[u].f # NoFile =>
          /\ file'[at'[u].f] # NoFile /\ file'[at'[u].f].born = at'[u].born
          /\ ipcid_to_idx(file'[at'[u].f].id) = ipcid_to_idx(at'[u].id)
    <3> SUFFICES ASSUME NEW u \in Tasks, at'[u].f # NoFile
                 PROVE  /\ file'[at'[u].f] # NoFile /\ file'[at'[u].f].born = at'[u].born
                        /\ ipcid_to_idx(file'[at'[u].f].id) = ipcid_to_idx(at'[u].id)
        OBVIOUS
    <3>1. CASE u = t
        BY <1>7, <1>8, <3>1
    <3>2. CASE u # t
        BY <1>1, <1>8, <3>2 DEF FilesInv
    <3> QED BY <3>1, <3>2
  <2>2. \A u \in Tasks : cur'[u] # NoFile => file'[cur'[u]] # NoFile
    BY <1>2, <1>7, <1>8 DEF FilesInv
  <2>3. \A g \in Files : file'[g] # NoFile => file'[g].born \in 1 .. Len(ids)'
    BY <1>2, <1>7, <1>8 DEF FilesInv
  <2> QED BY <2>1, <2>2, <2>3 DEF FilesInv, ipcid_to_idx
<1>10. PICK A, B : A = Open /\ B = Open'
  OBVIOUS
<1>11. B = A \cup {f} /\ f \notin A
  BY <1>1, <1>7, <1>8, <1>10 DEF Open
<1>12. IsFiniteSet(A) /\ Cardinality(A) \in Nat
  BY <1>10, OpenFinite
<1>13. Cardinality(B) = Cardinality(A) + 1
  BY <1>11, <1>12, FS_AddElement
<1>14. nscount = Cardinality(A) + 1 /\ members # {}
  BY <1>3, <1>10, <1>n DEF NsInv, Open
<1>15. nscount' = Cardinality(B) + 1 /\ members' # {} /\ nscount' # 0
  BY <1>2, <1>12, <1>13, <1>14
<1> QED BY <1>9, <1>10, <1>15 DEF NsInv, Open

(* Every step keeps one reference to the namespace for each file and one   *)
(* for the members.                                                        *)
LEMMA FilesStep ==
    ASSUME IInv, [Next]_vars, TypeInv'
    PROVE  FilesInv' /\ NsInv'
<1> USE DEF Goto, nsv, mmv, jobv, dyv, idsv
<1>q. ids \in Seq(Nat) /\ ids' \in Seq(Nat)
  BY DEF IInv, TypeInv
<1>t. /\ file \in [Files -> FileRecord \cup {NoFile}] /\ nscount \in Int
      /\ at \in [Tasks -> [id : Nat, born : Nat, f : Files \cup {NoFile}]]
      /\ cur \in [Tasks -> Files \cup {NoFile}] /\ Len(ids) \in Nat /\ Len(ids)' \in Nat
      /\ NoFile \notin Files /\ job \in [Tasks -> [Files -> 0 .. MaxFrag]]
  <2>1. Len(ids) \in Nat /\ Len(ids)' \in Nat
    BY <1>q
  <2> QED BY <2>1, ShmConstants DEF IInv, TypeInv
<1>n. FilesInv /\ NsInv
  BY DEF IInv, UseInv, PinInv, FilesInv
<1>c. \A u \in Tasks : cur[u] # NoFile => file[cur[u]] # NoFile
  BY <1>n DEF FilesInv
<1>k. ASSUME UNCHANGED <<file, nscount, ids, at, cur>>, members = {} <=> members' = {},
             Live # {} \/ UNCHANGED seg
      PROVE  FilesInv' /\ NsInv'
  BY <1>k, <1>c, <1>n, <1>t, FilesKept
<1>s. CASE UNCHANGED vars
  BY <1>k, <1>s DEF vars
<1> SUFFICES ASSUME NEW t \in Tasks, Call(t) \/ Step(t), UNCHANGED may PROVE FilesInv' /\ NsInv'
  BY <1>s DEF Next, Stopped
<1>1. ASSUME NEW key \in Keys \cup {IPC_PRIVATE}, NEW size \in may.sizes, NEW huge \in may.huge,
             shmget(t, key, size, huge)
      PROVE  FilesInv' /\ NsInv'
  <2>1. size \in Nat /\ huge \in BOOLEAN
    BY ShmConstants DEF IInv, TypeInv
  <2>2. PICK x : x \in Nat /\ ids' = Append(ids, x)
    BY <1>1, <2>1, CreateSlot DEF IInv
  <2>3. Len(ids)' = Len(ids) + 1
    BY <1>q, <2>2
  <2>4. t \in members /\ UNCHANGED <<file, nscount, members, at, cur>>
    BY <1>1 DEF shmget
  <2> QED BY <1>c, <1>n, <1>t, <2>3, <2>4, FilesKept
<1>2. ASSUME NEW id \in ShmIds,
             shmctl_rmid(t, id) \/ shmctl_lock(t, id) \/ shmctl_unlock(t, id)
      PROVE  FilesInv' /\ NsInv'
  <2>1. Live # {}
    BY <1>2, CheckedId DEF shmctl_rmid, shmctl_lock, shmctl_unlock
  <2> QED BY <1>2, <1>k, <2>1 DEF shmctl_rmid, shmctl_lock, shmctl_unlock
<1>5. ASSUME NEW id \in ShmIds, shmat_find(t, id) PROVE FilesInv' /\ NsInv'
  <2>1. Live # {}
    BY <1>5, CheckedId DEF shmat_find
  <2>2. /\ UNCHANGED <<file, nscount, ids, members, cur>>
        /\ \E b : at' = [at EXCEPT ![t] = [id |-> id, born |-> b, f |-> NoFile]]
    BY <1>5 DEF shmat_find
  <2>3. \A u \in Tasks : at'[u].f # NoFile => at'[u] = at[u]
    BY <1>t, <2>2
  <2> QED BY <1>c, <1>n, <1>t, <2>1, <2>2, <2>3, FilesKept
<1>7. ASSUME NEW f \in Files, NEW n \in 1 .. vmas[MmOf[t]][f], munmap(t, f, n)
      PROVE  FilesInv' /\ NsInv'
  BY <1>7, <1>k DEF munmap
<1>8. CASE fork_nomem(t) \/ exit_mm(t) \/ shmat_nomem(t) \/ shmat_nomap(t) \/ shm_destroy_end(t)
  BY <1>8, <1>k DEF fork_nomem, exit_mm, shmat_nomem, shmat_nomap, shm_destroy_end
<1>9. ASSUME NEW f, NEW m, Opened(f, m) PROVE FilesInv' /\ NsInv'
  <2>1. Live # {}
    BY <1>9 DEF Opened, Pinned
  <2> QED BY <1>9, <1>k, <2>1 DEF Opened
<1>11. ASSUME NEW f \in Files, split_vma(t, f) PROVE FilesInv' /\ NsInv'
  BY <1>9, <1>11, SplitOpens
<1>12. CASE shmat_map(t)
  BY <1>9, <1>12, MapOpens
<1>13. CASE dup_mmap(t)
  BY <1>9, <1>13, DupOpens
<1>14. ASSUME NEW c \in Tasks, fork(t, c) PROVE FilesInv' /\ NsInv'
  BY <1>14, <1>k DEF fork
<1>15. CASE unshare(t)
  <2>1. at[t].born = 0
    BY <1>15 DEF IInv, UseInv, TaskInv, TaskAt, Closing, unshare
  <2> QED BY <1>15, <1>n, <2>1, LeaveFiles DEF unshare
<1>16. CASE exit_ns(t)
  <2>1. at[t].born = 0
    BY <1>16 DEF IInv, UseInv, TaskInv, TaskAt, Closing, exit_ns
  <2> QED BY <1>16, <1>n, <2>1, LeaveFiles DEF exit_ns
<1>17. CASE shmat_alloc(t)
  BY <1>17, <1>n, AllocFiles
<1>18. CASE fork_end(t)
  <2>1. members = {} <=> members' = {}
    BY <1>18 DEF fork_end
  <2> QED BY <1>18, <1>k, <2>1 DEF fork_end
<1>20. CASE shmat_fput(t)
  <2>1. PICK f \in Files : f = at[t].f
    BY <1>20, MapPinned DEF shmat_fput
  <2>2. fput(f) /\ at' = [at EXCEPT ![t].f = NoFile] /\ UNCHANGED <<members, ids, cur>>
        /\ pc[t] = "fput"
    BY <1>20, <2>1 DEF shmat_fput
  <2>3. at'[t].f = NoFile /\ \A u \in Tasks \ {t} : at'[u] = at[u]
    BY <1>t, <2>2
  <2>4. cur[t] = NoFile
    BY <2>2 DEF IInv, UseInv, TaskInv, TaskAt, Closing
  <2> QED BY <1>n, <1>t, <2>1, <2>2, <2>3, <2>4, FputFiles
<1>21. CASE vm_fput(t)
  <2>1. PICK f \in Files : f = cur[t]
    BY <1>21, <1>t DEF vm_fput, IInv, UseInv, TaskInv, TaskAt, Closing
  <2>2. fput(f) /\ UNCHANGED <<members, ids, at>> /\ cur' = [cur EXCEPT ![t] = NoFile]
    BY <1>21, <2>1 DEF vm_fput
  <2>3. CASE Kept
    <3>1. UNCHANGED <<file, nscount, seg>>
        BY <2>3 DEF Kept
    <3>2. \A u \in Tasks : cur'[u] # NoFile => file[cur'[u]] # NoFile
        BY <1>c, <1>t, <2>2
    <3> QED BY <1>n, <1>t, <2>2, <3>1, <3>2, FilesKept
  <2>4. CASE ~Kept
    <3>1. at[t].f # f
        BY <2>1, <2>2, <2>4, FputEffect
    <3>2. cur'[t] = NoFile /\ \A u \in Tasks \ {t} : cur'[u] = cur[u]
        BY <1>t, <2>2
    <3> QED BY <1>n, <2>1, <2>2, <3>1, <3>2, FputFiles
  <2> QED BY <2>3, <2>4
<1>22. CASE shmat_out(t)
  <2>1. Live # {}
    BY <1>22, AtPinned DEF shmat_out, Pinned
  <2>2. UNCHANGED <<file, nscount, ids, members, cur>> /\ at' = [at EXCEPT ![t] = NoAt]
    BY <1>22 DEF shmat_out
  <2>3. \A u \in Tasks : at'[u].f # NoFile => at'[u] = at[u]
    BY <1>t, <2>2 DEF NoAt
  <2> QED BY <1>c, <1>n, <1>t, <2>1, <2>2, <2>3, FilesKept
<1>23. CASE shm_close(t)
  <2>1. PICK f \in Files : job[t][f] > 0 /\ cur' = [cur EXCEPT ![t] = f]
    BY <1>23 DEF shm_close
  <2>2. job[t][f] \in 0 .. MaxFrag /\ FileVmas(f) \in Nat /\ job[t][f] <= FileVmas(f)
        /\ MaxFrag \in Nat
    BY <1>t, CountsNat, ShmConstants DEF IInv
  <2>3. file[f] # NoFile /\ Live # {}
    BY <2>1, <2>2, FilePinned DEF Pinned
  <2>4. UNCHANGED <<file, nscount, ids, members, at>>
    BY <1>23 DEF shm_close
  <2>5. \A u \in Tasks : cur'[u] # NoFile => file[cur'[u]] # NoFile
    BY <1>c, <1>t, <2>1, <2>3
  <2> QED BY <1>n, <1>t, <2>3, <2>4, <2>5, FilesKept
<1> QED BY <1>1, <1>2, <1>5, <1>7, <1>8, <1>11, <1>12, <1>13, <1>14, <1>15, <1>16,
       <1>17, <1>18, <1>20, <1>21, <1>22, <1>23 DEF Call, Step

-----------------------------------------------------------------------------
(* The invariant holds at the start.                                       *)
LEMMA InitInv == Init => IInv
<1> SUFFICES ASSUME Init PROVE IInv
  OBVIOUS
<1>c. /\ {shm_ctlmax, shm_ctlall, shm_ctlmni, seq_max, MEMLOCK, MaxFrag} \subseteq Nat
      /\ Started \subseteq Tasks /\ NoTask \notin Tasks /\ NoFile \notin Files
      /\ NoSeg \notin SegmentRecord /\ NoFile \notin FileRecord
  BY ShmConstants
<1>e. ids = <<>> /\ Len(ids) = 0 /\ DOMAIN ids = {} /\ ids \in Seq(Nat)
  BY DEF Init
<1>l. Live = {} /\ \A i \in Index : seg[i] = NoSeg
  BY DEF Init, Live
<1>j. NoJob \in [Files -> 0 .. MaxFrag]
  BY <1>c DEF NoJob
<1>a. NoAt \in [id : Nat, born : Nat, f : Files \cup {NoFile}] /\ NoAt.born = 0 /\ NoAt.f = NoFile
  BY DEF NoAt
<1>1. TypeInv
  <2>1. /\ seg \in [Index -> SegmentRecord \cup {NoSeg}]
        /\ dying \in [Tasks -> SegmentRecord \cup {NoSeg}]
        /\ in_use \in Int /\ shm_tot \in Int /\ ids_seq \in 0 .. seq_max
        /\ rw_mutex \in Tasks \cup {NoTask} /\ nscount \in Int /\ members \subseteq Tasks
        /\ locked_shm \in [Users -> Int] /\ may \in Scenarios
    BY <1>c DEF Init
  <2>2. /\ vmas \in [Mms -> [Files -> 0 .. MaxFrag]] /\ mmap_sem \in [Mms -> Tasks \cup {NoTask}]
        /\ job \in [Tasks -> [Files -> 0 .. MaxFrag]] /\ cur \in [Tasks -> Files \cup {NoFile}]
        /\ file \in [Files -> FileRecord \cup {NoFile}]
        /\ child \in [Tasks -> Tasks \cup {NoTask}]
        /\ at \in [Tasks -> [id : Nat, born : Nat, f : Files \cup {NoFile}]]
    BY <1>a, <1>j DEF Init
  <2>3. /\ pc \in [Tasks -> Labels] /\ then \in [Tasks -> {"user", "map", "exit_ns"}]
        /\ ret \in [Tasks -> {"user", "vm_fput"}]
    BY DEF Init, Labels
  <2> QED BY <1>e, <2>1, <2>2, <2>3 DEF TypeInv
<1>2. SegInv /\ SlotInv /\ LockInv /\ KeyInv
  BY <1>l DEF Init, SegInv, Created, SlotInv, LockInv, KeyInv
<1>3. SeqInv
  BY <1>e DEF SeqInv
<1>4. Accounting
  <2>1. WeightSum = 0 /\ Cardinality(Live) = 0
    BY <1>l, NoSums, FS_EmptySet DEF EmptySums
  <2> QED BY <1>c, <2>1 DEF Accounting, WeightSum, Init
<1>5. LockedAccounting
  <2> SUFFICES ASSUME NEW u \in Users PROVE ChargeSum(u) = 0 /\ DyingSum(u) = 0
    BY DEF LockedAccounting, ChargeSum, DyingSum, Init
  <2>1. ChargeSum(u) = 0
    BY <1>l, NoSums DEF EmptySums
  <2>2. DyingSum(u) = 0
    <3>1. PICK g : g = [t \in Tasks |-> Charge(dying[t], u)]
        OBVIOUS
    <3>2. \A t \in Tasks : g[t] = 0 /\ g[t] \in Int
        BY <3>1 DEF Init, Charge
    <3>3. DyingSum(u) = SumFunctionOnSet(g, Tasks)
        BY <3>1, FunSum DEF DyingSum
    <3>4. SumFunctionOnSet(g, Tasks) = SumFunctionOnSet(g, {})
        BY <3>2, Finite, SumSupport
    <3> QED BY <3>3, <3>4, SumEmpty
  <2> QED BY <2>1, <2>2
<1>6. TaskInv
  <2>1. \A t \in Tasks : /\ pc[t] \in {"user", "dead"} /\ then[t] = "user" /\ at[t] = NoAt
                         /\ job[t] = NoJob /\ cur[t] = NoFile /\ dying[t] = NoSeg
    BY DEF Init
  <2> QED BY <1>a, <1>c, <2>1 DEF Init, TaskInv, TaskAt, Closing
<1>7. ForkInv
  BY <1>c DEF Init, ForkInv
<1>8. AttachCount /\ NoDoomedLeft
  BY <1>l DEF AttachCount, NoDoomedLeft
<1>9. PinInv
  <2>1. \A f \in Files : FileVmas(f) = 0
    <3> SUFFICES ASSUME NEW f \in Files PROVE FileVmas(f) = 0
        OBVIOUS
    <3>1. PICK V, J : V = [m \in Mms |-> vmas[m][f]] /\ J = [t \in Tasks |-> job[t][f]]
        OBVIOUS
    <3>2. /\ \A m \in Mms : V[m] = 0 /\ V[m] \in Int
          /\ \A t \in Tasks : J[t] = 0 /\ J[t] \in Int
        BY <3>1 DEF Init, NoJob
    <3>3. FileVmas(f) = SumFunctionOnSet(V, Mms) + SumFunctionOnSet(J, Tasks)
        BY <3>1, FunSum DEF FileVmas
    <3>4. SumFunctionOnSet(V, Mms) = SumFunctionOnSet(V, {})
        BY <3>2, Finite, SumSupport
    <3>5. SumFunctionOnSet(J, Tasks) = SumFunctionOnSet(J, {})
        BY <3>2, Finite, SumSupport
    <3> QED BY <3>3, <3>4, <3>5, SumEmpty
  <2>2. \A t \in Tasks : at[t].born = 0 /\ at[t].f = NoFile /\ cur[t] = NoFile
    BY <1>a DEF Init
  <2>3. \A f \in Files : file[f] = NoFile
    BY DEF Init
  <2> QED BY <2>1, <2>2, <2>3 DEF PinInv
<1>10. NsInv
  <2>1. {f \in Files : file[f] # NoFile} = {}
    BY DEF Init
  <2>2. Cardinality({f \in Files : file[f] # NoFile}) = 0
    BY <2>1, FS_EmptySet
  <2>3. nscount = 1 /\ members # {}
    BY ShmConstants DEF Init
  <2> QED BY <2>2, <2>3 DEF NsInv
<1>11. DyingInv
  BY DEF Init, DyingInv
<1>12. UseInv
  BY <1>6, <1>7, <1>8, <1>9, <1>10, <1>11 DEF UseInv
<1> QED BY <1>1, <1>2, <1>3, <1>4, <1>5, <1>12 DEF IInv, TableInv

(* Only a segment without uses goes into shm_destroy().                    *)
LEMMA DyingStep ==
    ASSUME IInv, [Next]_vars
    PROVE  DyingInv'
<1> USE DEF Goto, nsv, mmv, jobv, dyv, idsv
<1>t. dying \in [Tasks -> SegmentRecord \cup {NoSeg}] /\ DyingInv
  BY DEF IInv, TypeInv, UseInv
<1>s. CASE UNCHANGED dying
  BY <1>s, <1>t DEF DyingInv
<1> SUFFICES ASSUME NEW t \in Tasks, Call(t) \/ Step(t) PROVE DyingInv'
  BY <1>s DEF Next, Stopped, vars
<1>d. ASSUME NEW x, dying' = [dying EXCEPT ![t] = x], x # NoSeg => x.nattch = 0
      PROVE  DyingInv'
  BY <1>d, <1>t DEF DyingInv
<1>1. ASSUME NEW id \in ShmIds, shmctl_rmid(t, id) PROVE DyingInv'
  <2>1. PICK i \in Live : i = ipcid_to_idx(id)
    BY <1>1, CheckedId DEF shmctl_rmid
  <2>2. do_shm_rmid(t, i)
    BY <1>1, <2>1 DEF shmctl_rmid
  <2>3. seg[i].nattch \in Nat
    <3>1. UsesBound
        BY UsesNat DEF IInv
    <3>2. seg[i].born \in Nat
        BY DEF IInv, TypeInv, Live, SegmentRecord
    <3> QED BY <3>1, <3>2 DEF UsesBound, IInv, UseInv, AttachCount
  <2>4. CASE seg[i].nattch > 0
    BY <1>s, <2>2, <2>4 DEF do_shm_rmid
  <2>5. CASE ~(seg[i].nattch > 0)
    <3>1. dying' = [dying EXCEPT ![t] = seg[i]]
        BY <2>2, <2>5 DEF do_shm_rmid, shm_destroy
    <3>2. seg[i].nattch = 0
        BY <2>3, <2>5
    <3> QED BY <1>d, <3>1, <3>2
  <2> QED BY <2>4, <2>5
<1>2. ASSUME NEW i, NEW back, put_attach(t, i, back) PROVE DyingInv'
  <2>1. PICK shp : shp = [seg[i] EXCEPT !.nattch = @ - 1]
    OBVIOUS
  <2>2. CASE shp.nattch = 0 /\ "DEST" \in shp.mode
    <3>1. shm_destroy(t, i, shp, back)
        BY <1>2, <2>1, <2>2 DEF put_attach
    <3> QED BY <1>d, <2>2, <3>1 DEF shm_destroy
  <2>3. CASE ~(shp.nattch = 0 /\ "DEST" \in shp.mode)
    BY <1>2, <1>s, <2>1, <2>3 DEF put_attach
  <2> QED BY <2>2, <2>3
<1>3. CASE shm_destroy_end(t)
  BY <1>3, <1>d DEF shm_destroy_end
<1>4. CASE shmat_out(t)
  BY <1>2, <1>4 DEF shmat_out
<1>5. CASE shm_close(t)
  BY <1>2, <1>5 DEF shm_close
<1>6. ASSUME NEW key, NEW size, NEW huge, shmget(t, key, size, huge) PROVE DyingInv'
  BY <1>6, <1>s DEF shmget
<1>7. ASSUME NEW id, shmctl_lock(t, id) \/ shmctl_unlock(t, id) \/ shmat_find(t, id)
      PROVE  DyingInv'
  BY <1>7, <1>s DEF shmctl_lock, shmctl_unlock, shmat_find
<1>8. ASSUME NEW f, NEW n, munmap(t, f, n) \/ split_vma(t, f) PROVE DyingInv'
  BY <1>8, <1>s DEF munmap, split_vma
<1>9. ASSUME NEW c, fork(t, c) PROVE DyingInv'
  BY <1>9, <1>s DEF fork
<1>10. CASE unshare(t) \/ exit_mm(t) \/ fork_end(t) \/ fork_nomem(t) \/ dup_mmap(t) \/ exit_ns(t)
  BY <1>10, <1>s DEF unshare, exit_mm, fork_end, fork_nomem, dup_mmap, exit_ns
<1>11. CASE \/ shmat_alloc(t) \/ shmat_nomem(t) \/ shmat_map(t) \/ shmat_nomap(t)
            \/ shmat_fput(t) \/ vm_fput(t)
  BY <1>11, <1>s DEF shmat_alloc, shmat_nomem, shmat_map, shmat_nomap, shmat_fput, vm_fput
<1> QED BY <1>1, <1>3, <1>4, <1>5, <1>6, <1>7, <1>8, <1>9, <1>10, <1>11 DEF Call, Step

(* The inductive invariant: the table of segments, the tasks, the counts   *)
(* and the files agree after every step of shm.c.                          *)
THEOREM Inductive == Spec => []IInv
<1>1. IInv /\ [Next]_vars => IInv'
  <2> SUFFICES ASSUME IInv, [Next]_vars PROVE IInv'
    OBVIOUS
  <2>1. TypeInv'
    BY TypeStep
  <2>2. TaskInv'
    BY TaskStep
  <2>3. ForkInv' /\ DyingInv'
    BY ForkStep, DyingStep
  <2>4. TableInv' /\ AttachCount' /\ Pins' /\ NoDoomedLeft'
    BY <2>1, <2>2, CountsStep DEF Counts, UsersInv
  <2>5. FilesInv' /\ NsInv'
    BY <2>1, FilesStep
  <2>6. PinInv'
    BY <2>4, <2>5 DEF Pins, FilesInv, PinInv
  <2> QED BY <2>1, <2>2, <2>3, <2>4, <2>5, <2>6 DEF IInv, UseInv
<1> QED BY <1>1, InitInv, PTL DEF Spec

(* shm_nattch is exact in every state: it counts the vmas of the segment   *)
(* and the calls of do_shmat() on it, and nothing else.                    *)
THEOREM CountExact == Spec => []AttachCount
<1>1. IInv => AttachCount
  BY DEF IInv, UseInv
<1> QED BY <1>1, Inductive, PTL

(* A lookup by slot alone, in shm_open(), shm_close() and at the end of    *)
(* do_shmat(), finds the segment that was attached.                        *)
THEOREM AttachedStays == Spec => []AttachmentsPin
<1>1. IInv => AttachmentsPin
  BY DEF IInv, UseInv, TaskInv, TaskAt, PinInv, Pinned, AttachmentsPin
<1> QED BY <1>1, Inductive, PTL

(* No doomed segment stays without a use, and a namespace that is gone     *)
(* leaves nothing behind.                                                  *)
THEOREM NoneLeft == Spec => []NothingLeft
<1>1. ASSUME IInv PROVE NothingLeft
  <2>1. ASSUME nscount = 0
        PROVE  /\ members = {} /\ \A f \in Files : file[f] = NoFile
               /\ Live = {} /\ shm_tot = 0
    <3>1. Cardinality(Open) \in Nat /\ IsFiniteSet(Open)
        BY OpenFinite
    <3>2. nscount = Cardinality(Open) + (IF members = {} THEN 0 ELSE 1) /\ Live = {}
        BY <1>1, <2>1 DEF IInv, UseInv, NsInv, Open
    <3>3. members = {} /\ Cardinality(Open) = 0
        BY <2>1, <3>1, <3>2
    <3>4. Open = {}
        BY <3>1, <3>3, FS_EmptySet
    <3>5. \A i \in Index : seg[i] = NoSeg
        BY <3>2 DEF Live
    <3>6. WeightSum = 0
        BY <3>5, NoSums DEF EmptySums
    <3>7. shm_tot = 0
        BY <1>1, <3>6 DEF IInv, TableInv, Accounting, WeightSum
    <3> QED BY <3>2, <3>3, <3>4, <3>7 DEF Open
  <2> QED BY <1>1, <2>1 DEF NothingLeft, NsOutlivesUsers, IInv, UseInv
<1> QED BY <1>1, Inductive, PTL

(* Types: the counters are sums of what they count, and so never negative. *)
LEMMA TypesHold == ASSUME IInv PROVE TypeOK
<1>t. TypeInv /\ TableInv /\ UseInv
  BY DEF IInv
<1>q. ids \in Seq(Nat)
  BY <1>t DEF TypeInv
<1>l. Len(ids) \in Nat
  BY <1>q
<1>u. UsesBound /\ SumsBound
  BY <1>t, UsesNat, SumsNat
<1>1. \A i \in Live : seg[i].nattch \in Nat /\ seg[i].born \in Nat
  <2>1. \A i \in Live : seg[i].born \in Nat
    BY <1>t DEF TypeInv, Live, SegmentRecord
  <2> QED BY <1>t, <1>u, <2>1 DEF UseInv, AttachCount, UsesBound
<1>2. ASSUME NEW shp \in SegmentRecord, Created(shp), shp.nattch \in Nat PROVE shp \in Segment
  <2>1. /\ shp.born \in 1 .. Len(ids) /\ shp.seq \in 0 .. seq_max /\ shp.size \in 1 .. shm_ctlmax
    BY <1>2, ShmConstants DEF Created
  <2> QED BY <1>2, <2>1 DEF SegmentRecord, Segment
<1>3. seg \in [Index -> Segment \cup {NoSeg}]
  <2>1. \A i \in Index : seg[i] \in Segment \cup {NoSeg}
    BY <1>1, <1>2, <1>t DEF TypeInv, TableInv, SegInv, Live
  <2> QED BY <1>t, <2>1 DEF TypeInv
<1>4. dying \in [Tasks -> Segment \cup {NoSeg}]
  <2>1. \A t \in Tasks : dying[t] \in Segment \cup {NoSeg}
    <3> SUFFICES ASSUME NEW t \in Tasks, dying[t] # NoSeg PROVE dying[t] \in Segment
        OBVIOUS
    <3>1. dying[t] \in SegmentRecord
        BY <1>t DEF TypeInv
    <3>2. Created(dying[t]) /\ dying[t].nattch \in Nat
        BY <1>t DEF TableInv, SegInv, UseInv, DyingInv
    <3> QED BY <1>2, <3>1, <3>2
  <2> QED BY <1>t, <2>1 DEF TypeInv
<1>5. in_use \in Nat /\ shm_tot \in Nat
  BY <1>t, <1>u, LiveFinite DEF TableInv, Accounting, SumsBound, WeightSum
<1>6. locked_shm \in [Users -> Nat]
  <2>1. \A u \in Users : locked_shm[u] \in Nat
    <3>1. \A u \in Users : locked_shm[u] = ChargeSum(u) + DyingSum(u)
        BY <1>t DEF TableInv, LockedAccounting, ChargeSum, DyingSum
    <3> QED BY <1>u, <3>1 DEF SumsBound
  <2> QED BY <1>t, <2>1 DEF TypeInv
<1>7. nscount \in Nat
  BY <1>t, OpenFinite DEF UseInv, NsInv, Open
<1>8. file \in [Files -> [id : Nat, born : 1 .. Len(ids)] \cup {NoFile}]
  <2>1. \A f \in Files : file[f] \in [id : Nat, born : 1 .. Len(ids)] \cup {NoFile}
    BY <1>t DEF TypeInv, UseInv, PinInv, FileRecord
  <2> QED BY <1>t, <2>1 DEF TypeInv
<1>9. then \in [Tasks -> Labels] /\ ret \in [Tasks -> Labels]
  BY <1>t DEF TypeInv, Labels
<1> QED BY <1>3, <1>4, <1>5, <1>6, <1>7, <1>8, <1>9, <1>t DEF TypeInv, TypeOK

(* shm_tot, ids.in_use and user->locked_shm are what the segments weigh,   *)
(* and never negative.                                                     *)
THEOREM ChargesExact == Spec => []Charges
<1>1. IInv => Charges
  BY TypesHold DEF IInv, TableInv, Charges
<1> QED BY <1>1, Inductive, PTL

(* A key finds one segment, not a doomed one, and an id comes back only    *)
(* after seq_max other segments: ids given out close together carry        *)
(* different sequence numbers.                                             *)
THEOREM NamesAgree == Spec => []NamesFindOne
<1>1. ASSUME IInv PROVE KeyFindsOne
  <2> SUFFICES ASSUME NEW key \in Keys
               PROVE  /\ Cardinality(ipc_findkey(key)) <= 1
                      /\ \A i \in ipc_findkey(key) : "DEST" \notin seg[i].mode
    BY DEF KeyFindsOne
  <2>k. key # IPC_PRIVATE
    BY ShmConstants
  <2>1. \A i \in ipc_findkey(key) : "DEST" \notin seg[i].mode
    BY <1>1, <2>k DEF ipc_findkey, IInv, TableInv, KeyInv
  <2>2. \A i, j \in ipc_findkey(key) : i = j
    BY <1>1, <2>k DEF ipc_findkey, IInv, TableInv, KeyInv
  <2>3. CASE ipc_findkey(key) = {}
    BY <2>1, <2>3, FS_EmptySet
  <2>4. CASE ipc_findkey(key) # {}
    <3>1. PICK i : ipc_findkey(key) = {i}
        BY <2>2, <2>4
    <3>2. Cardinality(ipc_findkey(key)) = 1
        BY <3>1, FS_Singleton
    <3> QED BY <2>1, <3>2
  <2> QED BY <2>3, <2>4
<1>2. ASSUME IInv PROVE NoEarlyIdReuse
  <2> SUFFICES ASSUME NEW a \in DOMAIN ids, NEW b \in DOMAIN ids, a < b, b - a <= seq_max
               PROVE  ids[a] # ids[b]
    BY DEF NoEarlyIdReuse
  <2>1. /\ IdSeq(a) \in 0 .. seq_max /\ IdSeq(b) \in 0 .. seq_max
        /\ Ahead(IdSeq(a), IdSeq(b), b - a)
    BY <1>2 DEF IInv, TableInv, SeqInv
  <2>2. seq_max \in Nat /\ a \in Int /\ b \in Int
    <3>1. ids \in Seq(Nat)
        BY <1>2 DEF IInv, TypeInv
    <3> QED BY <3>1, ShmConstants
  <2>3. IdSeq(a) # IdSeq(b)
    BY <2>1, <2>2 DEF Ahead
  <2> QED BY <2>3 DEF IdSeq
<1> QED BY <1>1, <1>2, Inductive, PTL DEF NamesFindOne

=============================================================================
