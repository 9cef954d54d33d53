------------------------------ MODULE SemLemmas ------------------------------
(***************************************************************************)
(* The arithmetic of try_atomic_semop(), the effect of the helpers of Sem, *)
(* and why semtimedop() and its wakeups preserve part one of the inductive *)
(* invariant.  Lemma IInv_x is about action x.                             *)
(***************************************************************************)
EXTENDS Sem, DataLemmas

-----------------------------------------------------------------------------
(* The loops of try_atomic_semop() and of exit_sem().                      *)

(* The largest number of a prefix 1 .. k is k.                             *)
LEMMA PrefixMax ==
    ASSUME NEW n \in Nat, NEW k \in 1 .. n
    PROVE  /\ Max(1 .. k) = k /\ (1 .. k) \ {k} = 1 .. (k - 1)
           /\ 1 .. k # {} /\ 1 .. k \in SUBSET (1 .. n)
<1>1. k \in 1 .. k /\ \A x \in 1 .. k : k >= x
  OBVIOUS
<1>2. \A y \in 1 .. k : (\A x \in 1 .. k : y >= x) => y = k
  OBVIOUS
<1>3. Max(1 .. k) = k
  BY <1>1, <1>2 DEF Max
<1>4. (1 .. k) \ {k} = 1 .. (k - 1)
  OBVIOUS
<1> QED BY <1>3, <1>4

(* A set of numbers up to n contains its largest one.                      *)
LEMMA MaxIn ==
    ASSUME NEW n \in Nat, NEW T \in SUBSET (1 .. n), T # {}
    PROVE  Max(T) \in T
<1>2. \E m \in T : \A x \in T : m >= x
  <2> DEFINE D == {n - x : x \in T}
  <2>0. \A x \in T : n - x \in Nat
    OBVIOUS
  <2>e. PICK x0 \in T : TRUE
    OBVIOUS
  <2>1. D \subseteq Nat /\ D # {}
    BY <2>0, <2>e
  <2>2. PICK d \in D : \A y \in D : d <= y
    BY <2>1, LeastNumber
  <2>3. PICK m \in T : d = n - m
    BY <2>2
  <2>4. ASSUME NEW x \in T PROVE m >= x
    <3>1. n - x \in D /\ m \in Int /\ x \in Int
        OBVIOUS
    <3>2. n - m <= n - x
        BY <2>2, <2>3, <3>1
    <3> QED BY <3>1, <3>2
  <2> QED BY <2>3, <2>4
<1> QED BY <1>2 DEF Max

(* e follows the recursion of a fold from the left, on the sets of indices. *)
LeftFold(e, n, b, h) ==
    \A U \in SUBSET (1 .. n) : e[U] = IF U = {} THEN b ELSE h[<<Max(U), e[U \ {Max(U)}]>>]

(* There is such a function.                                               *)
LEMMA LeftFoldExists ==
    ASSUME NEW n \in Nat, NEW V, NEW b \in V, NEW h \in [(1 .. n) \X V -> V]
    PROVE  \E e \in [SUBSET (1 .. n) -> V] : LeftFold(e, n, b, h)
<1> DEFINE c == [T \in SUBSET (1 .. n) |-> Max(T)]
<1>1. \A T \in SUBSET (1 .. n) : T # {} => c[T] \in T
  BY MaxIn
<1>2. \A T \in SUBSET (1 .. n) : c[T] = Max(T)
  OBVIOUS
<1>3. IsFiniteSet(1 .. n)
  BY FS_Interval
<1> HIDE DEF c
<1>4. PICK e \in [SUBSET (1 .. n) -> V] : FollowsFold(e, 1 .. n, b, c, h)
  BY <1>1, <1>3, FoldExists
<1>5. LeftFold(e, n, b, h)
  BY <1>2, <1>4 DEF FollowsFold, LeftFold
<1> QED BY <1>5

-----------------------------------------------------------------------------
(* try_atomic_semop().                                                     *)

Results == {"run", "block", "EAGAIN", "ERANGE"}
Rounds == [val : Values, done : Nat, res : Results]

(* One round of the first loop stays in range.                             *)
LEMMA PerformType ==
    ASSUME NEW adj \in Adjs, NEW a \in Rounds, NEW sop \in SopSet
    PROVE  /\ Perform(adj, a, sop) \in Rounds
           /\ a.res # "run" => Perform(adj, a, sop) = a
           /\ Perform(adj, a, sop).res # "run" =>
                 Perform(adj, a, sop).val = a.val /\ Perform(adj, a, sop).done = a.done
           /\ Perform(adj, a, sop).res = "run" =>
                 /\ a.res = "run" /\ Perform(adj, a, sop).done = a.done + 1
                 /\ Perform(adj, a, sop).val = [a.val EXCEPT ![sop.num] = a.val[sop.num] + sop.op]
<1> DEFINE r == a.val[sop.num] + sop.op
           u == adj[sop.num] - sop.op
<1>1. /\ a.val \in [Sems -> 0 .. SEMVMX] /\ sop.num \in Sems /\ sop.op \in Int
      /\ a.done \in Nat /\ a.res \in Results /\ SEMVMX \in Nat
  BY SemAssumption DEF Rounds, SopSet, Values
<1>2. r \in Int
  BY <1>1
<1>3. CASE a.res # "run"
  BY <1>3 DEF Perform
<1>4. CASE a.res = "run" /\ (r < 0 \/ (sop.op = 0 /\ r # 0))
  <2>1. Perform(adj, a, sop) = [a EXCEPT !.res = IF sop.nowait THEN "EAGAIN" ELSE "block"]
    BY <1>4 DEF Perform
  <2> QED BY <2>1, <1>1, <1>4 DEF Rounds, Results
<1>5. CASE a.res = "run" /\ ~(r < 0 \/ (sop.op = 0 /\ r # 0))
           /\ (r > SEMVMX \/ (sop.undo /\ (u < -SEMAEM - 1 \/ u > SEMAEM)))
  <2>1. Perform(adj, a, sop) = [a EXCEPT !.res = "ERANGE"]
    BY <1>5 DEF Perform
  <2> QED BY <2>1, <1>1, <1>5 DEF Rounds, Results
<1>6. CASE a.res = "run" /\ ~(r < 0 \/ (sop.op = 0 /\ r # 0))
           /\ ~(r > SEMVMX \/ (sop.undo /\ (u < -SEMAEM - 1 \/ u > SEMAEM)))
  <2>1. Perform(adj, a, sop) = [val |-> [a.val EXCEPT ![sop.num] = r], done |-> a.done + 1, res |-> "run"]
    BY <1>6 DEF Perform
  <2>2. r \in 0 .. SEMVMX
    BY <1>1, <1>2, <1>6
  <2>3. [a.val EXCEPT ![sop.num] = r] \in Values
    BY <1>1, <2>2 DEF Values
  <2> HIDE DEF r
  <2>4. Perform(adj, a, sop) \in Rounds
    BY <2>1, <2>3, <1>1 DEF Rounds, Results
  <2> QED BY <2>1, <2>4, <1>6 DEF r
<1> QED BY <1>3, <1>4, <1>5, <1>6

(* A round that goes on stores the new value.                              *)
Performed(a, sop) == [a.val EXCEPT ![sop.num] = a.val[sop.num] + sop.op]

(* What a round that goes on stores.                                       *)
LEMMA PerformValue ==
    ASSUME NEW adj \in Adjs, NEW a \in Rounds, NEW sop \in SopSet, Perform(adj, a, sop).res = "run"
    PROVE  Perform(adj, a, sop).val = Performed(a, sop)
    BY PerformType, Zenon DEF Performed

(* A number taken modulo m.                                                *)
LEMMA ModRange ==
    ASSUME NEW y \in Int, NEW m \in Nat \ {0}
    PROVE  y % m \in 0 .. (m - 1)
    OBVIOUS

(* A short is one.                                                         *)
LEMMA ShortType ==
    ASSUME NEW x \in Int
    PROVE  Short(x) \in -SEMAEM - 1 .. SEMAEM
<1>1. PICK m \in Nat \ {0} : m = 2 * (SEMAEM + 1)
  BY SemAssumption DEF SEMAEM
<1>2. PICK y \in Int : y = x + SEMAEM + 1
  BY SemAssumption DEF SEMAEM
<1>3. y % m \in 0 .. (m - 1)
  BY ModRange
<1>4. PICK z \in Int : z = y % m
  BY <1>3
<1>5. Short(x) = z - (SEMAEM + 1)
  BY <1>1, <1>2, <1>4 DEF Short
<1> QED BY <1>1, <1>3, <1>4, <1>5, SemAssumption DEF SEMAEM

(* The adjustment of one operation is one.                                 *)
LEMMA RememberType ==
    ASSUME NEW adj \in Adjs, NEW sop \in SopSet
    PROVE  Remember(adj, sop) \in Adjs
<1>1. adj[sop.num] - sop.op \in Int /\ sop.num \in Sems
  BY SemAssumption DEF Adjs, SopSet, SEMAEM
<1>2. Short(adj[sop.num] - sop.op) \in -SEMAEM - 1 .. SEMAEM
  BY <1>1, ShortType
<1> QED BY <1>1, <1>2 DEF Remember, Adjs

(* Taking one operation back keeps the values integers.                    *)
LEMMA TakeBackType ==
    ASSUME NEW v \in [Sems -> Int], NEW sop \in SopSet
    PROVE  TakeBack(v, sop) \in [Sems -> Int]
    BY DEF TakeBack, SopSet

(* The next entry joins a single-operation list or does not.               *)
LEMMA SimpleStep ==
    ASSUME NEW m, NEW S, NEW v \in Seq(S), NEW x \in S
    PROVE  AddSimple(m, v, x) \in Seq(S)
    BY DEF AddSimple

(* The first loop of try_atomic_semop(), operation by operation.           *)
LEMMA PerformFold ==
    ASSUME NEW adj \in Adjs, NEW s \in Seq(SopSet), NEW b \in Rounds
    PROVE  \E g \in [0 .. Len(s) -> Rounds] :
                  /\ g[0] = b
                  /\ \A k \in 1 .. Len(s) : g[k] = Perform(adj, g[k - 1], s[k])
                  /\ FoldLeft(LAMBDA x, sop : Perform(adj, x, sop), b, s) = g[Len(s)]
<1> DEFINE n == Len(s)
           h == [iv \in (1 .. n) \X Rounds |-> Perform(adj, iv[2], s[iv[1]])]
<1>1. n \in Nat /\ DOMAIN s = 1 .. n /\ \A i \in 1 .. n : s[i] \in SopSet
  OBVIOUS
<1>2. \A i \in 1 .. n, v \in Rounds : Perform(adj, v, s[i]) \in Rounds
  BY <1>1, PerformType
<1>3. h \in [(1 .. n) \X Rounds -> Rounds]
  <2> SUFFICES ASSUME NEW iv \in (1 .. n) \X Rounds PROVE Perform(adj, iv[2], s[iv[1]]) \in Rounds
    OBVIOUS
  <2>1. iv[1] \in 1 .. n /\ iv[2] \in Rounds
    OBVIOUS
  <2> QED BY <1>2, <2>1
<1>4. \A i \in 1 .. n, v \in Rounds : h[<<i, v>>] = Perform(adj, v, s[i])
  OBVIOUS
<1> HIDE DEF h
<1>5. PICK e \in [SUBSET (1 .. n) -> Rounds] : LeftFold(e, n, b, h)
  BY <1>1, <1>3, LeftFoldExists
<1> DEFINE Eq(f) == f = [U \in SUBSET DOMAIN s |-> IF U = {} THEN b ELSE Perform(adj, f[U \ {Max(U)}], s[Max(U)])]
           f0 == CHOOSE f : Eq(f)
<1>6. Eq(e)
  <2>1. \A U \in SUBSET DOMAIN s : e[U] = IF U = {} THEN b ELSE Perform(adj, e[U \ {Max(U)}], s[Max(U)])
    <3> SUFFICES ASSUME NEW U \in SUBSET (1 .. n)
                 PROVE  e[U] = IF U = {} THEN b ELSE Perform(adj, e[U \ {Max(U)}], s[Max(U)])
        BY <1>1
    <3>1. e[U] = IF U = {} THEN b ELSE h[<<Max(U), e[U \ {Max(U)}]>>]
        BY <1>5 DEF LeftFold
    <3>2. e[U \ {Max(U)}] \in Rounds
        OBVIOUS
    <3>3. U # {} => Max(U) \in 1 .. n
        BY <1>1, MaxIn
    <3> QED BY <1>4, <3>1, <3>2, <3>3
  <2>2. e = [U \in SUBSET DOMAIN s |-> e[U]]
    BY <1>1
  <2>3. [U \in SUBSET DOMAIN s |-> e[U]] = [U \in SUBSET DOMAIN s |-> IF U = {} THEN b ELSE Perform(adj, e[U \ {Max(U)}], s[Max(U)])]
    BY <2>1, Zenon
  <2> QED BY <2>2, <2>3, Zenon
<1>7. FoldLeft(LAMBDA x, sop : Perform(adj, x, sop), b, s) = f0[DOMAIN s]
  BY Zenon DEF FoldLeft, MapThenFoldSet
<1>8. Eq(f0)
  BY <1>6, Zenon
<1> HIDE DEF f0
<1>9. \A U \in SUBSET DOMAIN s : f0[U] = IF U = {} THEN b ELSE Perform(adj, f0[U \ {Max(U)}], s[Max(U)])
  BY <1>8, Zenon
<1> HIDE DEF Eq
<1>10. f0[1 .. 0] = b
  <2>1. 1 .. 0 = {} /\ {} \in SUBSET DOMAIN s
    OBVIOUS
  <2> QED BY <1>9, <2>1
<1>11. \A k \in 1 .. n : f0[1 .. k] = Perform(adj, f0[1 .. (k - 1)], s[k])
  <2> SUFFICES ASSUME NEW k \in 1 .. n PROVE f0[1 .. k] = Perform(adj, f0[1 .. (k - 1)], s[k])
    OBVIOUS
  <2>1. /\ Max(1 .. k) = k /\ (1 .. k) \ {k} = 1 .. (k - 1)
        /\ 1 .. k # {} /\ 1 .. k \in SUBSET DOMAIN s
    BY <1>1, PrefixMax
  <2>2. PICK U : U = 1 .. k
    OBVIOUS
  <2>3. f0[U] = Perform(adj, f0[U \ {Max(U)}], s[Max(U)])
    BY <1>9, <2>1, <2>2
  <2> QED BY <2>1, <2>2, <2>3
<1> DEFINE P == {k \in 0 .. n : f0[1 .. k] \in Rounds}
<1>12. 0 \in P
  BY <1>1, <1>10
<1>13. \A i \in 0 .. n : (i \in P /\ i + 1 <= n) => i + 1 \in P
  <2> SUFFICES ASSUME NEW i \in 0 .. n, i \in P, i + 1 <= n PROVE i + 1 \in P
    OBVIOUS
  <2>1. i + 1 \in 1 .. n /\ (i + 1) - 1 = i /\ i + 1 \in 0 .. n
    BY <1>1
  <2>2. f0[1 .. (i + 1)] = Perform(adj, f0[1 .. i], s[i + 1])
    BY <1>11, <2>1
  <2> QED BY <1>2, <2>1, <2>2
<1> HIDE DEF P
<1>14. \A i \in 0 .. n : i \in P
  BY <1>1, <1>12, <1>13, StepInduction
<1> DEFINE g == [k \in 0 .. n |-> f0[1 .. k]]
<1>15. g \in [0 .. n -> Rounds] /\ g[0] = b
  BY <1>1, <1>10, <1>14 DEF P
<1>16. \A k \in 1 .. n : g[k] = Perform(adj, g[k - 1], s[k])
  <2> SUFFICES ASSUME NEW k \in 1 .. n PROVE g[k] = Perform(adj, g[k - 1], s[k])
    OBVIOUS
  <2>1. k \in 0 .. n /\ k - 1 \in 0 .. n
    BY <1>1
  <2>2. g[k] = f0[1 .. k] /\ g[k - 1] = f0[1 .. (k - 1)]
    BY <2>1
  <2> QED BY <1>11, <2>2
<1>17. FoldLeft(LAMBDA x, sop : Perform(adj, x, sop), b, s) = g[n]
  <2>1. f0[DOMAIN s] = g[n]
    BY <1>1
  <2> HIDE DEF g
  <2> QED BY <1>7, <2>1, Zenon
<1> HIDE DEF g
<1> QED BY <1>15, <1>16, <1>17

(* The loop that takes operations back.                                    *)
LEMMA TakeBackFold ==
    ASSUME NEW s \in Seq(SopSet), NEW b \in [Sems -> Int]
    PROVE  \E g \in [0 .. Len(s) -> [Sems -> Int]] :
                  /\ g[0] = b
                  /\ \A k \in 1 .. Len(s) : g[k] = TakeBack(g[k - 1], s[k])
                  /\ FoldLeft(TakeBack, b, s) = g[Len(s)]
<1> DEFINE n == Len(s)
           h == [iv \in (1 .. n) \X [Sems -> Int] |-> TakeBack(iv[2], s[iv[1]])]
<1>1. n \in Nat /\ DOMAIN s = 1 .. n /\ \A i \in 1 .. n : s[i] \in SopSet
  OBVIOUS
<1>2. \A i \in 1 .. n, v \in [Sems -> Int] : TakeBack(v, s[i]) \in [Sems -> Int]
  BY <1>1, TakeBackType
<1>3. h \in [(1 .. n) \X [Sems -> Int] -> [Sems -> Int]]
  <2> SUFFICES ASSUME NEW iv \in (1 .. n) \X [Sems -> Int] PROVE TakeBack(iv[2], s[iv[1]]) \in [Sems -> Int]
    OBVIOUS
  <2>1. iv[1] \in 1 .. n /\ iv[2] \in [Sems -> Int]
    OBVIOUS
  <2> QED BY <1>2, <2>1
<1>4. \A i \in 1 .. n, v \in [Sems -> Int] : h[<<i, v>>] = TakeBack(v, s[i])
  OBVIOUS
<1> HIDE DEF h
<1>5. PICK e \in [SUBSET (1 .. n) -> [Sems -> Int]] : LeftFold(e, n, b, h)
  BY <1>1, <1>3, LeftFoldExists
<1> DEFINE Eq(f) == f = [U \in SUBSET DOMAIN s |-> IF U = {} THEN b ELSE TakeBack(f[U \ {Max(U)}], s[Max(U)])]
           f0 == CHOOSE f : Eq(f)
<1>6. Eq(e)
  <2>1. \A U \in SUBSET DOMAIN s : e[U] = IF U = {} THEN b ELSE TakeBack(e[U \ {Max(U)}], s[Max(U)])
    <3> SUFFICES ASSUME NEW U \in SUBSET (1 .. n)
                 PROVE  e[U] = IF U = {} THEN b ELSE TakeBack(e[U \ {Max(U)}], s[Max(U)])
        BY <1>1
    <3>1. e[U] = IF U = {} THEN b ELSE h[<<Max(U), e[U \ {Max(U)}]>>]
        BY <1>5 DEF LeftFold
    <3>2. e[U \ {Max(U)}] \in [Sems -> Int]
        OBVIOUS
    <3>3. U # {} => Max(U) \in 1 .. n
        BY <1>1, MaxIn
    <3> QED BY <1>4, <3>1, <3>2, <3>3
  <2>2. e = [U \in SUBSET DOMAIN s |-> e[U]]
    BY <1>1
  <2>3. [U \in SUBSET DOMAIN s |-> e[U]] = [U \in SUBSET DOMAIN s |-> IF U = {} THEN b ELSE TakeBack(e[U \ {Max(U)}], s[Max(U)])]
    BY <2>1, Zenon
  <2> QED BY <2>2, <2>3, Zenon
<1>7. FoldLeft(TakeBack, b, s) = f0[DOMAIN s]
  BY Zenon DEF FoldLeft, MapThenFoldSet
<1>8. Eq(f0)
  BY <1>6, Zenon
<1> HIDE DEF f0
<1>9. \A U \in SUBSET DOMAIN s : f0[U] = IF U = {} THEN b ELSE TakeBack(f0[U \ {Max(U)}], s[Max(U)])
  BY <1>8, Zenon
<1> HIDE DEF Eq
<1>10. f0[1 .. 0] = b
  <2>1. 1 .. 0 = {} /\ {} \in SUBSET DOMAIN s
    OBVIOUS
  <2> QED BY <1>9, <2>1
<1>11. \A k \in 1 .. n : f0[1 .. k] = TakeBack(f0[1 .. (k - 1)], s[k])
  <2> SUFFICES ASSUME NEW k \in 1 .. n PROVE f0[1 .. k] = TakeBack(f0[1 .. (k - 1)], s[k])
    OBVIOUS
  <2>1. /\ Max(1 .. k) = k /\ (1 .. k) \ {k} = 1 .. (k - 1)
        /\ 1 .. k # {} /\ 1 .. k \in SUBSET DOMAIN s
    BY <1>1, PrefixMax
  <2>2. PICK U : U = 1 .. k
    OBVIOUS
  <2>3. f0[U] = TakeBack(f0[U \ {Max(U)}], s[Max(U)])
    BY <1>9, <2>1, <2>2
  <2> QED BY <2>1, <2>2, <2>3
<1> DEFINE P == {k \in 0 .. n : f0[1 .. k] \in [Sems -> Int]}
<1>12. 0 \in P
  BY <1>1, <1>10
<1>13. \A i \in 0 .. n : (i \in P /\ i + 1 <= n) => i + 1 \in P
  <2> SUFFICES ASSUME NEW i \in 0 .. n, i \in P, i + 1 <= n PROVE i + 1 \in P
    OBVIOUS
  <2>1. i + 1 \in 1 .. n /\ (i + 1) - 1 = i /\ i + 1 \in 0 .. n
    BY <1>1
  <2>2. f0[1 .. (i + 1)] = TakeBack(f0[1 .. i], s[i + 1])
    BY <1>11, <2>1
  <2> QED BY <1>2, <2>1, <2>2
<1> HIDE DEF P
<1>14. \A i \in 0 .. n : i \in P
  BY <1>1, <1>12, <1>13, StepInduction
<1> DEFINE g == [k \in 0 .. n |-> f0[1 .. k]]
<1>15. g \in [0 .. n -> [Sems -> Int]] /\ g[0] = b
  BY <1>1, <1>10, <1>14 DEF P
<1>16. \A k \in 1 .. n : g[k] = TakeBack(g[k - 1], s[k])
  <2> SUFFICES ASSUME NEW k \in 1 .. n PROVE g[k] = TakeBack(g[k - 1], s[k])
    OBVIOUS
  <2>1. k \in 0 .. n /\ k - 1 \in 0 .. n
    BY <1>1
  <2>2. g[k] = f0[1 .. k] /\ g[k - 1] = f0[1 .. (k - 1)]
    BY <2>1
  <2> QED BY <1>11, <2>2
<1>17. FoldLeft(TakeBack, b, s) = g[n]
  BY <1>1, <1>7
<1> HIDE DEF g
<1> QED BY <1>15, <1>16, <1>17

(* The loop that adjusts the undo structure.                               *)
LEMMA RememberFold ==
    ASSUME NEW s \in Seq(SopSet), NEW b \in Adjs
    PROVE  \E g \in [0 .. Len(s) -> Adjs] :
                  /\ g[0] = b
                  /\ \A k \in 1 .. Len(s) : g[k] = Remember(g[k - 1], s[k])
                  /\ FoldLeft(Remember, b, s) = g[Len(s)]
<1> DEFINE n == Len(s)
           h == [iv \in (1 .. n) \X Adjs |-> Remember(iv[2], s[iv[1]])]
<1>1. n \in Nat /\ DOMAIN s = 1 .. n /\ \A i \in 1 .. n : s[i] \in SopSet
  OBVIOUS
<1>2. \A i \in 1 .. n, v \in Adjs : Remember(v, s[i]) \in Adjs
  BY <1>1, RememberType
<1>3. h \in [(1 .. n) \X Adjs -> Adjs]
  <2> SUFFICES ASSUME NEW iv \in (1 .. n) \X Adjs PROVE Remember(iv[2], s[iv[1]]) \in Adjs
    OBVIOUS
  <2>1. iv[1] \in 1 .. n /\ iv[2] \in Adjs
    OBVIOUS
  <2> QED BY <1>2, <2>1
<1>4. \A i \in 1 .. n, v \in Adjs : h[<<i, v>>] = Remember(v, s[i])
  OBVIOUS
<1> HIDE DEF h
<1>5. PICK e \in [SUBSET (1 .. n) -> Adjs] : LeftFold(e, n, b, h)
  BY <1>1, <1>3, LeftFoldExists
<1> DEFINE Eq(f) == f = [U \in SUBSET DOMAIN s |-> IF U = {} THEN b ELSE Remember(f[U \ {Max(U)}], s[Max(U)])]
           f0 == CHOOSE f : Eq(f)
<1>6. Eq(e)
  <2>1. \A U \in SUBSET DOMAIN s : e[U] = IF U = {} THEN b ELSE Remember(e[U \ {Max(U)}], s[Max(U)])
    <3> SUFFICES ASSUME NEW U \in SUBSET (1 .. n)
                 PROVE  e[U] = IF U = {} THEN b ELSE Remember(e[U \ {Max(U)}], s[Max(U)])
        BY <1>1
    <3>1. e[U] = IF U = {} THEN b ELSE h[<<Max(U), e[U \ {Max(U)}]>>]
        BY <1>5 DEF LeftFold
    <3>2. e[U \ {Max(U)}] \in Adjs
        OBVIOUS
    <3>3. U # {} => Max(U) \in 1 .. n
        BY <1>1, MaxIn
    <3> QED BY <1>4, <3>1, <3>2, <3>3
  <2>2. e = [U \in SUBSET DOMAIN s |-> e[U]]
    BY <1>1
  <2>3. [U \in SUBSET DOMAIN s |-> e[U]] = [U \in SUBSET DOMAIN s |-> IF U = {} THEN b ELSE Remember(e[U \ {Max(U)}], s[Max(U)])]
    BY <2>1, Zenon
  <2> QED BY <2>2, <2>3, Zenon
<1>7. FoldLeft(Remember, b, s) = f0[DOMAIN s]
  BY Zenon DEF FoldLeft, MapThenFoldSet
<1>8. Eq(f0)
  BY <1>6, Zenon
<1> HIDE DEF f0
<1>9. \A U \in SUBSET DOMAIN s : f0[U] = IF U = {} THEN b ELSE Remember(f0[U \ {Max(U)}], s[Max(U)])
  BY <1>8, Zenon
<1> HIDE DEF Eq
<1>10. f0[1 .. 0] = b
  <2>1. 1 .. 0 = {} /\ {} \in SUBSET DOMAIN s
    OBVIOUS
  <2> QED BY <1>9, <2>1
<1>11. \A k \in 1 .. n : f0[1 .. k] = Remember(f0[1 .. (k - 1)], s[k])
  <2> SUFFICES ASSUME NEW k \in 1 .. n PROVE f0[1 .. k] = Remember(f0[1 .. (k - 1)], s[k])
    OBVIOUS
  <2>1. /\ Max(1 .. k) = k /\ (1 .. k) \ {k} = 1 .. (k - 1)
        /\ 1 .. k # {} /\ 1 .. k \in SUBSET DOMAIN s
    BY <1>1, PrefixMax
  <2>2. PICK U : U = 1 .. k
    OBVIOUS
  <2>3. f0[U] = Remember(f0[U \ {Max(U)}], s[Max(U)])
    BY <1>9, <2>1, <2>2
  <2> QED BY <2>1, <2>2, <2>3
<1> DEFINE P == {k \in 0 .. n : f0[1 .. k] \in Adjs}
<1>12. 0 \in P
  BY <1>1, <1>10
<1>13. \A i \in 0 .. n : (i \in P /\ i + 1 <= n) => i + 1 \in P
  <2> SUFFICES ASSUME NEW i \in 0 .. n, i \in P, i + 1 <= n PROVE i + 1 \in P
    OBVIOUS
  <2>1. i + 1 \in 1 .. n /\ (i + 1) - 1 = i /\ i + 1 \in 0 .. n
    BY <1>1
  <2>2. f0[1 .. (i + 1)] = Remember(f0[1 .. i], s[i + 1])
    BY <1>11, <2>1
  <2> QED BY <1>2, <2>1, <2>2
<1> HIDE DEF P
<1>14. \A i \in 0 .. n : i \in P
  BY <1>1, <1>12, <1>13, StepInduction
<1> DEFINE g == [k \in 0 .. n |-> f0[1 .. k]]
<1>15. g \in [0 .. n -> Adjs] /\ g[0] = b
  BY <1>1, <1>10, <1>14 DEF P
<1>16. \A k \in 1 .. n : g[k] = Remember(g[k - 1], s[k])
  <2> SUFFICES ASSUME NEW k \in 1 .. n PROVE g[k] = Remember(g[k - 1], s[k])
    OBVIOUS
  <2>1. k \in 0 .. n /\ k - 1 \in 0 .. n
    BY <1>1
  <2>2. g[k] = f0[1 .. k] /\ g[k - 1] = f0[1 .. (k - 1)]
    BY <2>1
  <2> QED BY <1>11, <2>2
<1>17. FoldLeft(Remember, b, s) = g[n]
  BY <1>1, <1>7
<1> HIDE DEF g
<1> QED BY <1>15, <1>16, <1>17

(* What try_atomic_semop() returns; if it fails, or has to wait, nothing   *)
(* has changed.                                                            *)
LEMMA TryAtomic ==
    ASSUME NEW val \in Values, NEW adj \in Adjs, NEW s \in Seq(SopSet)
    PROVE  /\ try_atomic_semop(val, adj, s).res \in {"ok", "block", "EAGAIN", "ERANGE"}
           /\ try_atomic_semop(val, adj, s).val \in Values
           /\ try_atomic_semop(val, adj, s).adj \in Adjs
           /\ try_atomic_semop(val, adj, s).res # "ok" =>
                 try_atomic_semop(val, adj, s).val = val /\ try_atomic_semop(val, adj, s).adj = adj
<1> DEFINE b == [val |-> val, done |-> 0, res |-> "run"]
           n == Len(s)
           a == FoldLeft(LAMBDA x, sop : Perform(adj, x, sop), b, s)
<1>0. n \in Nat /\ \A k \in 1 .. n : s[k] \in SopSet
  OBVIOUS
<1>1. b \in Rounds
  BY DEF Rounds, Results
<1>3. PICK g \in [0 .. n -> Rounds] :
               /\ g[0] = b
               /\ \A k \in 1 .. n : g[k] = Perform(adj, g[k - 1], s[k])
               /\ a = g[n]
  BY <1>1, PerformFold, Zenon
<1> HIDE DEF a
<1>4. a \in Rounds
  BY <1>0, <1>3
<1>5. PICK e : e \in Adjs /\ e = FoldLeft(Remember, adj, s)
  <2>2. PICK f \in [0 .. n -> Adjs] : FoldLeft(Remember, adj, s) = f[n]
    BY RememberFold, Zenon
  <2> QED BY <1>0, <2>2
<1>6. CASE a.res = "run"
  <2>1. try_atomic_semop(val, adj, s) = [res |-> "ok", val |-> a.val, adj |-> e]
    BY <1>5, <1>6, Zenon DEF try_atomic_semop, a
  <2> QED BY <1>4, <1>5, <2>1 DEF Rounds
<1>7. CASE a.res # "run"
  <2> DEFINE P == {k \in 0 .. n : /\ g[k].res = "run" => g[k].done = k
                                  /\ g[k].done <= k
                                  /\ g[k].val = g[g[k].done].val
                                  /\ \A i \in 0 .. g[k].done : g[i].res = "run" /\ g[i].done = i}
  <2>1. 0 \in P
    BY <1>0, <1>3
  <2>2. \A i \in 0 .. n : (i \in P /\ i + 1 <= n) => i + 1 \in P
    <3> SUFFICES ASSUME NEW i \in 0 .. n, i \in P, i + 1 <= n PROVE i + 1 \in P
        OBVIOUS
    <3>1. i + 1 \in 1 .. n /\ (i + 1) - 1 = i /\ i + 1 \in 0 .. n
        BY <1>0
    <3>2. g[i + 1] = Perform(adj, g[i], s[i + 1]) /\ g[i] \in Rounds /\ g[i + 1] \in Rounds /\ s[i + 1] \in SopSet
        BY <1>0, <1>3, <3>1
    <3>3. /\ g[i].res # "run" => g[i + 1] = g[i]
          /\ g[i + 1].res # "run" => g[i + 1].val = g[i].val /\ g[i + 1].done = g[i].done
          /\ g[i + 1].res = "run" => g[i].res = "run" /\ g[i + 1].done = g[i].done + 1
      <4>1. PICK x \in Rounds, sop \in SopSet : x = g[i] /\ sop = s[i + 1]
        BY <3>2
      <4>2. /\ x.res # "run" => Perform(adj, x, sop) = x
            /\ Perform(adj, x, sop).res # "run" =>
                  Perform(adj, x, sop).val = x.val /\ Perform(adj, x, sop).done = x.done
            /\ Perform(adj, x, sop).res = "run" => x.res = "run" /\ Perform(adj, x, sop).done = x.done + 1
        BY PerformType
      <4> QED BY <3>2, <4>1, <4>2
    <3>4. g[i].done \in Nat /\ g[i + 1].done \in Nat
        BY <3>2 DEF Rounds
    <3> QED BY <3>1, <3>3, <3>4
  <2> HIDE DEF P
  <2>3. n \in P
    <3>1. \A i \in 0 .. n : i \in P
        BY <1>0, <2>1, <2>2, StepInduction
    <3>2. n \in 0 .. n
        BY <1>0
    <3> QED BY <3>1, <3>2
  <2>4. PICK d \in 0 .. n : d = a.done
    BY <1>0, <1>3, <1>4, <2>3 DEF P, Rounds
  <2>5. a.val = g[d].val /\ \A i \in 0 .. d : g[i].res = "run"
    BY <1>3, <2>3, <2>4 DEF P
  <2> DEFINE t == SubSeq(s, 1, d)
  <2>6. t \in Seq(SopSet) /\ Len(t) = d /\ \A k \in 1 .. d : t[k] = s[k]
    BY <1>0
  <2> HIDE DEF t
  <2>8. a.val \in [Sems -> Int]
    BY <1>4, SemAssumption DEF Rounds, Values
  <2>9. PICK h \in [0 .. d -> [Sems -> Int]] :
                 /\ h[0] = a.val
                 /\ \A k \in 1 .. d : h[k] = TakeBack(h[k - 1], t[k])
                 /\ FoldLeft(TakeBack, a.val, t) = h[d]
    BY <2>6, <2>8, TakeBackFold, Zenon
  <2>10. \A i \in 0 .. d : g[i] \in Rounds /\ g[i].val \in [Sems -> Int] /\ h[i] \in [Sems -> Int]
    <3> SUFFICES ASSUME NEW i \in 0 .. d
                 PROVE  g[i] \in Rounds /\ g[i].val \in [Sems -> Int] /\ h[i] \in [Sems -> Int]
        OBVIOUS
    <3>1. i \in 0 .. n
        BY <1>0
    <3>2. g[i] \in Rounds /\ h[i] \in [Sems -> Int]
        BY <1>3, <2>9, <3>1
    <3>3. g[i].val \in [Sems -> 0 .. SEMVMX] /\ SEMVMX \in Nat
        BY <3>2, SemAssumption DEF Rounds, Values
    <3> QED BY <3>2, <3>3
  <2> DEFINE Q == {k \in 0 .. d : \A m \in Sems : h[k][m] + g[k].val[m] = a.val[m] + val[m]}
  <2>11. 0 \in Q
    BY <1>3, <2>9, <1>0
  <2>12. \A i \in 0 .. d : (i \in Q /\ i + 1 <= d) => i + 1 \in Q
    <3> SUFFICES ASSUME NEW i \in 0 .. d, i \in Q, i + 1 <= d, NEW m \in Sems
                 PROVE  h[i + 1][m] + g[i + 1].val[m] = a.val[m] + val[m]
      <4>1. \A i \in 0 .. d : i + 1 <= d => i + 1 \in 0 .. d
        BY <1>0
      <4> QED BY <4>1
    <3>1. i + 1 \in 1 .. d /\ (i + 1) - 1 = i /\ i + 1 \in 0 .. d /\ i + 1 \in 1 .. n /\ i \in 0 .. d
        BY <1>0
    <3>2. s[i + 1] \in SopSet /\ g[i] \in Rounds /\ g[i + 1] = Perform(adj, g[i], s[i + 1]) /\ g[i + 1].res = "run"
        BY <1>0, <1>3, <2>5, <2>10, <3>1
    <3>3. PICK sop \in SopSet : sop = s[i + 1]
        BY <3>2
    <3>4. g[i + 1].val = [g[i].val EXCEPT ![sop.num] = g[i].val[sop.num] + sop.op]
      <4>1. PICK x \in Rounds : x = g[i]
        BY <3>2
      <4>2. Perform(adj, x, sop).res = "run" /\ g[i + 1].val = Perform(adj, x, sop).val
        BY <3>2, <3>3, <4>1
      <4>3. Perform(adj, x, sop).val = Performed(x, sop)
        BY <4>2, PerformValue, Zenon
      <4> QED BY <4>1, <4>2, <4>3 DEF Performed
    <3>5. h[i + 1] = [h[i] EXCEPT ![sop.num] = h[i][sop.num] - sop.op]
        BY <2>6, <2>9, <3>1, <3>3 DEF TakeBack
    <3>6. /\ g[i].val \in [Sems -> Int] /\ h[i] \in [Sems -> Int] /\ sop.num \in Sems /\ sop.op \in Int
          /\ h[i][m] + g[i].val[m] = a.val[m] + val[m]
        BY <2>10 DEF SopSet
    <3>7. CASE m = sop.num
      <4>1. g[i + 1].val[m] = g[i].val[m] + sop.op /\ h[i + 1][m] = h[i][m] - sop.op
        BY <3>4, <3>5, <3>6, <3>7
      <4>2. h[i][m] \in Int /\ g[i].val[m] \in Int
        BY <3>6
      <4> QED BY <4>1, <4>2, <3>6
    <3>8. CASE m # sop.num
      <4>1. g[i + 1].val[m] = g[i].val[m] /\ h[i + 1][m] = h[i][m]
        BY <3>4, <3>5, <3>6, <3>8
      <4> QED BY <4>1, <3>6
    <3> QED BY <3>7, <3>8
  <2> HIDE DEF Q
  <2>13. d \in Q
    <3>1. d \in Nat /\ d \in 0 .. d
        BY <1>0
    <3>2. \A i \in 0 .. d : i \in Q
        BY <3>1, <2>11, <2>12, StepInduction
    <3> QED BY <3>1, <3>2
  <2>14. \A m \in Sems : h[d][m] = val[m]
    <3> SUFFICES ASSUME NEW m \in Sems PROVE h[d][m] = val[m]
        OBVIOUS
    <3>1. h[d][m] + a.val[m] = a.val[m] + val[m]
        BY <2>5, <2>13 DEF Q
    <3>2. h[d][m] \in Int /\ a.val[m] \in Int /\ val[m] \in Int
        BY <2>8, <2>9, SemAssumption DEF Values
    <3> QED BY <3>1, <3>2
  <2>15. h[d] = val
    BY <2>9, <2>14 DEF Values
  <2>16. Rollback(a.val, s, a.done) = val
    BY <2>4, <2>9, <2>15 DEF Rollback, t
  <2>17. try_atomic_semop(val, adj, s) = [res |-> a.res, val |-> Rollback(a.val, s, a.done), adj |-> adj]
    BY <1>7, Zenon DEF try_atomic_semop, a
  <2>18. a.res \in {"block", "EAGAIN", "ERANGE"}
    BY <1>4, <1>7 DEF Rounds, Results
  <2> QED BY <2>16, <2>17, <2>18
<1> QED BY <1>6, <1>7

(* exit_sem() keeps the values in range.                                   *)
LEMMA AdjustType ==
    ASSUME NEW val \in Values, NEW adj \in Adjs
    PROVE  Adjust(val, adj) \in Values
<1> SUFFICES ASSUME NEW n \in Sems
             PROVE  (IF val[n] + adj[n] < 0 THEN 0
                     ELSE IF val[n] + adj[n] > SEMVMX THEN SEMVMX ELSE val[n] + adj[n]) \in 0 .. SEMVMX
  BY DEF Adjust, Values
<1>1. val[n] \in Int /\ adj[n] \in Int /\ SEMVMX \in Nat
  BY SemAssumption DEF Values, Adjs, SEMAEM
<1> QED BY <1>1

(* The simple operations of a semaphore are pending ones.                  *)
LEMMA SimpleType ==
    ASSUME NEW a \in Arrays, NEW m, sem_pending[a] \in Seq(Tasks)
    PROVE  Simple(a, m) \in Seq(Pending(a))
<1>a. sem_pending[a] \in Seq(Pending(a))
  <2>1. \A i \in 1 .. Len(sem_pending[a]) : sem_pending[a][i] \in Pending(a)
    BY DEF Pending, ToSet
  <2> QED BY <2>1, SeqDef
<1>b. PICK S, s, b : S = Pending(a) /\ s = sem_pending[a] /\ b = <<>>
  OBVIOUS
<1>c. s \in Seq(S) /\ b \in Seq(S)
  BY <1>a, <1>b
<1> DEFINE n == Len(s)
           h == [iv \in (1 .. n) \X Seq(S) |-> AddSimple(m, iv[2], s[iv[1]])]
<1>1. n \in Nat /\ DOMAIN s = 1 .. n /\ \A i \in 1 .. n : s[i] \in S
  BY <1>c
<1>2. \A i \in 1 .. n, v \in Seq(S) : AddSimple(m, v, s[i]) \in Seq(S)
  BY <1>1, SimpleStep
<1>3. h \in [(1 .. n) \X Seq(S) -> Seq(S)]
  <2> SUFFICES ASSUME NEW iv \in (1 .. n) \X Seq(S) PROVE AddSimple(m, iv[2], s[iv[1]]) \in Seq(S)
    OBVIOUS
  <2>1. iv[1] \in 1 .. n /\ iv[2] \in Seq(S)
    OBVIOUS
  <2> QED BY <1>2, <2>1
<1>4. \A i \in 1 .. n, v \in Seq(S) : h[<<i, v>>] = AddSimple(m, v, s[i])
  OBVIOUS
<1> HIDE DEF h
<1>5. PICK e \in [SUBSET (1 .. n) -> Seq(S)] : LeftFold(e, n, b, h)
  BY <1>1, <1>3, <1>c, LeftFoldExists
<1> DEFINE Eq(f) == f = [U \in SUBSET DOMAIN s |-> IF U = {} THEN b ELSE AddSimple(m, f[U \ {Max(U)}], s[Max(U)])]
           f0 == CHOOSE f : Eq(f)
<1>6. Eq(e)
  <2>1. \A U \in SUBSET DOMAIN s : e[U] = IF U = {} THEN b ELSE AddSimple(m, e[U \ {Max(U)}], s[Max(U)])
    <3> SUFFICES ASSUME NEW U \in SUBSET (1 .. n)
                 PROVE  e[U] = IF U = {} THEN b ELSE AddSimple(m, e[U \ {Max(U)}], s[Max(U)])
        BY <1>1
    <3>1. e[U] = IF U = {} THEN b ELSE h[<<Max(U), e[U \ {Max(U)}]>>]
        BY <1>5 DEF LeftFold
    <3>2. e[U \ {Max(U)}] \in Seq(S)
        OBVIOUS
    <3>3. U # {} => Max(U) \in 1 .. n
        BY <1>1, MaxIn
    <3> QED BY <1>4, <3>1, <3>2, <3>3
  <2>2. e = [U \in SUBSET DOMAIN s |-> e[U]]
    BY <1>1
  <2>3. [U \in SUBSET DOMAIN s |-> e[U]] = [U \in SUBSET DOMAIN s |-> IF U = {} THEN b ELSE AddSimple(m, e[U \ {Max(U)}], s[Max(U)])]
    BY <2>1, Zenon
  <2> QED BY <2>2, <2>3, Zenon
<1>7. Simple(a, m) = f0[DOMAIN s]
  BY <1>b, Zenon DEF Simple, FoldLeft, MapThenFoldSet
<1>8. Eq(f0)
  BY <1>6, Zenon
<1> HIDE DEF f0
<1>9. \A U \in SUBSET DOMAIN s : f0[U] = IF U = {} THEN b ELSE AddSimple(m, f0[U \ {Max(U)}], s[Max(U)])
  BY <1>8, Zenon
<1> HIDE DEF Eq
<1>10. f0[1 .. 0] = b
  <2>1. 1 .. 0 = {} /\ {} \in SUBSET DOMAIN s
    OBVIOUS
  <2> QED BY <1>9, <2>1
<1>11. \A k \in 1 .. n : f0[1 .. k] = AddSimple(m, f0[1 .. (k - 1)], s[k])
  <2> SUFFICES ASSUME NEW k \in 1 .. n PROVE f0[1 .. k] = AddSimple(m, f0[1 .. (k - 1)], s[k])
    OBVIOUS
  <2>1. /\ Max(1 .. k) = k /\ (1 .. k) \ {k} = 1 .. (k - 1)
        /\ 1 .. k # {} /\ 1 .. k \in SUBSET DOMAIN s
    BY <1>1, PrefixMax
  <2>2. PICK U : U = 1 .. k
    OBVIOUS
  <2>3. f0[U] = AddSimple(m, f0[U \ {Max(U)}], s[Max(U)])
    BY <1>9, <2>1, <2>2
  <2> QED BY <2>1, <2>2, <2>3
<1>12a. \A i \in 0 .. n : i + 1 <= n => i + 1 \in 1 .. n /\ (i + 1) - 1 = i /\ i + 1 \in 0 .. n
  BY <1>1
<1> DEFINE P == {k \in 0 .. n : f0[1 .. k] \in Seq(S)}
<1>12. 0 \in P
  BY <1>1, <1>10, <1>c
<1>13. \A i \in 0 .. n : (i \in P /\ i + 1 <= n) => i + 1 \in P
  <2> SUFFICES ASSUME NEW i \in 0 .. n, i \in P, i + 1 <= n PROVE i + 1 \in P
    OBVIOUS
  <2>1. i + 1 \in 1 .. n /\ (i + 1) - 1 = i /\ i + 1 \in 0 .. n
    BY <1>12a
  <2>2. f0[1 .. (i + 1)] = AddSimple(m, f0[1 .. i], s[i + 1])
    BY <1>11, <2>1
  <2> QED BY <1>2, <2>1, <2>2
<1> HIDE DEF P
<1>14. \A i \in 0 .. n : i \in P
  BY <1>1, <1>12, <1>13, StepInduction
<1> DEFINE g == [k \in 0 .. n |-> f0[1 .. k]]
<1>15. g \in [0 .. n -> Seq(S)] /\ g[0] = b
  BY <1>1, <1>10, <1>14 DEF P
<1>17. Simple(a, m) = g[n]
  <2>1. f0[DOMAIN s] = g[n]
    BY <1>1
  <2> HIDE DEF g
  <2> QED BY <1>7, <2>1, Zenon
<1>18. n \in 0 .. n
  BY <1>1
<1> HIDE DEF g
<1>19. g[n] \in Seq(S)
  BY <1>15, <1>18
<1> QED BY <1>b, <1>17, <1>19

-----------------------------------------------------------------------------
(* Constants.                                                              *)

(* The constants, as the proofs use them.                                  *)
LEMMA Consts ==
    /\ Cmds \subseteq {"SETVAL", "SETALL", "GETALL", "RMID"} /\ \A s \in SopSeqs : s # <<>>
    /\ Tasks \subseteq Procs /\ Ctls \subseteq Procs /\ NoArr \notin Arrays /\ NoProc \notin Procs
    /\ Children \subseteq Tasks /\ Tasks \cap Ctls = {} /\ NoProc \notin Tasks /\ NoProc \notin Ctls
    /\ IsFiniteSet(Procs) /\ IsFiniteSet(Tasks) /\ IsFiniteSet(Arrays)
<1>1. Tasks \subseteq Procs /\ Ctls \subseteq Procs
  BY DEF Procs
<1>2. IsFiniteSet(Tasks)
  BY <1>1, SemConstants, FS_Subset
<1> QED BY <1>1, <1>2, SemConstants

(* Tasks and controllers are apart, and "none" is neither.                 *)
LEMMA Kinds ==
    /\ Tasks \subseteq Procs /\ Ctls \subseteq Procs /\ NoArr \notin Arrays /\ NoProc \notin Procs
    /\ Tasks \cap Ctls = {} /\ NoProc \notin Tasks /\ NoProc \notin Ctls
    BY Consts

(* Where each lookup waits.                                                *)
LEMMA LockLabels ==
    /\ DOMAIN LockLabel = {"find", "ufind", "rfind", "cfind", "xfind"}
    /\ LockLabel["find"] = "lock" /\ LockLabel["ufind"] = "ulock" /\ LockLabel["rfind"] = "relock"
    /\ LockLabel["cfind"] = "clock" /\ LockLabel["xfind"] = "xlock"
    /\ {LockLabel[l] : l \in DOMAIN LockLabel} = Waiting
<1>1. /\ DOMAIN LockLabel = {"find", "ufind", "rfind", "cfind", "xfind"}
      /\ LockLabel["find"] = "lock" /\ LockLabel["ufind"] = "ulock" /\ LockLabel["rfind"] = "relock"
      /\ LockLabel["cfind"] = "clock" /\ LockLabel["xfind"] = "xlock"
  BY DEF LockLabel
<1> QED BY <1>1 DEF Waiting

(* The id of a set, or of a call, has a slot.                              *)
LEMMA SlotOf ==
    ASSUME TypeInv
    PROVE  /\ \A a \in Arrays : IdOf[a] \in Ids /\ IdOf[a][1] \in Slots
           /\ \A p \in Procs : semid[p] \in Ids /\ semid[p][1] \in Slots
    BY DEF TypeInv, Slots, Ids

-----------------------------------------------------------------------------
(* Every label belongs to its call.                                        *)
LEMMA CallStep ==
    ASSUME TypeInv, CallInv, Next
    PROVE  CallInv'
<1> USE DEF Holding, Waiting, Referring, WakingUp, QueuePcs, StepsOf
<1>t. /\ pc \in [Procs -> Labels] /\ cmd \in [Procs -> Cmds \cup {"none", "SEMOP", "EXIT"}]
      /\ sops \in [Procs -> SopSeqs \cup {<<>>}] /\ sma \in [Procs -> Arrays \cup {NoArr}]
      /\ walk \in [Procs -> Nat] /\ tasks \in [Procs -> Seq(Tasks)]
      /\ idr \in [Slots -> Arrays \cup {NoArr}]
  BY DEF TypeInv
<1>c. \A q \in Procs : CallAt(q)
  BY DEF CallInv
<1>k. /\ Cmds \subseteq {"SETVAL", "SETALL", "GETALL", "RMID"} /\ \A s \in SopSeqs : s # <<>>
      /\ Tasks \subseteq Procs /\ Ctls \subseteq Procs /\ NoArr \notin Arrays
      /\ Children \subseteq Tasks /\ Tasks \cap Ctls = {}
  BY Consts
<1>ipc_find. ASSUME NEW p \in Procs, ipc_find(p) PROVE CallInv'
  <2>0. /\ pc[p] \in {"find", "ufind", "rfind", "cfind", "xfind"}
        /\ pc'[p] = LockLabel[pc[p]] /\ sma'[p] \in Arrays
    BY <1>ipc_find, <1>t, LockLabels, SlotOf DEF ipc_find, Goto
  <2>1. p \in Procs /\ (\A q \in Procs : q # p => pc'[q] = pc[q]) /\ cmd' = cmd /\ sops' = sops /\ (\A q \in Procs : q # p => sma'[q] = sma[q]) /\ walk' = walk /\ tasks' = tasks
    BY <1>ipc_find, <1>t, <1>k DEF ipc_find, LockLabel, Goto, args, arrayv, life, lists, ns, queue,
      scanv, sched, ulpv
  <2>2. CallAt(p)'
    <3>1. CallAt(p)
        BY <1>c, <2>1
    <3>2. pc'[p] \in StepsOf(cmd'[p])
        BY <2>0, <2>1, <3>1, LockLabels DEF CallAt
    <3>3. pc'[p] = "scan" => walk'[p] >= 1
        BY <1>t, <2>0, <2>1, <3>1, LockLabels DEF CallAt
    <3>4. pc'[p] \in Waiting \cup Holding \cup Referring \cup WakingUp => sma'[p] \in Arrays
        BY <2>0, <2>1, <3>1 DEF CallAt
    <3>5. pc'[p] # "set" /\ (pc'[p] \notin {"smart", "scan"} \cup WakingUp => tasks'[p] = <<>>)
        BY <2>0, <2>1, <3>1, LockLabels DEF CallAt
    <3> QED BY <2>1, <3>1, <3>2, <3>3, <3>4, <3>5 DEF CallAt
  <2>3. \A q \in Procs : q # p => CallAt(q)'
    BY <1>c, <2>1 DEF CallAt
  <2> QED BY <2>2, <2>3 DEF CallInv
<1>lookup_fails. ASSUME NEW p \in Procs, lookup_fails(p) PROVE CallInv'
  <2>0. /\ pc[p] \in {"find", "ufind", "rfind", "cfind", "xfind"} \cup Waiting
        /\ pc'[p] = IF cmd[p] = "EXIT" THEN "xread" ELSE "ret"
    BY <1>lookup_fails, <1>t, LockLabels DEF lookup_fails, Missing, Goto, Return
  <2>1. p \in Procs /\ (\A q \in Procs : q # p => pc'[q] = pc[q]) /\ UNCHANGED <<cmd, sops, sma, walk,
                                                                                 tasks>>
    BY <1>lookup_fails, <1>t, <1>k DEF lookup_fails, Missing, LockLabel, Goto, Return, args,
      arrayv, lists, queue, scanv, ulpv
  <2>2. CallAt(p)'
    BY <1>t, <1>c, <1>k, <2>0, <2>1 DEF CallAt
  <2>3. \A q \in Procs : q # p => CallAt(q)'
    BY <1>c, <2>1 DEF CallAt
  <2> QED BY <2>2, <2>3 DEF CallInv
<1>syscall_exit. ASSUME NEW p \in Procs, syscall_exit(p) PROVE CallInv'
  <2>1. p \in Procs /\ (\A q \in Procs : q # p => pc'[q] = pc[q]) /\ (\A q \in Procs : q # p => cmd'[q] = cmd[q]) /\ (\A q \in Procs : q # p => sops'[q] = sops[q]) /\ (\A q \in Procs : q # p => sma'[q] = sma[q]) /\ (\A q \in Procs : q # p => walk'[q] = walk[q]) /\ tasks' = tasks
    BY <1>syscall_exit, <1>t, <1>k DEF syscall_exit, Goto, NoUndo, arrayv, life, lists, ns, ulpv
  <2>2. CallAt(p)'
    BY <1>syscall_exit, <1>t, <1>c, <1>k, <2>1 DEF syscall_exit, Goto, NoUndo, arrayv, life, lists,
      ns, ulpv, CallAt
  <2>3. \A q \in Procs : q # p => CallAt(q)'
    BY <1>c, <2>1 DEF CallAt
  <2> QED BY <2>2, <2>3 DEF CallInv
<1>find_undo. ASSUME NEW p \in Procs, find_undo(p) PROVE CallInv'
  <2>1. p \in Procs /\ (\A q \in Procs : q # p => pc'[q] = pc[q]) /\ UNCHANGED <<cmd, sops, sma, walk,
                                                                                 tasks>>
    BY <1>find_undo, <1>t, <1>k DEF find_undo, Goto, args, arrayv, life, ns, queue, scanv, sched
  <2>2. CallAt(p)'
    BY <1>find_undo, <1>t, <1>c, <1>k, <2>1 DEF find_undo, Goto, args, arrayv, life, ns, queue,
      scanv, sched, CallAt
  <2>3. \A q \in Procs : q # p => CallAt(q)'
    BY <1>c, <2>1 DEF CallAt
  <2> QED BY <2>2, <2>3 DEF CallInv
<1>undo_getref. ASSUME NEW p \in Procs, undo_getref(p) PROVE CallInv'
  <2>1. p \in Procs /\ (\A q \in Procs : q # p => pc'[q] = pc[q]) /\ UNCHANGED <<cmd, sops, sma, walk,
                                                                                 tasks>>
    BY <1>undo_getref, <1>t, <1>k DEF undo_getref, Found, Missing, LockLabel, Goto, args, arrayv,
      lists, ns, queue, scanv, sched, ulpv
  <2>2. CallAt(p)'
    BY <1>undo_getref, <1>t, <1>c, <1>k, <2>1 DEF undo_getref, Found, Missing, LockLabel, Goto,
      args, arrayv, lists, ns, queue, scanv, sched, ulpv, CallAt
  <2>3. \A q \in Procs : q # p => CallAt(q)'
    BY <1>c, <2>1 DEF CallAt
  <2> QED BY <2>2, <2>3 DEF CallInv
<1>undo_enomem. ASSUME NEW p \in Procs, undo_enomem(p) PROVE CallInv'
  <2>1. p \in Procs /\ (\A q \in Procs : q # p => pc'[q] = pc[q]) /\ UNCHANGED <<cmd, sops, sma, walk,
                                                                                 tasks>>
    BY <1>undo_enomem, <1>t, <1>k DEF undo_enomem, Return, Goto, args, arrayv, lists, ns, queue,
      scanv, ulpv
  <2>2. CallAt(p)'
    BY <1>undo_enomem, <1>t, <1>c, <1>k, <2>1 DEF undo_enomem, Return, Goto, args, arrayv, lists,
      ns, queue, scanv, ulpv, CallAt
  <2>3. \A q \in Procs : q # p => CallAt(q)'
    BY <1>c, <2>1 DEF CallAt
  <2> QED BY <2>2, <2>3 DEF CallInv
<1>undo_link. ASSUME NEW p \in Procs, undo_link(p) PROVE CallInv'
  <2>1. p \in Procs /\ (\A q \in Procs : q # p => pc'[q] = pc[q]) /\ UNCHANGED <<cmd, sops, sma, walk,
                                                                                 tasks>>
    BY <1>undo_link, <1>t, <1>k DEF undo_link, Return, Goto, args, arrayv, lists, ns, queue, scanv,
      ulpv
  <2>2. CallAt(p)'
    BY <1>undo_link, <1>t, <1>c, <1>k, <2>1 DEF undo_link, Return, Goto, args, arrayv, lists, ns,
      queue, scanv, ulpv, CallAt
  <2>3. \A q \in Procs : q # p => CallAt(q)'
    BY <1>c, <2>1 DEF CallAt
  <2> QED BY <2>2, <2>3 DEF CallInv
<1>semop_return. ASSUME NEW p \in Procs, semop_return(p) PROVE CallInv'
  <2>1. p \in Procs /\ (\A q \in Procs : q # p => pc'[q] = pc[q]) /\ UNCHANGED <<cmd, sops, sma, walk,
                                                                                 tasks>>
    BY <1>semop_return, <1>t, <1>k DEF semop_return, Found, Missing, LockLabel, Return, Goto, args,
      arrayv, lists, ns, queue, scanv, ulpv
  <2>2. CallAt(p)'
    BY <1>semop_return, <1>t, <1>c, <1>k, <2>1 DEF semop_return, Found, Missing, LockLabel, Return,
      Goto, args, arrayv, lists, ns, queue, scanv, ulpv, CallAt
  <2>3. \A q \in Procs : q # p => CallAt(q)'
    BY <1>c, <2>1 DEF CallAt
  <2> QED BY <2>2, <2>3 DEF CallInv
<1>semop_alter. ASSUME NEW p \in Procs, semop_alter(p) PROVE CallInv'
  <2>1. p \in Procs /\ (\A q \in Procs : q # p => pc'[q] = pc[q]) /\ UNCHANGED <<cmd, sops, sma, walk,
                                                                                 tasks>>
    BY <1>semop_alter, <1>t, <1>k DEF semop_alter, Found, Missing, LockLabel, Goto, args, life,
      lists, ns, queue, sched, ulpv
  <2>2. CallAt(p)'
    BY <1>semop_alter, <1>t, <1>c, <1>k, <2>1 DEF semop_alter, Found, Missing, LockLabel, Goto,
      args, life, lists, ns, queue, sched, ulpv, CallAt
  <2>3. \A q \in Procs : q # p => CallAt(q)'
    BY <1>c, <2>1 DEF CallAt
  <2> QED BY <2>2, <2>3 DEF CallInv
<1>semop_sleep. ASSUME NEW p \in Procs, semop_sleep(p) PROVE CallInv'
  <2>1. p \in Procs /\ (\A q \in Procs : q # p => pc'[q] = pc[q]) /\ UNCHANGED <<cmd, sops, sma, walk,
                                                                                 tasks>>
    BY <1>semop_sleep, <1>t, <1>k DEF semop_sleep, Found, Missing, LockLabel, Goto, args, lists,
      ns, scanv, ulpv
  <2>2. CallAt(p)'
    BY <1>semop_sleep, <1>t, <1>c, <1>k, <2>1 DEF semop_sleep, Found, Missing, LockLabel, Goto,
      args, lists, ns, scanv, ulpv, CallAt
  <2>3. \A q \in Procs : q # p => CallAt(q)'
    BY <1>c, <2>1 DEF CallAt
  <2> QED BY <2>2, <2>3 DEF CallInv
<1>semop_wake. ASSUME NEW p \in Procs, semop_wake(p) PROVE CallInv'
  <2>1. p \in Procs /\ (\A q \in Procs : q # p => pc'[q] = pc[q]) /\ UNCHANGED <<cmd, sops, sma, walk,
                                                                                 tasks>>
    BY <1>semop_wake, <1>t, <1>k DEF semop_wake, Goto, args, arrayv, life, lists, ns, queue, scanv,
      ulpv
  <2>2. CallAt(p)'
    BY <1>semop_wake, <1>t, <1>c, <1>k, <2>1 DEF semop_wake, Goto, args, arrayv, life, lists, ns,
      queue, scanv, ulpv, CallAt
  <2>3. \A q \in Procs : q # p => CallAt(q)'
    BY <1>c, <2>1 DEF CallAt
  <2> QED BY <2>2, <2>3 DEF CallInv
<1>semop_result. ASSUME NEW p \in Procs, semop_result(p) PROVE CallInv'
  <2>1. p \in Procs /\ (\A q \in Procs : q # p => pc'[q] = pc[q]) /\ UNCHANGED <<cmd, sops, sma, walk,
                                                                                 tasks>>
    BY <1>semop_result, <1>t, <1>k DEF semop_result, Return, Goto, args, arrayv, life, lists, ns,
      queue, scanv, ulpv
  <2>2. CallAt(p)'
    BY <1>semop_result, <1>t, <1>c, <1>k, <2>1 DEF semop_result, Return, Goto, args, arrayv, life,
      lists, ns, queue, scanv, ulpv, CallAt
  <2>3. \A q \in Procs : q # p => CallAt(q)'
    BY <1>c, <2>1 DEF CallAt
  <2> QED BY <2>2, <2>3 DEF CallInv
<1>semop_relock. ASSUME NEW p \in Procs, semop_relock(p) PROVE CallInv'
  <2>1. p \in Procs /\ (\A q \in Procs : q # p => pc'[q] = pc[q]) /\ UNCHANGED <<cmd, sops, sma, walk,
                                                                                 tasks>>
    BY <1>semop_relock, <1>t, <1>k DEF semop_relock, Found, Missing, LockLabel, Goto, args, arrayv,
      life, lists, ns, queue, scanv, sched, ulpv
  <2>2. CallAt(p)'
    BY <1>semop_relock, <1>t, <1>c, <1>k, <2>1 DEF semop_relock, Found, Missing, LockLabel, Goto,
      args, arrayv, life, lists, ns, queue, scanv, sched, ulpv, CallAt
  <2>3. \A q \in Procs : q # p => CallAt(q)'
    BY <1>c, <2>1 DEF CallAt
  <2> QED BY <2>2, <2>3 DEF CallInv
<1>semop_recheck. ASSUME NEW p \in Procs, semop_recheck(p) PROVE CallInv'
  <2>1. p \in Procs /\ (\A q \in Procs : q # p => pc'[q] = pc[q]) /\ UNCHANGED <<cmd, sops, sma, walk,
                                                                                 tasks>>
    BY <1>semop_recheck, <1>t, <1>k DEF semop_recheck, Return, Goto, args, lists, ns, queue, scanv,
      ulpv
  <2>2. CallAt(p)'
    BY <1>semop_recheck, <1>t, <1>c, <1>k, <2>1 DEF semop_recheck, Return, Goto, args, lists, ns,
      queue, scanv, ulpv, CallAt
  <2>3. \A q \in Procs : q # p => CallAt(q)'
    BY <1>c, <2>1 DEF CallAt
  <2> QED BY <2>2, <2>3 DEF CallInv
<1>do_smart_update. ASSUME NEW p \in Procs, do_smart_update(p) PROVE CallInv'
  <2>0. pc[p] = "smart" /\ ((pc'[p] = "scan" /\ walk'[p] = 1) \/ pc'[p] = "wake")
    BY <1>do_smart_update, <1>t DEF do_smart_update, Scan, Goto
  <2>1. p \in Procs /\ (\A q \in Procs : q # p => pc'[q] = pc[q]) /\ UNCHANGED <<cmd, sops, sma>> /\ (\A q \in Procs : q # p => walk'[q] = walk[q]) /\ tasks' = tasks
    BY <1>do_smart_update, <1>t, <1>k DEF do_smart_update, Scan, Goto, args, arrayv, lists, ns,
      queue, sched, ulpv
  <2>2. CallAt(p)'
    <3>1. CallAt(p)
        BY <1>c, <2>1
    <3>2. pc'[p] \in StepsOf(cmd'[p])
        BY <2>0, <2>1, <3>1, LockLabels DEF CallAt
    <3>3. pc'[p] = "scan" => walk'[p] >= 1
        BY <1>t, <2>0, <2>1, <3>1, LockLabels DEF CallAt
    <3>4. pc'[p] \in Waiting \cup Holding \cup Referring \cup WakingUp => sma'[p] \in Arrays
        BY <2>0, <2>1, <3>1 DEF CallAt
    <3>5. pc'[p] # "set" /\ (pc'[p] \notin {"smart", "scan"} \cup WakingUp => tasks'[p] = <<>>)
        BY <2>0, <2>1, <3>1, LockLabels DEF CallAt
    <3> QED BY <2>1, <3>1, <3>2, <3>3, <3>4, <3>5 DEF CallAt
  <2>3. \A q \in Procs : q # p => CallAt(q)'
    BY <1>c, <2>1 DEF CallAt
  <2> QED BY <2>2, <2>3 DEF CallInv
<1>update_end. ASSUME NEW p \in Procs, update_end(p) PROVE CallInv'
  <2>1. p \in Procs /\ (\A q \in Procs : q # p => pc'[q] = pc[q]) /\ UNCHANGED <<cmd, sops, sma, walk,
                                                                                 tasks>>
    BY <1>update_end, <1>t, <1>k DEF update_end, Goto, args, arrayv, life, lists, ns, queue, scanv,
      sched, ulpv
  <2>2. CallAt(p)'
    BY <1>update_end, <1>t, <1>c, <1>k, <2>1 DEF update_end, Goto, args, arrayv, life, lists, ns,
      queue, scanv, sched, ulpv, CallAt
  <2>3. \A q \in Procs : q # p => CallAt(q)'
    BY <1>c, <2>1 DEF CallAt
  <2> QED BY <2>2, <2>3 DEF CallInv
<1>update_skip. ASSUME NEW p \in Procs, update_skip(p) PROVE CallInv'
  <2>0. pc[p] = "scan" /\ walk'[p] = walk[p] + 1 /\ walk[p] \in Nat
    BY <1>update_skip, <1>t DEF update_skip
  <2>1. p \in Procs /\ UNCHANGED <<pc, cmd, sops, sma>> /\ (\A q \in Procs : q # p => walk'[q] = walk[q]) /\ tasks' = tasks
    BY <1>update_skip, <1>t, <1>k DEF update_skip, args, arrayv, life, lists, ns, queue, sched, ulpv
  <2>2. CallAt(p)'
    <3>1. CallAt(p)
        BY <1>c, <2>1
    <3>2. pc'[p] \in StepsOf(cmd'[p])
        BY <2>0, <2>1, <3>1, LockLabels DEF CallAt
    <3>3. pc'[p] = "scan" => walk'[p] >= 1
        BY <1>t, <2>0, <2>1, <3>1, LockLabels DEF CallAt
    <3>4. pc'[p] \in Waiting \cup Holding \cup Referring \cup WakingUp => sma'[p] \in Arrays
        BY <2>0, <2>1, <3>1 DEF CallAt
    <3>5. pc'[p] # "set" /\ (pc'[p] \notin {"smart", "scan"} \cup WakingUp => tasks'[p] = <<>>)
        BY <2>0, <2>1, <3>1, LockLabels DEF CallAt
    <3> QED BY <2>1, <3>1, <3>2, <3>3, <3>4, <3>5 DEF CallAt
  <2>3. \A q \in Procs : q # p => CallAt(q)'
    BY <1>c, <2>1 DEF CallAt
  <2> QED BY <2>2, <2>3 DEF CallInv
<1>update_complete. ASSUME NEW p \in Procs, update_complete(p) PROVE CallInv'
  <2>0. pc[p] = "scan" /\ walk'[p] \in {1, walk[p]}
    BY <1>update_complete, <1>t DEF update_complete
  <2>1. p \in Procs /\ UNCHANGED <<pc, cmd, sops, sma>> /\ (\A q \in Procs : q # p => walk'[q] = walk[q]) /\ (\A q \in Procs : q # p => tasks'[q] = tasks[q])
    BY <1>update_complete, <1>t, <1>k DEF update_complete, args, life, lists, ns, sched, ulpv
  <2>2. CallAt(p)'
    <3>1. CallAt(p)
        BY <1>c, <2>1
    <3>2. pc'[p] \in StepsOf(cmd'[p])
        BY <2>0, <2>1, <3>1, LockLabels DEF CallAt
    <3>3. pc'[p] = "scan" => walk'[p] >= 1
        BY <1>t, <2>0, <2>1, <3>1, LockLabels DEF CallAt
    <3>4. pc'[p] \in Waiting \cup Holding \cup Referring \cup WakingUp => sma'[p] \in Arrays
        BY <2>0, <2>1, <3>1 DEF CallAt
    <3>5. pc'[p] # "set" /\ (pc'[p] \notin {"smart", "scan"} \cup WakingUp => tasks'[p] = <<>>)
        BY <2>0, <2>1, <3>1, LockLabels DEF CallAt
    <3> QED BY <2>1, <3>1, <3>2, <3>3, <3>4, <3>5 DEF CallAt
  <2>3. \A q \in Procs : q # p => CallAt(q)'
    BY <1>c, <2>1 DEF CallAt
  <2> QED BY <2>2, <2>3 DEF CallInv
<1>wake_next. ASSUME NEW p \in Procs, wake_next(p) PROVE CallInv'
  <2>1. p \in Procs /\ (\A q \in Procs : q # p => pc'[q] = pc[q]) /\ UNCHANGED <<cmd, sops, sma, walk,
                                                                                 tasks>>
    BY <1>wake_next, <1>t, <1>k DEF wake_next, Goto, args, arrayv, life, lists, ns, queue, scanv,
      ulpv
  <2>2. CallAt(p)'
    BY <1>wake_next, <1>t, <1>c, <1>k, <2>1 DEF wake_next, Goto, args, arrayv, life, lists, ns,
      queue, scanv, ulpv, CallAt
  <2>3. \A q \in Procs : q # p => CallAt(q)'
    BY <1>c, <2>1 DEF CallAt
  <2> QED BY <2>2, <2>3 DEF CallInv
<1>wake_set. ASSUME NEW p \in Procs, wake_set(p) PROVE CallInv'
  <2>1. p \in Procs /\ (\A q \in Procs : q # p => pc'[q] = pc[q]) /\ UNCHANGED <<cmd, sops, sma, walk>> /\ (\A q \in Procs : q # p => tasks'[q] = tasks[q])
    BY <1>wake_set, <1>t, <1>k DEF wake_set, Goto, args, arrayv, life, lists, ns, sched, ulpv
  <2>2. CallAt(p)'
    BY <1>wake_set, <1>t, <1>c, <1>k, <2>1 DEF wake_set, Goto, args, arrayv, life, lists, ns,
      sched, ulpv, CallAt
  <2>3. \A q \in Procs : q # p => CallAt(q)'
    BY <1>c, <2>1 DEF CallAt
  <2> QED BY <2>2, <2>3 DEF CallInv
<1>wake_done. ASSUME NEW p \in Procs, wake_done(p) PROVE CallInv'
  <2>1. p \in Procs /\ (\A q \in Procs : q # p => pc'[q] = pc[q]) /\ UNCHANGED <<cmd, sops, sma, walk,
                                                                                 tasks>>
    BY <1>wake_done, <1>t, <1>k DEF wake_done, Return, Goto, args, arrayv, life, lists, queue,
      scanv, ulpv
  <2>2. CallAt(p)'
    BY <1>wake_done, <1>t, <1>c, <1>k, <2>1 DEF wake_done, Return, Goto, args, arrayv, life, lists,
      queue, scanv, ulpv, CallAt
  <2>3. \A q \in Procs : q # p => CallAt(q)'
    BY <1>c, <2>1 DEF CallAt
  <2> QED BY <2>2, <2>3 DEF CallInv
<1>ctl_fail. ASSUME NEW p \in Procs, ctl_fail(p) PROVE CallInv'
  <2>1. p \in Procs /\ (\A q \in Procs : q # p => pc'[q] = pc[q]) /\ UNCHANGED <<cmd, sops, sma, walk,
                                                                                 tasks>>
    BY <1>ctl_fail, <1>t, <1>k DEF ctl_fail, Found, Missing, LockLabel, Return, Goto, args, arrayv,
      lists, queue, scanv, ulpv
  <2>2. CallAt(p)'
    BY <1>ctl_fail, <1>t, <1>c, <1>k, <2>1 DEF ctl_fail, Found, Missing, LockLabel, Return, Goto,
      args, arrayv, lists, queue, scanv, ulpv, CallAt
  <2>3. \A q \in Procs : q # p => CallAt(q)'
    BY <1>c, <2>1 DEF CallAt
  <2> QED BY <2>2, <2>3 DEF CallInv
<1>setval. ASSUME NEW p \in Procs, setval(p) PROVE CallInv'
  <2>1. p \in Procs /\ (\A q \in Procs : q # p => pc'[q] = pc[q]) /\ UNCHANGED <<cmd, sops, sma, walk,
                                                                                 tasks>>
    BY <1>setval, <1>t, <1>k DEF setval, Found, Missing, LockLabel, Goto, args, life, lists, ns,
      queue, sched, ulpv
  <2>2. CallAt(p)'
    BY <1>setval, <1>t, <1>c, <1>k, <2>1 DEF setval, Found, Missing, LockLabel, Goto, args, life,
      lists, ns, queue, sched, ulpv, CallAt
  <2>3. \A q \in Procs : q # p => CallAt(q)'
    BY <1>c, <2>1 DEF CallAt
  <2> QED BY <2>2, <2>3 DEF CallInv
<1>all_getref. ASSUME NEW p \in Procs, all_getref(p) PROVE CallInv'
  <2>1. p \in Procs /\ (\A q \in Procs : q # p => pc'[q] = pc[q]) /\ UNCHANGED <<cmd, sops, sma, walk,
                                                                                 tasks>>
    BY <1>all_getref, <1>t, <1>k DEF all_getref, Found, Missing, LockLabel, Goto, args, arrayv,
      lists, ns, queue, scanv, sched, ulpv
  <2>2. CallAt(p)'
    BY <1>all_getref, <1>t, <1>c, <1>k, <2>1 DEF all_getref, Found, Missing, LockLabel, Goto, args,
      arrayv, lists, ns, queue, scanv, sched, ulpv, CallAt
  <2>3. \A q \in Procs : q # p => CallAt(q)'
    BY <1>c, <2>1 DEF CallAt
  <2> QED BY <2>2, <2>3 DEF CallInv
<1>all_fail. ASSUME NEW p \in Procs, all_fail(p) PROVE CallInv'
  <2>1. p \in Procs /\ (\A q \in Procs : q # p => pc'[q] = pc[q]) /\ UNCHANGED <<cmd, sops, sma, walk,
                                                                                 tasks>>
    BY <1>all_fail, <1>t, <1>k DEF all_fail, Return, Goto, args, arrayv, lists, ns, queue, scanv,
      ulpv
  <2>2. CallAt(p)'
    BY <1>all_fail, <1>t, <1>c, <1>k, <2>1 DEF all_fail, Return, Goto, args, arrayv, lists, ns,
      queue, scanv, ulpv, CallAt
  <2>3. \A q \in Procs : q # p => CallAt(q)'
    BY <1>c, <2>1 DEF CallAt
  <2> QED BY <2>2, <2>3 DEF CallInv
<1>getall. ASSUME NEW p \in Procs, getall(p) PROVE CallInv'
  <2>1. p \in Procs /\ (\A q \in Procs : q # p => pc'[q] = pc[q]) /\ UNCHANGED <<cmd, sops, sma, walk,
                                                                                 tasks>>
    BY <1>getall, <1>t, <1>k DEF getall, Return, Goto, args, arrayv, lists, ns, queue, scanv, ulpv
  <2>2. CallAt(p)'
    BY <1>getall, <1>t, <1>c, <1>k, <2>1 DEF getall, Return, Goto, args, arrayv, lists, ns, queue,
      scanv, ulpv, CallAt
  <2>3. \A q \in Procs : q # p => CallAt(q)'
    BY <1>c, <2>1 DEF CallAt
  <2> QED BY <2>2, <2>3 DEF CallInv
<1>setall. ASSUME NEW p \in Procs, setall(p) PROVE CallInv'
  <2>1. p \in Procs /\ (\A q \in Procs : q # p => pc'[q] = pc[q]) /\ UNCHANGED <<cmd, sops, sma, walk,
                                                                                 tasks>>
    BY <1>setall, <1>t, <1>k DEF setall, Return, Goto, args, lists, ns, queue, ulpv
  <2>2. CallAt(p)'
    BY <1>setall, <1>t, <1>c, <1>k, <2>1 DEF setall, Return, Goto, args, lists, ns, queue, ulpv,
      CallAt
  <2>3. \A q \in Procs : q # p => CallAt(q)'
    BY <1>c, <2>1 DEF CallAt
  <2> QED BY <2>2, <2>3 DEF CallInv
<1>freeary. ASSUME NEW p \in Procs, freeary(p) PROVE CallInv'
  <2>1. p \in Procs /\ (\A q \in Procs : q # p => pc'[q] = pc[q]) /\ UNCHANGED <<cmd, sops, sma, walk,
                                                                                 tasks>>
    BY <1>freeary, <1>t, <1>k DEF freeary, Found, Missing, LockLabel, Goto, args, arrayv, life,
      lists, ns, queue, scanv, sched, ulpv
  <2>2. CallAt(p)'
    BY <1>freeary, <1>t, <1>c, <1>k, <2>1 DEF freeary, Found, Missing, LockLabel, Goto, args,
      arrayv, life, lists, ns, queue, scanv, sched, ulpv, CallAt
  <2>3. \A q \in Procs : q # p => CallAt(q)'
    BY <1>c, <2>1 DEF CallAt
  <2> QED BY <2>2, <2>3 DEF CallInv
<1>freeary_invalidate. ASSUME NEW p \in Procs, freeary_invalidate(p) PROVE CallInv'
  <2>1. p \in Procs /\ (\A q \in Procs : q # p => pc'[q] = pc[q]) /\ UNCHANGED <<cmd, sops, sma, walk,
                                                                                 tasks>>
    BY <1>freeary_invalidate, <1>t, <1>k DEF freeary_invalidate, Goto, args, arrayv, life, ns,
      queue, scanv, sched
  <2>2. CallAt(p)'
    BY <1>freeary_invalidate, <1>t, <1>c, <1>k, <2>1 DEF freeary_invalidate, Goto, args, arrayv,
      life, ns, queue, scanv, sched, CallAt
  <2>3. \A q \in Procs : q # p => CallAt(q)'
    BY <1>c, <2>1 DEF CallAt
  <2> QED BY <2>2, <2>3 DEF CallInv
<1>freeary_unlink. ASSUME NEW p \in Procs, freeary_unlink(p) PROVE CallInv'
  <2>1. p \in Procs /\ (\A q \in Procs : q # p => pc'[q] = pc[q]) /\ UNCHANGED <<cmd, sops, sma, walk,
                                                                                 tasks>>
    BY <1>freeary_unlink, <1>t, <1>k DEF freeary_unlink, Goto, args, arrayv, life, ns, queue,
      scanv, sched
  <2>2. CallAt(p)'
    BY <1>freeary_unlink, <1>t, <1>c, <1>k, <2>1 DEF freeary_unlink, Goto, args, arrayv, life, ns,
      queue, scanv, sched, CallAt
  <2>3. \A q \in Procs : q # p => CallAt(q)'
    BY <1>c, <2>1 DEF CallAt
  <2> QED BY <2>2, <2>3 DEF CallInv
<1>freeary_rmid. ASSUME NEW p \in Procs, freeary_rmid(p) PROVE CallInv'
  <2>1. p \in Procs /\ (\A q \in Procs : q # p => pc'[q] = pc[q]) /\ UNCHANGED <<cmd, sops, sma, walk>> /\ (\A q \in Procs : q # p => tasks'[q] = tasks[q])
    BY <1>freeary_rmid, <1>t, <1>k DEF freeary_rmid, Goto, args, lists, sched, ulpv
  <2>2. CallAt(p)'
    BY <1>freeary_rmid, <1>t, <1>c, <1>k, <2>1 DEF freeary_rmid, Goto, args, lists, sched, ulpv,
      CallAt
  <2>3. \A q \in Procs : q # p => CallAt(q)'
    BY <1>c, <2>1 DEF CallAt
  <2> QED BY <2>2, <2>3 DEF CallInv
<1>freeary_putref. ASSUME NEW p \in Procs, freeary_putref(p) PROVE CallInv'
  <2>1. p \in Procs /\ (\A q \in Procs : q # p => pc'[q] = pc[q]) /\ UNCHANGED <<cmd, sops, sma, walk,
                                                                                 tasks>>
    BY <1>freeary_putref, <1>t, <1>k DEF freeary_putref, Return, Goto, args, arrayv, lists, queue,
      scanv, ulpv
  <2>2. CallAt(p)'
    BY <1>freeary_putref, <1>t, <1>c, <1>k, <2>1 DEF freeary_putref, Return, Goto, args, arrayv,
      lists, queue, scanv, ulpv, CallAt
  <2>3. \A q \in Procs : q # p => CallAt(q)'
    BY <1>c, <2>1 DEF CallAt
  <2> QED BY <2>2, <2>3 DEF CallInv
<1>exit_read. ASSUME NEW p \in Procs, exit_read(p) PROVE CallInv'
  <2>1. p \in Procs /\ (\A q \in Procs : q # p => pc'[q] = pc[q]) /\ UNCHANGED <<cmd, sops, sma, walk,
                                                                                 tasks>>
    BY <1>exit_read, <1>t, <1>k DEF exit_read, Goto, arrayv, life, lists, ns, queue, scanv, sched,
      ulpv
  <2>2. CallAt(p)'
    BY <1>exit_read, <1>t, <1>c, <1>k, <2>1 DEF exit_read, Goto, arrayv, life, lists, ns, queue,
      scanv, sched, ulpv, CallAt
  <2>3. \A q \in Procs : q # p => CallAt(q)'
    BY <1>c, <2>1 DEF CallAt
  <2> QED BY <2>2, <2>3 DEF CallInv
<1>exit_done. ASSUME NEW p \in Procs, exit_done(p) PROVE CallInv'
  <2>1. p \in Procs /\ (\A q \in Procs : q # p => pc'[q] = pc[q]) /\ UNCHANGED <<cmd, sops, sma, walk,
                                                                                 tasks>>
    BY <1>exit_done, <1>t, <1>k DEF exit_done, Goto, args, arrayv, life, lists, ns, queue, scanv,
      sched
  <2>2. CallAt(p)'
    BY <1>exit_done, <1>t, <1>c, <1>k, <2>1 DEF exit_done, Goto, args, arrayv, life, lists, ns,
      queue, scanv, sched, CallAt
  <2>3. \A q \in Procs : q # p => CallAt(q)'
    BY <1>c, <2>1 DEF CallAt
  <2> QED BY <2>2, <2>3 DEF CallInv
<1>exit_reread. ASSUME NEW p \in Procs, exit_reread(p) PROVE CallInv'
  <2>1. p \in Procs /\ (\A q \in Procs : q # p => pc'[q] = pc[q]) /\ UNCHANGED <<cmd, sops, sma, walk,
                                                                                 tasks>>
    BY <1>exit_reread, <1>t, <1>k DEF exit_reread, Goto, args, arrayv, life, lists, ns, queue,
      scanv, sched, ulpv
  <2>2. CallAt(p)'
    BY <1>exit_reread, <1>t, <1>c, <1>k, <2>1 DEF exit_reread, Goto, args, arrayv, life, lists, ns,
      queue, scanv, sched, ulpv, CallAt
  <2>3. \A q \in Procs : q # p => CallAt(q)'
    BY <1>c, <2>1 DEF CallAt
  <2> QED BY <2>2, <2>3 DEF CallInv
<1>exit_raced. ASSUME NEW p \in Procs, exit_raced(p) PROVE CallInv'
  <2>1. p \in Procs /\ (\A q \in Procs : q # p => pc'[q] = pc[q]) /\ UNCHANGED <<cmd, sops, sma, walk,
                                                                                 tasks>>
    BY <1>exit_raced, <1>t, <1>k DEF exit_raced, Found, Missing, LockLabel, Goto, args, arrayv,
      lists, ns, queue, scanv, sched, ulpv
  <2>2. CallAt(p)'
    BY <1>exit_raced, <1>t, <1>c, <1>k, <2>1 DEF exit_raced, Found, Missing, LockLabel, Goto, args,
      arrayv, lists, ns, queue, scanv, sched, ulpv, CallAt
  <2>3. \A q \in Procs : q # p => CallAt(q)'
    BY <1>c, <2>1 DEF CallAt
  <2> QED BY <2>2, <2>3 DEF CallInv
<1>exit_adjust. ASSUME NEW p \in Procs, exit_adjust(p) PROVE CallInv'
  <2>1. p \in Procs /\ (\A q \in Procs : q # p => pc'[q] = pc[q]) /\ UNCHANGED <<cmd, sops, sma, walk,
                                                                                 tasks>>
    BY <1>exit_adjust, <1>t, <1>k DEF exit_adjust, Found, Missing, LockLabel, Goto, args, life, ns,
      queue, sched, ulpv
  <2>2. CallAt(p)'
    BY <1>exit_adjust, <1>t, <1>c, <1>k, <2>1 DEF exit_adjust, Found, Missing, LockLabel, Goto,
      args, life, ns, queue, sched, ulpv, CallAt
  <2>3. \A q \in Procs : q # p => CallAt(q)'
    BY <1>c, <2>1 DEF CallAt
  <2> QED BY <2>2, <2>3 DEF CallInv
<1>newary. ASSUME NEW p \in Ctls, newary(p) PROVE CallInv'
  BY <1>newary, <1>c DEF newary, args, arrayv, lists, queue, scanv, sched, ulpv, CallInv, CallAt
<1>semctl. ASSUME NEW p \in Ctls, semctl(p) PROVE CallInv'
  <2>1. p \in Procs /\ (\A q \in Procs : q # p => pc'[q] = pc[q]) /\ (\A q \in Procs : q # p => cmd'[q] = cmd[q]) /\ UNCHANGED <<
                                                                                                                                 sops,
                                                                                                                                 sma,
                                                                                                                                 walk,
                                                                                                                                 tasks>>
    BY <1>semctl, <1>t, <1>k DEF semctl, Ids, Goto, arrayv, life, lists, queue, scanv, sched, ulpv
  <2>2. CallAt(p)'
    BY <1>semctl, <1>t, <1>c, <1>k, <2>1 DEF semctl, Ids, Goto, arrayv, life, lists, queue, scanv,
      sched, ulpv, CallAt
  <2>3. \A q \in Procs : q # p => CallAt(q)'
    BY <1>c, <2>1 DEF CallAt
  <2> QED BY <2>2, <2>3 DEF CallInv
<1>semop. ASSUME NEW p \in Tasks, semop(p) PROVE CallInv'
  <2>0. pc[p] = "idle" /\ cmd'[p] = "SEMOP" /\ sops'[p] \in SopSeqs /\ pc'[p] \in {"undo", "find"}
    <3>1. PICK s \in SopSeqs : sops' = [sops EXCEPT ![p] = s] /\ Goto(p, IF Undoes(s) THEN "undo" ELSE "find")
        BY <1>semop DEF semop
    <3> QED BY <1>semop, <1>t, <1>k, <3>1 DEF semop, Goto
  <2>1. p \in Procs /\ (\A q \in Procs : q # p => pc'[q] = pc[q]) /\ (\A q \in Procs : q # p => cmd'[q] = cmd[q]) /\ (\A q \in Procs : q # p => sops'[q] = sops[q]) /\ UNCHANGED <<
                                                                                                                                                                                   sma,
                                                                                                                                                                                   walk,
                                                                                                                                                                                   tasks>>
    BY <1>semop, <1>t, <1>k DEF semop, Ids, Goto, arrayv, life, lists, ns, queue, scanv, sched, ulpv
  <2>2. CallAt(p)'
    BY <1>t, <1>c, <1>k, <2>0, <2>1 DEF CallAt
  <2>3. \A q \in Procs : q # p => CallAt(q)'
    BY <1>c, <2>1 DEF CallAt
  <2> QED BY <2>2, <2>3 DEF CallInv
<1>Signal. ASSUME NEW p \in Tasks, Signal(p) PROVE CallInv'
  BY <1>Signal, <1>c DEF Signal, args, arrayv, life, lists, ns, queue, scanv, ulpv, CallInv, CallAt
<1>exit_sem. ASSUME NEW p \in Tasks, exit_sem(p) PROVE CallInv'
  <2>0. pc[p] = "idle" /\ cmd'[p] = "EXIT" /\ sops'[p] = <<>> /\ pc'[p] \in {"dead", "xread"}
    BY <1>exit_sem, <1>t, <1>k DEF exit_sem, Goto
  <2>1. p \in Procs /\ (\A q \in Procs : q # p => pc'[q] = pc[q]) /\ (\A q \in Procs : q # p => cmd'[q] = cmd[q]) /\ (\A q \in Procs : q # p => sops'[q] = sops[q]) /\ UNCHANGED <<
                                                                                                                                                                                   sma,
                                                                                                                                                                                   walk,
                                                                                                                                                                                   tasks>>
    BY <1>exit_sem, <1>t, <1>k DEF exit_sem, Goto, arrayv, life, lists, ns, queue, scanv, sched
  <2>2. CallAt(p)'
    BY <1>t, <1>c, <1>k, <2>0, <2>1 DEF CallAt
  <2>3. \A q \in Procs : q # p => CallAt(q)'
    BY <1>c, <2>1 DEF CallAt
  <2> QED BY <2>2, <2>3 DEF CallInv
<1>copy_semundo. ASSUME NEW p \in Tasks, NEW c \in Children, copy_semundo(p, c) PROVE CallInv'
  <2>1. c \in Procs /\ (\A q \in Procs : q # c => pc'[q] = pc[q]) /\ UNCHANGED <<cmd, sops, sma, walk,
                                                                                 tasks>>
    BY <1>copy_semundo, <1>t, <1>k DEF copy_semundo, Goto, args, arrayv, life, lists, ns, queue,
      scanv, sched
  <2>2. CallAt(c)'
    BY <1>copy_semundo, <1>t, <1>c, <1>k, <2>1 DEF copy_semundo, Goto, args, arrayv, life, lists,
      ns, queue, scanv, sched, CallAt
  <2>3. \A q \in Procs : q # c => CallAt(q)'
    BY <1>c, <2>1 DEF CallAt
  <2> QED BY <2>2, <2>3 DEF CallInv
<1>free_un. ASSUME NEW u \in Tasks, NEW a \in Arrays, free_un(u, a) PROVE CallInv'
  BY <1>free_un, <1>c DEF free_un, args, arrayv, life, lists, ns, queue, scanv, sched, ulpv,
    CallInv, CallAt
<1>ipc_immediate_free. ASSUME NEW a \in Arrays, ipc_immediate_free(a) PROVE CallInv'
  BY <1>ipc_immediate_free, <1>c DEF ipc_immediate_free, args, arrayv, lists, ns, queue, scanv,
    sched, ulpv, CallInv, CallAt
<1> QED BY <1>ipc_find, <1>lookup_fails, <1>syscall_exit, <1>find_undo, <1>undo_getref,
  <1>undo_enomem, <1>undo_link, <1>semop_return, <1>semop_alter, <1>semop_sleep, <1>semop_wake,
  <1>semop_result, <1>semop_relock, <1>semop_recheck, <1>do_smart_update, <1>update_end,
  <1>update_skip, <1>update_complete, <1>wake_next, <1>wake_set, <1>wake_done, <1>ctl_fail,
  <1>setval, <1>all_getref, <1>all_fail, <1>getall, <1>setall, <1>freeary, <1>freeary_invalidate,
  <1>freeary_unlink, <1>freeary_rmid, <1>freeary_putref, <1>exit_read, <1>exit_done,
  <1>exit_reread, <1>exit_raced, <1>exit_adjust, <1>newary, <1>semctl, <1>semop, <1>Signal,
  <1>exit_sem, <1>copy_semundo, <1>free_un, <1>ipc_immediate_free DEF Next, Step

-----------------------------------------------------------------------------
(* Undo structures.                                                        *)

-----------------------------------------------------------------------------
(* Undo structures.                                                        *)

UnRecs == [mem : Mems, valid : BOOLEAN, semadj : Adjs, grace : SUBSET Procs]
Uns == [Tasks -> [Arrays -> UnRecs]]

(* The type of the undo structures, with the set of all such functions     *)
(* named.                                                                  *)
LEMMA UnType == ASSUME TypeInv PROVE un \in Uns
    BY DEF TypeInv, Uns, UnRecs

(* One structure is replaced.                                              *)
UnPutAt(u, a, r) == un' = [un EXCEPT ![u] = [un[u] EXCEPT ![a] = r]]

(* One undo structure changes.                                             *)
LEMMA UnPut ==
    ASSUME un \in Uns, NEW u \in Tasks, NEW a \in Arrays, NEW r \in UnRecs, UnPutAt(u, a, r)
    PROVE  /\ un' \in Uns /\ un'[u][a] = r
           /\ \A v \in Tasks, b \in Arrays : v # u \/ b # a => un'[v][b] = un[v][b]
<1>1. un[u] \in [Arrays -> UnRecs]
  BY DEF Uns
<1>2. [un[u] EXCEPT ![a] = r] \in [Arrays -> UnRecs]
  BY <1>1
<1>3. un' \in Uns /\ un'[u] = [un[u] EXCEPT ![a] = r] /\ \A v \in Tasks : v # u => un'[v] = un[v]
  BY <1>2 DEF Uns, UnPutAt
<1> QED BY <1>1, <1>3

(* rcu_read_unlock(): the callbacks no longer wait for p.                  *)
LEMMA LeaveEffect ==
    ASSUME TypeInv, NEW p \in Procs, Leave(p)
    PROVE  /\ readers' = readers \ {p} /\ readers' \subseteq Procs
           /\ grace' \in [Arrays -> SUBSET Procs] /\ un' \in Uns
           /\ \A b \in Arrays : grace'[b] = grace[b] \ {p}
           /\ \A v \in Tasks, b \in Arrays :
                /\ un'[v][b].mem = un[v][b].mem /\ un'[v][b].valid = un[v][b].valid
                /\ un'[v][b].grace = un[v][b].grace \ {p} /\ un'[v][b].semadj = un[v][b].semadj
<1>1. un \in Uns /\ readers \subseteq Procs /\ grace \in [Arrays -> SUBSET Procs]
  BY UnType DEF TypeInv
<1>2. \A v \in Tasks, b \in Arrays : un[v][b] \in UnRecs
  BY <1>1 DEF Uns
<1>3. un' = [v \in Tasks |-> [b \in Arrays |-> [un[v][b] EXCEPT !.grace = un[v][b].grace \ {p}]]]
  BY DEF Leave
<1>4. \A v \in Tasks, b \in Arrays : un'[v][b] = [un[v][b] EXCEPT !.grace = un[v][b].grace \ {p}]
  BY <1>3
<1>5. \A v \in Tasks, b \in Arrays :
        /\ un'[v][b] \in UnRecs
        /\ un'[v][b].mem = un[v][b].mem /\ un'[v][b].valid = un[v][b].valid
        /\ un'[v][b].grace = un[v][b].grace \ {p} /\ un'[v][b].semadj = un[v][b].semadj
  <2> SUFFICES ASSUME NEW v \in Tasks, NEW b \in Arrays
               PROVE  /\ un'[v][b] \in UnRecs
                      /\ un'[v][b].mem = un[v][b].mem /\ un'[v][b].valid = un[v][b].valid
                      /\ un'[v][b].grace = un[v][b].grace \ {p} /\ un'[v][b].semadj = un[v][b].semadj
    OBVIOUS
  <2>1. PICK x : x = un[v][b]
    OBVIOUS
  <2>2. x \in UnRecs /\ un'[v][b] = [x EXCEPT !.grace = x.grace \ {p}]
    BY <1>2, <1>4, <2>1
  <2> QED BY <2>1, <2>2 DEF UnRecs
<1>6. un' \in Uns
  <2>1. \A v \in Tasks : un'[v] = [b \in Arrays |-> un'[v][b]]
    BY <1>3
  <2>2. \A v \in Tasks : un'[v] \in [Arrays -> UnRecs]
    BY <1>5, <2>1
  <2> QED BY <1>3, <2>2 DEF Uns
<1> QED BY <1>1, <1>5, <1>6 DEF Leave

(* call_rcu(): the structure waits for the readers of now.                 *)
LEMMA RcuEffect ==
    ASSUME TypeInv, NEW u \in Tasks, NEW a \in Arrays, call_rcu(u, a)
    PROVE  /\ un' \in Uns
           /\ un'[u][a].mem = "rcu" /\ un'[u][a].grace = readers /\ un'[u][a].valid = un[u][a].valid
           /\ \A v \in Tasks, b \in Arrays : v # u \/ b # a => un'[v][b] = un[v][b]
<1>r. PICK r : r = [un[u][a] EXCEPT !.mem = "rcu", !.grace = readers]
  OBVIOUS
<1>1. un \in Uns /\ un[u][a] \in UnRecs /\ readers \subseteq Procs
  BY UnType DEF Uns, TypeInv
<1>2. /\ r \in UnRecs /\ r.mem = "rcu" /\ r.grace = readers /\ r.valid = un[u][a].valid
  BY <1>r, <1>1 DEF UnRecs, Mems
<1>3. UnPutAt(u, a, r)
  BY <1>r, <1>1 DEF call_rcu, Uns, UnRecs, UnPutAt
<1>4. /\ un' \in Uns /\ un'[u][a] = r
      /\ \A v \in Tasks, b \in Arrays : v # u \/ b # a => un'[v][b] = un[v][b]
  BY <1>1, <1>2, <1>3, UnPut
<1> QED BY <1>2, <1>4

(* The adjustments of an operation are stored.                             *)
LEMMA StoreEffect ==
    ASSUME TypeInv, NEW a \in Arrays, NEW q \in Procs, NEW w \in Values, NEW d \in Adjs,
           undo[q].set # NoArr => undo[q].list \in Tasks, Store(a, q, w, d)
    PROVE  /\ semval' \in [Arrays -> Values] /\ un' \in Uns
           /\ \A v \in Tasks, b \in Arrays :
                /\ un'[v][b].mem = un[v][b].mem /\ un'[v][b].valid = un[v][b].valid
                /\ un'[v][b].grace = un[v][b].grace
<1>1. un \in Uns /\ semval \in [Arrays -> Values]
  BY UnType DEF TypeInv
<1>2. semval' \in [Arrays -> Values]
  BY <1>1 DEF Store
<1>3. CASE undo[q].set = NoArr
  BY <1>1, <1>2, <1>3 DEF Store
<1>4. CASE undo[q].set # NoArr
  <2>1. PICK u \in Tasks, s \in Arrays : u = undo[q].list /\ s = undo[q].set
    BY <1>4 DEF TypeInv
  <2>r. PICK r : r = [un[u][s] EXCEPT !.semadj = d]
    OBVIOUS
  <2>2. un[u][s] \in UnRecs
    BY <1>1 DEF Uns
  <2>3. r \in UnRecs /\ r.mem = un[u][s].mem /\ r.valid = un[u][s].valid /\ r.grace = un[u][s].grace
    BY <2>r, <2>2 DEF UnRecs
  <2>4. UnPutAt(u, s, r)
    BY <2>r, <1>1, <1>4, <2>1 DEF Store, Uns, UnRecs, UnPutAt
  <2>5. /\ un' \in Uns /\ un'[u][s] = r
        /\ \A v \in Tasks, b \in Arrays : v # u \/ b # s => un'[v][b] = un[v][b]
    BY <1>1, <2>3, <2>4, UnPut
  <2> QED BY <2>r, <1>2, <2>3, <2>5
<1> QED BY <1>3, <1>4

(* SETVAL and SETALL clear adjustments only.                               *)
LEMMA ClearEffect ==
    ASSUME TypeInv, NEW a \in Arrays, NEW S, un' = ClearAdjs(a, S)
    PROVE  /\ un' \in Uns
           /\ \A v \in Tasks, b \in Arrays :
                /\ un'[v][b].mem = un[v][b].mem /\ un'[v][b].valid = un[v][b].valid
                /\ un'[v][b].grace = un[v][b].grace
<1> DEFINE z(v) == [n \in Sems |-> IF n \in S THEN 0 ELSE un[v][a].semadj[n]]
           r(v) == [un[v][a] EXCEPT !.semadj = z(v)]
<1>1. un \in Uns /\ \A v \in Tasks, b \in Arrays : un[v][b] \in UnRecs
  BY UnType DEF Uns
<1>2. \A v \in Tasks : z(v) \in Adjs
  <2> TAKE v \in Tasks
  <2>1. un[v][a].semadj \in Adjs
    BY <1>1 DEF UnRecs
  <2>2. SEMAEM \in Nat
    BY SemAssumption DEF SEMAEM
  <2> QED BY <2>1, <2>2 DEF Adjs
<1> HIDE DEF z
<1>3. \A v \in Tasks : /\ r(v) \in UnRecs /\ r(v).mem = un[v][a].mem /\ r(v).valid = un[v][a].valid
                       /\ r(v).grace = un[v][a].grace
  BY <1>1, <1>2 DEF UnRecs
<1>4. \A v \in Tasks : un'[v] = IF v \notin list_id[a] THEN un[v] ELSE [un[v] EXCEPT ![a] = r(v)]
  <2> TAKE v \in Tasks
  <2>1. un[v][a] \in UnRecs
    BY <1>1
  <2> QED BY <1>1, <2>1 DEF ClearAdjs, z, Uns, UnRecs
<1> HIDE DEF r
<1>5. \A v \in Tasks : un'[v] \in [Arrays -> UnRecs]
  BY <1>1, <1>3, <1>4 DEF Uns
<1>6. un' \in Uns
  <2>1. un' = [v \in Tasks |-> un'[v]]
    BY DEF ClearAdjs
  <2> QED BY <1>5, <2>1 DEF Uns
<1>7. \A v \in Tasks, b \in Arrays : un'[v][b] = un[v][b] \/ (b = a /\ un'[v][b] = r(v))
  BY <1>1, <1>4 DEF Uns
<1> QED BY <1>3, <1>6, <1>7

(* freeary(): un->semid = -1.                                              *)
LEMMA InvalidEffect ==
    ASSUME TypeInv, NEW u \in Tasks, NEW a \in Arrays, un' = [un EXCEPT ![u][a].valid = FALSE]
    PROVE  /\ un' \in Uns
           /\ un'[u][a].valid = FALSE
           /\ \A v \in Tasks, b \in Arrays :
                /\ un'[v][b].mem = un[v][b].mem /\ un'[v][b].grace = un[v][b].grace
                /\ v # u \/ b # a => un'[v][b].valid = un[v][b].valid
<1>r. PICK r : r = [un[u][a] EXCEPT !.valid = FALSE]
  OBVIOUS
<1>1. un \in Uns /\ un[u][a] \in UnRecs
  BY UnType DEF Uns
<1>2. /\ r \in UnRecs /\ r.mem = un[u][a].mem /\ r.grace = un[u][a].grace /\ r.valid = FALSE
  BY <1>r, <1>1 DEF UnRecs
<1>3. UnPutAt(u, a, r)
  BY <1>r, <1>1 DEF Uns, UnRecs, UnPutAt
<1>4. /\ un' \in Uns /\ un'[u][a] = r
      /\ \A v \in Tasks, b \in Arrays : v # u \/ b # a => un'[v][b] = un[v][b]
  BY <1>1, <1>2, <1>3, UnPut
<1> QED BY <1>r, <1>2, <1>4

(* find_alloc_undo(): a new structure.                                     *)
LEMMA FreshEffect ==
    ASSUME TypeInv, NEW u \in Tasks, NEW a \in Arrays,
           un' = [un EXCEPT ![u][a] = [mem |-> "live", valid |-> TRUE, semadj |-> NoAdj, grace |-> {}]]
    PROVE  /\ un' \in Uns
           /\ un'[u][a].mem = "live" /\ un'[u][a].valid = TRUE /\ un'[u][a].grace = {}
           /\ \A v \in Tasks, b \in Arrays : v # u \/ b # a => un'[v][b] = un[v][b]
<1>r. PICK r : r = [mem |-> "live", valid |-> TRUE, semadj |-> NoAdj, grace |-> {}]
  OBVIOUS
<1>1. un \in Uns
  BY UnType
<1>2. NoAdj \in Adjs
  BY SemAssumption DEF NoAdj, Adjs, SEMAEM
<1>3. r \in UnRecs /\ r.mem = "live" /\ r.valid = TRUE /\ r.grace = {}
  BY <1>r, <1>2 DEF UnRecs, Mems
<1>4. UnPutAt(u, a, r)
  BY <1>r, <1>1 DEF Uns, UnPutAt
<1>5. /\ un' \in Uns /\ un'[u][a] = r
      /\ \A v \in Tasks, b \in Arrays : v # u \/ b # a => un'[v][b] = un[v][b]
  BY <1>1, <1>3, <1>4, UnPut
<1> QED BY <1>3, <1>5

(* free_un()                                                               *)
LEMMA FreeEffect ==
    ASSUME TypeInv, NEW u \in Tasks, NEW a \in Arrays, free_un(u, a)
    PROVE  /\ un' \in Uns
           /\ un'[u][a].mem = "freed" /\ un'[u][a].valid = un[u][a].valid
           /\ un[u][a].mem = "rcu" /\ un[u][a].grace = {}
           /\ \A v \in Tasks, b \in Arrays : v # u \/ b # a => un'[v][b] = un[v][b]
<1>r. PICK r : r = [un[u][a] EXCEPT !.mem = "freed", !.semadj = NoAdj]
  OBVIOUS
<1>1. un \in Uns /\ un[u][a] \in UnRecs
  BY UnType DEF Uns
<1>2. NoAdj \in Adjs
  BY SemAssumption DEF NoAdj, Adjs, SEMAEM
<1>3. /\ r \in UnRecs /\ r.mem = "freed" /\ r.valid = un[u][a].valid
  BY <1>r, <1>1, <1>2 DEF UnRecs, Mems
<1>4. UnPutAt(u, a, r)
  BY <1>r, <1>1 DEF free_un, Uns, UnRecs, UnPutAt
<1>5. un' \in Uns /\ un'[u][a] = r /\ \A v \in Tasks, b \in Arrays : v # u \/ b # a => un'[v][b] = un[v][b]
  BY <1>1, <1>3, <1>4, UnPut
<1> QED BY <1>r, <1>3, <1>5 DEF free_un

-----------------------------------------------------------------------------
(* Lists.                                                                  *)

(* list_del() keeps the type of a list.                                    *)
LEMMA RemoveFirstType ==
    ASSUME NEW S, NEW s \in Seq(S), NEW e
    PROVE  RemoveFirst(s, e) \in Seq(S)
<1>1. CASE \E i \in 1 .. Len(s) : s[i] = e
  <2> DEFINE T == {j \in 1 .. Len(s) : s[j] = e}
  <2>1. T \subseteq Nat /\ T # {} /\ T \subseteq 1 .. Len(s)
    BY <1>1
  <2>2. Min(T) \in T
    BY <2>1, MinOfNats
  <2>3. SelectInSeq(s, LAMBDA v : v = e) = Min(T)
    BY <1>1 DEF SelectInSeq
  <2>4. RemoveFirst(s, e) = RemoveAt(s, Min(T))
    BY <1>1, <2>3 DEF RemoveFirst
  <2> HIDE DEF T
  <2> QED BY <2>1, <2>2, <2>4, RemoveAtProps
<1>2. CASE ~ \E i \in 1 .. Len(s) : s[i] = e
  BY <1>2 DEF RemoveFirst
<1> QED BY <1>1, <1>2

(* list_add() of e in front.                                               *)
LEMMA ConsEntries ==
    ASSUME NEW S, NEW s \in Seq(S), NEW e \in S
    PROVE  /\ <<e>> \o s \in Seq(S) /\ ToSet(<<e>> \o s) = ToSet(s) \cup {e}
           /\ (IsInjective(s) /\ e \notin ToSet(s)) => IsInjective(<<e>> \o s)
<1> DEFINE t == <<e>> \o s
<1>1. /\ t \in Seq(S) /\ Len(t) = Len(s) + 1 /\ t[1] = e
      /\ \A j \in 2 .. Len(s) + 1 : t[j] = s[j - 1]
  OBVIOUS
<1> HIDE DEF t
<1>2. DOMAIN s = 1 .. Len(s) /\ DOMAIN t = 1 .. Len(s) + 1 /\ Len(s) \in Nat
  BY <1>1
<1>3. \A j \in DOMAIN s : j + 1 \in DOMAIN t /\ t[j + 1] = s[j]
  BY <1>1, <1>2
<1>4. ToSet(t) = ToSet(s) \cup {e}
  <2>1. ToSet(t) \subseteq ToSet(s) \cup {e}
    BY <1>1, <1>2 DEF ToSet
  <2>2. ToSet(s) \subseteq ToSet(t)
    BY <1>3 DEF ToSet
  <2>3. e \in ToSet(t)
    BY <1>1, <1>2 DEF ToSet
  <2> QED BY <2>1, <2>2, <2>3
<1>5. (IsInjective(s) /\ e \notin ToSet(s)) => IsInjective(t)
  <2> SUFFICES ASSUME IsInjective(s), e \notin ToSet(s), NEW i \in DOMAIN t, NEW j \in DOMAIN t, t[i] = t[j]
               PROVE  i = j
    BY DEF IsInjective
  <2>1. \A k \in DOMAIN t : k = 1 \/ (k - 1 \in DOMAIN s /\ t[k] = s[k - 1])
    BY <1>1, <1>2
  <2>2. \A k \in DOMAIN s : s[k] # e
    BY DEF ToSet
  <2>3. i \in Int /\ j \in Int
    BY <1>2
  <2> QED BY <1>1, <2>1, <2>2, <2>3 DEF IsInjective
<1> QED BY <1>1, <1>4, <1>5 DEF t

(* list_del_rcu(&un->list_proc)                                            *)
LEMMA UnlinkEffect ==
    ASSUME TypeInv, OnceLinked, NEW u \in Tasks, NEW a \in Arrays, unlink_proc(u, a)
    PROVE  /\ list_proc' \in [Tasks -> Seq(Arrays)] /\ IsInjective(list_proc'[u])
           /\ \A v \in Tasks : v # u => list_proc'[v] = list_proc[v]
           /\ ToSet(list_proc'[u]) = ToSet(list_proc[u]) \ {a}
<1>1. list_proc \in [Tasks -> Seq(Arrays)]
  BY DEF TypeInv
<1>2. PICK s \in Seq(Arrays) : s = list_proc[u]
  BY <1>1
<1>3. IsInjective(s)
  BY <1>2 DEF OnceLinked
<1>4. /\ RemoveFirst(s, a) \in Seq(Arrays) /\ IsInjective(RemoveFirst(s, a))
      /\ ToSet(RemoveFirst(s, a)) = ToSet(s) \ {a}
  BY <1>3, RemoveFirstEntries
<1>5. PICK t : t = RemoveFirst(s, a)
  OBVIOUS
<1>6. list_proc' = [list_proc EXCEPT ![u] = t]
  BY <1>2, <1>5 DEF unlink_proc
<1>7. t \in Seq(Arrays) /\ IsInjective(t) /\ ToSet(t) = ToSet(s) \ {a}
  BY <1>4, <1>5
<1> QED BY <1>1, <1>2, <1>6, <1>7

(* list_add_rcu(): in front, once.                                         *)
LEMMA FrontEffect ==
    ASSUME TypeInv, OnceLinked, NEW u \in Tasks, NEW a \in Arrays, ToFront(u, a)
    PROVE  /\ list_proc' \in [Tasks -> Seq(Arrays)] /\ IsInjective(list_proc'[u])
           /\ \A v \in Tasks : v # u => list_proc'[v] = list_proc[v]
           /\ ToSet(list_proc'[u]) = ToSet(list_proc[u]) \cup {a}
<1>1. list_proc \in [Tasks -> Seq(Arrays)]
  BY DEF TypeInv
<1>2. PICK s \in Seq(Arrays) : s = list_proc[u]
  BY <1>1
<1>3. IsInjective(s)
  BY <1>2 DEF OnceLinked
<1>4. /\ RemoveFirst(s, a) \in Seq(Arrays) /\ IsInjective(RemoveFirst(s, a))
      /\ ToSet(RemoveFirst(s, a)) = ToSet(s) \ {a}
  BY <1>3, RemoveFirstEntries
<1>5. PICK t, w : t = RemoveFirst(s, a) /\ w = <<a>> \o t
  OBVIOUS
<1>6. list_proc' = [list_proc EXCEPT ![u] = w]
  BY <1>2, <1>5 DEF ToFront
<1>7. t \in Seq(Arrays) /\ IsInjective(t) /\ ToSet(t) = ToSet(s) \ {a}
  BY <1>4, <1>5
<1>8. a \notin ToSet(t)
  BY <1>7
<1>9. w \in Seq(Arrays) /\ IsInjective(w) /\ ToSet(w) = ToSet(t) \cup {a}
  BY <1>5, <1>7, <1>8, ConsEntries
<1> QED BY <1>1, <1>2, <1>6, <1>7, <1>9

-----------------------------------------------------------------------------
(* References.                                                             *)

(* References held are counted.                                            *)
LEMMA HoldersFinite ==
    \A b : IsFiniteSet(Holders(b)) /\ Cardinality(Holders(b)) \in Nat
<1> TAKE b
<1>1. Holders(b) \subseteq Procs
  BY DEF Holders
<1> QED BY <1>1, Consts, FS_Subset, FS_CardinalityType

(* A task with a reference drops it, with the lock of the set.             *)
LEMMA PutEffect ==
    ASSUME TypeInv, ReferencesCovered, NEW a \in Arrays, NEW p \in Holders(a), Putref(a, refcount[a])
    PROVE  /\ mem' \in [Arrays -> Mems] /\ refcount' \in [Arrays -> Int]
           /\ grace' \in [Arrays -> SUBSET Procs]
           /\ \A b \in Arrays : b # a =>
                mem'[b] = mem[b] /\ refcount'[b] = refcount[b] /\ grace'[b] = grace[b]
           /\ mem[a] = "live" /\ refcount[a] >= 1 /\ refcount'[a] = refcount[a] - 1
           /\ refcount[a] >= Cardinality(Holders(a)) + (IF Counted(a) THEN 1 ELSE 0)
           /\ Cardinality(Holders(a)) >= 1
           /\ \/ refcount[a] > 1 /\ mem'[a] = mem[a] /\ grace'[a] = grace[a]
              \/ /\ refcount[a] = 1 /\ mem'[a] = "rcu" /\ grace'[a] = readers
                 /\ ~Counted(a) /\ Holders(a) \ {p} = {}
<1>1. /\ mem \in [Arrays -> Mems] /\ refcount \in [Arrays -> Int]
      /\ grace \in [Arrays -> SUBSET Procs] /\ readers \subseteq Procs
  BY DEF TypeInv
<1>2. mem[a] = "live" /\ refcount[a] >= Cardinality(Holders(a)) + (IF Counted(a) THEN 1 ELSE 0)
  BY DEF ReferencesCovered
<1>3. IsFiniteSet(Holders(a)) /\ Cardinality(Holders(a)) \in Nat
  BY HoldersFinite
<1>4. /\ IsFiniteSet(Holders(a) \ {p}) /\ Cardinality(Holders(a) \ {p}) = Cardinality(Holders(a)) - 1
      /\ Cardinality(Holders(a) \ {p}) \in Nat
  BY <1>3, FS_RemoveElement, FS_CardinalityType
<1>5. Cardinality(Holders(a)) >= 1
  BY <1>3, <1>4
<1>6. /\ mem' \in [Arrays -> Mems] /\ refcount' \in [Arrays -> Int]
      /\ grace' \in [Arrays -> SUBSET Procs]
      /\ \A b \in Arrays : b # a =>
           mem'[b] = mem[b] /\ refcount'[b] = refcount[b] /\ grace'[b] = grace[b]
      /\ refcount'[a] = refcount[a] - 1
      /\ \/ refcount[a] - 1 > 0 /\ mem'[a] = mem[a] /\ grace'[a] = grace[a]
         \/ ~(refcount[a] - 1 > 0) /\ mem'[a] = "rcu" /\ grace'[a] = readers
  BY <1>1 DEF Putref, Mems
<1>7. CASE refcount[a] - 1 > 0
  BY <1>1, <1>2, <1>3, <1>5, <1>6, <1>7
<1>8. CASE ~(refcount[a] - 1 > 0)
  <2>1. refcount[a] = 1 /\ Cardinality(Holders(a)) = 1 /\ ~Counted(a)
    BY <1>1, <1>2, <1>3, <1>5, <1>8
  <2>2. Holders(a) \ {p} = {}
    BY <1>4, <2>1, FS_EmptySet
  <2> QED BY <1>2, <1>5, <1>6, <1>8, <2>1, <2>2
<1> QED BY <1>7, <1>8

(* Who holds a reference depends on pc and sma.                            *)
LEMMA HoldersSame ==
    ASSUME \A q \in Procs : /\ pc'[q] \in Referring <=> pc[q] \in Referring
                            /\ pc[q] \in Referring => sma'[q] = sma[q]
    PROVE  \A b \in Arrays : Holders(b)' = Holders(b)
    BY DEF Holders

(* A task takes a reference.                                               *)
LEMMA HoldersJoin ==
    ASSUME NEW p \in Procs, NEW a \in Arrays, pc[p] \notin Referring, pc'[p] \in Referring, sma'[p] = a,
           \A q \in Procs : q # p => pc'[q] = pc[q] /\ sma'[q] = sma[q]
    PROVE  /\ Holders(a)' = Holders(a) \cup {p} /\ p \notin Holders(a)
           /\ Cardinality(Holders(a)') = Cardinality(Holders(a)) + 1
           /\ \A b \in Arrays : b # a => Holders(b)' = Holders(b)
<1>1. /\ Holders(a)' = Holders(a) \cup {p} /\ p \notin Holders(a)
      /\ \A b \in Arrays : b # a => Holders(b)' = Holders(b)
  BY DEF Holders
<1> QED BY <1>1, HoldersFinite, FS_AddElement

(* A task drops its reference.                                             *)
LEMMA HoldersDrop ==
    ASSUME NEW p \in Procs, NEW a \in Arrays, pc[p] \in Referring, pc'[p] \notin Referring, sma[p] = a,
           \A q \in Procs : q # p => pc'[q] = pc[q] /\ sma'[q] = sma[q]
    PROVE  /\ Holders(a)' = Holders(a) \ {p} /\ p \in Holders(a)
           /\ Cardinality(Holders(a)') = Cardinality(Holders(a)) - 1
           /\ \A b \in Arrays : b # a => Holders(b)' = Holders(b)
<1>1. /\ Holders(a)' = Holders(a) \ {p} /\ p \in Holders(a)
      /\ \A b \in Arrays : b # a => Holders(b)' = Holders(b)
  BY DEF Holders
<1> QED BY <1>1, HoldersFinite, FS_RemoveElement

(* Which sets are counted depends on their life and on freeary().          *)
LEMMA CountedSame ==
    ASSUME mem' = mem, deleted' = deleted,
           \A q \in Ctls : /\ cmd'[q] = "RMID" /\ pc'[q] \in WakingUp <=> cmd[q] = "RMID" /\ pc[q] \in WakingUp
                           /\ cmd[q] = "RMID" /\ pc[q] \in WakingUp => sma'[q] = sma[q]
    PROVE  \A b \in Arrays : Counted(b)' = Counted(b)
    BY DEF Counted

(* Only the memory of one set changes.                                     *)
LEMMA CountedMem ==
    ASSUME NEW a \in Arrays, deleted' = deleted, \A b \in Arrays : b # a => mem'[b] = mem[b],
           mem'[a] = "live" => mem[a] = "live", Counted(a) => mem'[a] = "live",
           \A q \in Ctls : /\ cmd'[q] = "RMID" /\ pc'[q] \in WakingUp <=> cmd[q] = "RMID" /\ pc[q] \in WakingUp
                           /\ cmd[q] = "RMID" /\ pc[q] \in WakingUp => sma'[q] = sma[q]
    PROVE  \A b \in Arrays : Counted(b)' = Counted(b)
<1> SUFFICES ASSUME NEW b \in Arrays PROVE Counted(b)' = Counted(b)
  OBVIOUS
<1>1. (\E q \in Ctls : cmd[q] = "RMID" /\ sma[q] = b /\ pc[q] \in WakingUp)' =
      (\E q \in Ctls : cmd[q] = "RMID" /\ sma[q] = b /\ pc[q] \in WakingUp)
  OBVIOUS
<1> QED BY <1>1 DEF Counted

(* used_sems, when a set joins or leaves those counted.                    *)
LEMMA UsedJoin ==
    ASSUME UsedSems, NEW a \in Arrays, ~Counted(a), Counted(a)',
           \A b \in Arrays : b # a => Counted(b)' = Counted(b),
           used_sems' = used_sems + Cardinality(Sems), used_sems + Cardinality(Sems) <= sc_semmns
    PROVE  UsedSems'
<1> DEFINE S == {b \in Arrays : Counted(b)}
           T == {b \in Arrays : Counted(b)'}
<1>1. T = S \cup {a} /\ a \notin S /\ S \subseteq Arrays
  OBVIOUS
<1>2. IsFiniteSet(S)
  BY <1>1, Consts, FS_Subset
<1>3. Cardinality(T) = Cardinality(S) + 1 /\ Cardinality(S) \in Nat
  BY <1>1, <1>2, FS_AddElement, FS_CardinalityType
<1>4. Cardinality(Sems) \in Nat
  BY SemConstants, FS_CardinalityType
<1>5. used_sems = Cardinality(Sems) * Cardinality(S)
  BY DEF UsedSems
<1> HIDE DEF S, T
<1>6. used_sems' = Cardinality(Sems) * Cardinality(T)
  BY <1>3, <1>4, <1>5
<1> QED BY <1>6 DEF UsedSems, T

(* A set leaves those counted.                                             *)
LEMMA UsedDrop ==
    ASSUME UsedSems, NEW a \in Arrays, Counted(a), ~(Counted(a)'),
           \A b \in Arrays : b # a => Counted(b)' = Counted(b), used_sems' = FreedSems
    PROVE  UsedSems'
<1> DEFINE S == {b \in Arrays : Counted(b)}
           T == {b \in Arrays : Counted(b)'}
<1>1. T = S \ {a} /\ a \in S /\ S \subseteq Arrays
  OBVIOUS
<1>2. IsFiniteSet(S)
  BY <1>1, Consts, FS_Subset
<1>3. Cardinality(T) = Cardinality(S) - 1 /\ Cardinality(S) \in Nat
  BY <1>1, <1>2, FS_RemoveElement, FS_CardinalityType
<1>4. Cardinality(Sems) \in Nat /\ sc_semmns \in Nat
  BY SemConstants, FS_CardinalityType
<1>5. used_sems = Cardinality(Sems) * Cardinality(S) /\ used_sems <= sc_semmns
  BY DEF UsedSems
<1> HIDE DEF S, T
<1>6. used_sems' = Cardinality(Sems) * Cardinality(T)
  BY <1>3, <1>4, <1>5 DEF FreedSems
<1>7. used_sems' <= sc_semmns
  <2>1. used_sems \in Int
    BY <1>3, <1>4, <1>5
  <2> QED BY <1>4, <1>5, <2>1 DEF FreedSems
<1> QED BY <1>6, <1>7 DEF UsedSems, T

-----------------------------------------------------------------------------
(* Locals, and what the lock of a set tells.                               *)

(* What the label of a task says about its call and its locals.            *)
LEMMA Locals ==
    ASSUME TypeInv, CallInv
    PROVE  \A q \in Procs :
             /\ pc[q] \in Waiting \cup Holding \cup Referring \cup WakingUp => sma[q] \in Arrays
             /\ pc[q] \in {"fundo", "funlink", "put"} => cmd[q] = "RMID"
             /\ cmd[q] = "RMID" => q \in Ctls
             /\ cmd[q] \in {"SEMOP", "EXIT"} => q \in Tasks
             /\ q \in Tasks => cmd[q] \in {"none", "SEMOP", "EXIT"}
             /\ pc[q] \in {"undo", "ufind", "ulock", "ualloc", "find", "lock"} \cup QueuePcs => cmd[q] = "SEMOP"
             /\ pc[q] \in {"xread", "xfind", "xlock", "dead"} => cmd[q] = "EXIT"
             /\ pc[q] \in {"idle", "unborn"} <=> cmd[q] = "none"
             /\ pc[q] = "copyin" => cmd[q] \in {"GETALL", "SETALL"}
             /\ cmd[q] = "SEMOP" => pc[q] # "dead"
             /\ pc[q] = "ret" => cmd[q] # "EXIT"
             /\ pc[q] \in {"smart", "scan"} => cmd[q] # "RMID"
<1> SUFFICES ASSUME NEW q \in Procs
             PROVE  /\ pc[q] \in Waiting \cup Holding \cup Referring \cup WakingUp => sma[q] \in Arrays
                    /\ pc[q] \in {"fundo", "funlink", "put"} => cmd[q] = "RMID"
                    /\ cmd[q] = "RMID" => q \in Ctls
                    /\ cmd[q] \in {"SEMOP", "EXIT"} => q \in Tasks
                    /\ q \in Tasks => cmd[q] \in {"none", "SEMOP", "EXIT"}
                    /\ pc[q] \in {"undo", "ufind", "ulock", "ualloc", "find", "lock"} \cup QueuePcs => cmd[q] = "SEMOP"
                    /\ pc[q] \in {"xread", "xfind", "xlock", "dead"} => cmd[q] = "EXIT"
                    /\ pc[q] \in {"idle", "unborn"} <=> cmd[q] = "none"
                    /\ pc[q] = "copyin" => cmd[q] \in {"GETALL", "SETALL"}
                    /\ cmd[q] = "SEMOP" => pc[q] # "dead"
                    /\ pc[q] = "ret" => cmd[q] # "EXIT"
                    /\ pc[q] \in {"smart", "scan"} => cmd[q] # "RMID"
  OBVIOUS
<1>1. /\ pc[q] \in StepsOf(cmd[q])
      /\ cmd[q] \in {"SEMOP", "EXIT"} => q \in Tasks
      /\ cmd[q] \in Cmds => q \in Ctls
      /\ pc[q] \in Waiting \cup Holding \cup Referring \cup WakingUp => sma[q] \in Arrays
  BY DEF CallInv, CallAt
<1>2. cmd[q] \in Cmds \cup {"none", "SEMOP", "EXIT"}
  BY DEF TypeInv
<1>3. Cmds \subseteq {"SETVAL", "SETALL", "GETALL", "RMID"} /\ Tasks \cap Ctls = {}
  BY Consts
<1>4. cmd[q] \in {"SETVAL", "SETALL", "GETALL", "RMID"} => cmd[q] \in Cmds /\ q \in Ctls
  BY <1>1, <1>2
<1> QED BY <1>1, <1>2, <1>3, <1>4 DEF StepsOf, QueuePcs, WakingUp

(* The set a task has found and locked.                                    *)
LEMMA FoundSet ==
    ASSUME TypeInv, CallInv, KeptSets, SetLife, NEW p \in Procs, NEW l \in Waiting, Found(p, l)
    PROVE  /\ pc[p] = l /\ sma[p] \in Arrays /\ lock[sma[p]] = NoProc /\ p \in readers
           /\ ~deleted[sma[p]] /\ mem[sma[p]] = "live" /\ Counted(sma[p])
           /\ l # "relock" => IdOf[sma[p]] = semid[p]
<1>1. pc[p] = l /\ lock[sma[p]] = NoProc /\ sma[p] \in Arrays
  BY Locals DEF Found
<1>2. ~deleted[sma[p]] /\ (l # "relock" => IdOf[sma[p]] = semid[p])
  BY <1>1, LockLabels DEF Found, Missing
<1>3. p \in readers /\ mem[sma[p]] \in {"live", "rcu"} /\ mem[sma[p]] \in {"none", "live"}
  BY <1>1, <1>2 DEF KeptSets, Kept, SetLife
<1> QED BY <1>1, <1>2, <1>3 DEF Counted

(* An operation tried, and what it stores.                                 *)
LEMMA AttemptType ==
    ASSUME TypeInv, NEW a \in Arrays, NEW q \in Procs, undo[q].set # NoArr => undo[q].list \in Tasks
    PROVE  /\ try_atomic_semop(semval[a], AdjOf(q), sops[q]).res \in {"ok", "block", "EAGAIN", "ERANGE"}
           /\ try_atomic_semop(semval[a], AdjOf(q), sops[q]).val \in Values
           /\ try_atomic_semop(semval[a], AdjOf(q), sops[q]).adj \in Adjs
<1>1. semval[a] \in Values
  BY DEF TypeInv
<1>2. sops[q] \in Seq(SopSet)
  <2>1. sops[q] \in SopSeqs \cup {<<>>}
    BY DEF TypeInv
  <2>2. SopSeqs \subseteq Seq(SopSet)
    BY SemConstants
  <2>3. <<>> \in Seq(SopSet)
    OBVIOUS
  <2> QED BY <2>1, <2>2, <2>3
<1>3. AdjOf(q) \in Adjs
  <2>1. undo[q].set \in Arrays \cup {NoArr}
    BY DEF TypeInv
  <2>2. CASE undo[q].set = NoArr
    BY <2>2, SemAssumption DEF AdjOf, NoAdj, Adjs, SEMAEM
  <2>3. CASE undo[q].set # NoArr
    <3>1. un[undo[q].list][undo[q].set] \in UnRecs
        BY <2>1, <2>3, UnType DEF Uns
    <3> QED BY <2>3, <3>1 DEF AdjOf, UnRecs
  <2> QED BY <2>2, <2>3
<1>4. PICK x \in Values, y \in Adjs, s \in Seq(SopSet) : x = semval[a] /\ y = AdjOf(q) /\ s = sops[q]
  BY <1>1, <1>2, <1>3
<1>5. /\ try_atomic_semop(x, y, s).res \in {"ok", "block", "EAGAIN", "ERANGE"}
      /\ try_atomic_semop(x, y, s).val \in Values /\ try_atomic_semop(x, y, s).adj \in Adjs
  BY TryAtomic
<1> QED BY <1>4, <1>5

(* What a performed operation leaves alone.                                *)
LEMMA StoreAttempt ==
    ASSUME TypeInv, NEW a \in Arrays, NEW q \in Procs, undo[q].set # NoArr => undo[q].list \in Tasks,
           Store(a, q, try_atomic_semop(semval[a], AdjOf(q), sops[q]).val,
                       try_atomic_semop(semval[a], AdjOf(q), sops[q]).adj)
    PROVE  /\ semval' \in [Arrays -> Values] /\ un' \in Uns
           /\ \A v \in Tasks, b \in Arrays :
                /\ un'[v][b].mem = un[v][b].mem /\ un'[v][b].valid = un[v][b].valid
                /\ un'[v][b].grace = un[v][b].grace
<1>1. PICK w \in Values, d \in Adjs : /\ w = try_atomic_semop(semval[a], AdjOf(q), sops[q]).val
                                      /\ d = try_atomic_semop(semval[a], AdjOf(q), sops[q]).adj
  BY AttemptType
<1>2. Store(a, q, w, d)
  BY <1>1
<1> QED BY <1>2, StoreEffect

(* What update_queue() reaches is a pending operation.                     *)
LEMMA ReachedTask ==
    ASSUME TypeInv, CallInv, NEW p \in Procs, pc[p] = "scan", ~WalkOver(p)
    PROVE  Next_q(p) \in Tasks /\ Next_q(p) \in Pending(sma[p])
<1>1. PICK a \in Arrays : a = sma[p]
  BY Locals DEF Holding
<1>2. sem_pending[a] \in Seq(Tasks) /\ walk[p] \in Nat
  BY DEF TypeInv
<1>3. walk[p] >= 1
  BY DEF CallInv, CallAt
<1>4. PICK s : s = PendingList(p)
  OBVIOUS
<1>5. walk[p] <= Len(s)
  <2>1. s \in Seq(Pending(a)) \/ s \in Seq(Tasks)
    <3>1. PICK m : m = semnum[p]
        OBVIOUS
    <3>2. Simple(a, m) \in Seq(Pending(a))
        BY <1>2, SimpleType
    <3> QED BY <1>1, <1>2, <1>4, <3>1, <3>2 DEF PendingList
  <2>2. Len(s) \in Nat
    BY <2>1
  <2> QED BY <1>2, <1>4, <2>2 DEF WalkOver
<1>6. Pending(a) \subseteq Tasks
  BY <1>2 DEF Pending, ToSet
<1>7. s \in Seq(Pending(a))
  <2>1. CASE semnum[p] = -1
    <3>1. s = sem_pending[a]
        BY <1>1, <1>4, <2>1 DEF PendingList
    <3>2. \A i \in 1 .. Len(s) : s[i] \in Pending(a)
        BY <1>2, <3>1 DEF Pending, ToSet
    <3> QED BY <1>2, <3>1, <3>2, SeqDef
  <2>2. CASE semnum[p] # -1
    <3>1. PICK m : m = semnum[p]
        OBVIOUS
    <3>2. Simple(a, m) \in Seq(Pending(a))
        BY <1>2, SimpleType
    <3> QED BY <1>1, <1>4, <2>2, <3>1, <3>2 DEF PendingList
  <2> QED BY <2>1, <2>2
<1>8. s[walk[p]] \in Pending(a)
  BY <1>2, <1>3, <1>5, <1>7
<1> QED BY <1>1, <1>4, <1>6, <1>8 DEF Next_q

-----------------------------------------------------------------------------
(* The parts of the invariant.                                             *)

(* The parts of the inductive invariant.                                   *)
LEMMA Parts ==
    ASSUME IInv
    PROVE  /\ TypeInv /\ CallInv
           /\ SetLocks /\ ListLocks /\ Unlinking /\ Removing /\ SetLife /\ InTable /\ HasUndos /\ TableSets
           /\ HeldSets /\ GoneSets /\ ReferencesCovered /\ RefNat /\ Loaded /\ KeptSets /\ KeptUndo /\ UserCount
           /\ ExitList /\ FreshList /\ OwnList /\ OnceLinked /\ LinkedLive /\ BothLists /\ OneList /\ Unlinked /\ OwnUndo /\ UsedSems
    BY DEF IInv, LockInv, SetInv, RefInv, RcuInv, ListInv, LinkInv

(* What the label of a task says of its call.                              *)
LEMMA Calls ==
    ASSUME IInv
    PROVE  \A q \in Procs :
             /\ pc[q] \in {"fundo", "funlink", "put"} => cmd[q] = "RMID"
             /\ cmd[q] = "RMID" => q \in Ctls
             /\ cmd[q] \in {"SEMOP", "EXIT"} => q \in Tasks
             /\ pc[q] \in {"undo", "ufind", "ulock", "ualloc", "find", "lock"} => cmd[q] = "SEMOP"
             /\ pc[q] \in {"xread", "xfind", "xlock", "dead"} => cmd[q] = "EXIT"
             /\ pc[q] \in {"idle", "unborn"} <=> cmd[q] = "none"
             /\ pc[q] = "ret" => cmd[q] # "EXIT"
             /\ pc[q] \in {"smart", "scan"} => cmd[q] # "RMID"
    BY Parts, Locals

(* Whoever has to do with a set knows which.                               *)
LEMMA Sites ==
    ASSUME IInv
    PROVE  \A q \in Procs : pc[q] \in Waiting \cup Holding \cup Referring \cup WakingUp => sma[q] \in Arrays
    BY Parts, Locals

(* The undo structure of a call that has one.                              *)
LEMMA Undos ==
    ASSUME IInv
    PROVE  \A q \in Procs :
             /\ pc[q] \in {"find", "lock"} /\ undo[q].set # NoArr => undo[q].set \in Arrays /\ undo[q].list \in Tasks
             /\ cmd[q] = "SEMOP" /\ undo[q].set # NoArr => undo[q].set \in Arrays /\ undo[q].list \in Tasks
             /\ pc[q] = "funlink" => undo[q].set \in Arrays /\ undo[q].list \in Tasks
             /\ cmd[q] = "EXIT" /\ pc[q] \in {"smart", "scan"} \cup WakingUp =>
                  undo[q].set \in Arrays /\ undo[q].list \in Tasks
<1> SUFFICES ASSUME NEW q \in Procs
             PROVE  /\ pc[q] \in {"find", "lock"} /\ undo[q].set # NoArr => undo[q].set \in Arrays /\ undo[q].list \in Tasks
                    /\ cmd[q] = "SEMOP" /\ undo[q].set # NoArr => undo[q].set \in Arrays /\ undo[q].list \in Tasks
                    /\ pc[q] = "funlink" => undo[q].set \in Arrays /\ undo[q].list \in Tasks
                    /\ cmd[q] = "EXIT" /\ pc[q] \in {"smart", "scan"} \cup WakingUp =>
                         undo[q].set \in Arrays /\ undo[q].list \in Tasks
  OBVIOUS
<1>1. TypeInv /\ CallInv /\ OwnList /\ ExitList /\ Unlinking /\ Unlinked
  BY Parts
<1>2. undo[q].set \in Arrays \cup {NoArr} /\ undo[q].list \in Tasks \cup {NoProc}
  BY <1>1 DEF TypeInv
<1>3. /\ pc[q] \in {"find", "lock"} => cmd[q] = "SEMOP"
      /\ cmd[q] \in {"SEMOP", "EXIT"} => q \in Tasks
      /\ pc[q] = "funlink" => sma[q] \in Arrays
  BY <1>1, Locals DEF Holding
<1>4. q \in Tasks /\ undo[q].set # NoArr => undo[q].list \in Tasks
  BY <1>1 DEF OwnList
<1>5. pc[q] = "funlink" => undo[q].set = sma[q] /\ undo[q].list \in Tasks
  BY <1>1 DEF Unlinking
<1>6. cmd[q] = "EXIT" /\ pc[q] \in {"smart", "scan"} \cup WakingUp => undo[q].set \in Arrays
  BY <1>1 DEF Unlinked
<1> QED BY <1>2, <1>3, <1>4, <1>5, <1>6, Consts

(* What a part depends on.                                                 *)
LEMMA Frames ==
    /\ lock' = lock /\ pc' = pc /\ sma' = sma => (SetLocks => SetLocks')
    /\ ulp_lock' = ulp_lock /\ pc' = pc /\ undo' = undo => (ListLocks => ListLocks')
    /\ pc' = pc /\ sma' = sma /\ undo' = undo => (Unlinking => Unlinking')
    /\ rw_mutex' = rw_mutex /\ pc' = pc /\ cmd' = cmd => (Removing => Removing')
    /\ mem' = mem /\ deleted' = deleted => (SetLife => SetLife')
    /\ mem' = mem /\ deleted' = deleted /\ idr' = idr => (InTable => InTable')
    /\ mem' = mem /\ deleted' = deleted /\ list_id' = list_id => (HasUndos => HasUndos')
    /\ mem' = mem /\ deleted' = deleted /\ idr' = idr => (TableSets => TableSets')
    /\ deleted' = deleted /\ pc' = pc /\ sma' = sma => (HeldSets => HeldSets')
    /\ UNCHANGED <<mem, deleted, pc, cmd>> /\ sma' = sma => (GoneSets => GoneSets')
    /\ UNCHANGED <<mem, refcount, deleted, pc, cmd>> /\ sma' = sma => (ReferencesCovered => ReferencesCovered')
    /\ refcount' = refcount => (RefNat => RefNat')
    /\ pc' = pc /\ sma' = sma /\ ref' = ref => (Loaded => Loaded')
    /\ UNCHANGED <<mem, grace, readers, pc>> /\ sma' = sma => (KeptSets => KeptSets')
    /\ UNCHANGED <<readers, un, pc>> /\ undo' = undo => (KeptUndo => KeptUndo')
    /\ undo_list' = undo_list /\ refcnt' = refcnt => (UserCount => UserCount')
    /\ UNCHANGED <<undo_list, pc, cmd>> /\ undo' = undo => (ExitList => ExitList')
    /\ undo_list' = undo_list /\ cmd' = cmd /\ undo' = undo => (FreshList => FreshList')
    /\ UNCHANGED <<undo_list, pc, cmd>> /\ undo' = undo => (OwnList => OwnList')
    /\ list_proc' = list_proc => (OnceLinked => OnceLinked')
    /\ list_proc' = list_proc /\ un' = un => (LinkedLive => LinkedLive')
    /\ list_id' = list_id /\ list_proc' = list_proc /\ un' = un => (BothLists => BothLists')
    /\ UNCHANGED <<list_id, list_proc, pc>> /\ undo' = undo => (OneList => OneList')
    /\ UNCHANGED <<list_id, list_proc, un, pc, cmd>> /\ undo' = undo => (Unlinked => Unlinked')
    /\ UNCHANGED <<list_id, un, pc, cmd, semid, sma>> /\ undo' = undo => (OwnUndo => OwnUndo')
    /\ UNCHANGED <<mem, deleted, used_sems, pc, cmd>> /\ sma' = sma => (UsedSems => UsedSems')
<1>1. lock' = lock /\ pc' = pc /\ sma' = sma => (SetLocks => SetLocks')
  BY DEF SetLocks
<1>2. ulp_lock' = ulp_lock /\ pc' = pc /\ undo' = undo => (ListLocks => ListLocks')
  BY DEF ListLocks
<1>3. pc' = pc /\ sma' = sma /\ undo' = undo => (Unlinking => Unlinking')
  BY DEF Unlinking
<1>4. rw_mutex' = rw_mutex /\ pc' = pc /\ cmd' = cmd => (Removing => Removing')
  BY DEF Removing
<1>5. mem' = mem /\ deleted' = deleted => (SetLife => SetLife')
  BY DEF SetLife
<1>6. mem' = mem /\ deleted' = deleted /\ idr' = idr => (InTable => InTable')
  BY DEF InTable
<1>7. mem' = mem /\ deleted' = deleted /\ list_id' = list_id => (HasUndos => HasUndos')
  BY DEF HasUndos
<1>8. mem' = mem /\ deleted' = deleted /\ idr' = idr => (TableSets => TableSets')
  BY DEF TableSets
<1>9. deleted' = deleted /\ pc' = pc /\ sma' = sma => (HeldSets => HeldSets')
  BY DEF HeldSets
<1>10. UNCHANGED <<mem, deleted, pc, cmd>> /\ sma' = sma => (GoneSets => GoneSets')
  BY DEF GoneSets
<1>11. UNCHANGED <<mem, refcount, deleted, pc, cmd>> /\ sma' = sma => (ReferencesCovered => ReferencesCovered')
  BY DEF ReferencesCovered, Holders, Counted
<1>12. refcount' = refcount => (RefNat => RefNat')
  BY DEF RefNat
<1>13. pc' = pc /\ sma' = sma /\ ref' = ref => (Loaded => Loaded')
  BY DEF Loaded, Holders
<1>14. UNCHANGED <<mem, grace, readers, pc>> /\ sma' = sma => (KeptSets => KeptSets')
  BY DEF KeptSets, Kept
<1>15. UNCHANGED <<readers, un, pc>> /\ undo' = undo => (KeptUndo => KeptUndo')
  BY DEF KeptUndo, Kept
<1>16. undo_list' = undo_list /\ refcnt' = refcnt => (UserCount => UserCount')
  BY DEF UserCount, Users
<1>17. UNCHANGED <<undo_list, pc, cmd>> /\ undo' = undo => (ExitList => ExitList')
  BY DEF ExitList, Users
<1>18. undo_list' = undo_list /\ cmd' = cmd /\ undo' = undo => (FreshList => FreshList')
  BY DEF FreshList, Users
<1>19. UNCHANGED <<undo_list, pc, cmd>> /\ undo' = undo => (OwnList => OwnList')
  BY DEF OwnList
<1>20. list_proc' = list_proc => (OnceLinked => OnceLinked')
  BY DEF OnceLinked
<1>21. list_proc' = list_proc /\ un' = un => (LinkedLive => LinkedLive')
  BY DEF LinkedLive
<1>22. list_id' = list_id /\ list_proc' = list_proc /\ un' = un => (BothLists => BothLists')
  BY DEF BothLists
<1>23. UNCHANGED <<list_id, list_proc, pc>> /\ undo' = undo => (OneList => OneList')
  BY DEF OneList
<1>24. UNCHANGED <<list_id, list_proc, un, pc, cmd>> /\ undo' = undo => (Unlinked => Unlinked')
  BY DEF Unlinked
<1>25. UNCHANGED <<list_id, un, pc, cmd, semid, sma>> /\ undo' = undo => (OwnUndo => OwnUndo')
  BY DEF OwnUndo
<1>26. UNCHANGED <<mem, deleted, used_sems, pc, cmd>> /\ sma' = sma => (UsedSems => UsedSems')
  BY DEF UsedSems, Counted
<1> QED BY <1>1, <1>2, <1>3, <1>4, <1>5, <1>6, <1>7, <1>8, <1>9, <1>10, <1>11, <1>12, <1>13, <1>14,
  <1>15, <1>16, <1>17, <1>18, <1>19, <1>20, <1>21, <1>22, <1>23, <1>24, <1>25, <1>26

-----------------------------------------------------------------------------
(* Lookups and system calls.                                               *)

(* ipc_lock(), the lookup under RCU.                                       *)
LEMMA IInv_ipc_find ==
    ASSUME IInv, NEW p \in Procs, ipc_find(p)
    PROVE  IInv'
<1> USE DEF Holding, Waiting, Referring, WakingUp
<1>t. /\ lock \in [Arrays -> Procs \cup {NoProc}] /\ idr \in [Slots -> Arrays \cup {NoArr}]
      /\ readers \subseteq Procs /\ pc \in [Procs -> Labels]
      /\ cmd \in [Procs -> Cmds \cup {"none", "SEMOP", "EXIT"}] /\ semid \in [Procs -> Ids]
      /\ sma \in [Procs -> Arrays \cup {NoArr}]
      /\ undo \in [Procs -> [list : Tasks \cup {NoProc}, set : Arrays \cup {NoArr}]]
  BY Parts, UnType DEF TypeInv
<1>c. CallInv'
  <2>1. Next
    BY Kinds DEF Next, Step
  <2> QED BY Parts, <2>1, CallStep
<1>g. pc[p] \in {"find", "ufind", "rfind", "cfind", "xfind"} /\ semid[p][1] \in Slots
  BY Parts, LockLabels, SlotOf DEF ipc_find
<1>a. PICK a \in Arrays : a = idr[semid[p][1]] /\ sma' = [sma EXCEPT ![p] = a]
  BY <1>g, <1>t DEF ipc_find
<1>d. mem[a] = "live"
  BY Parts, Kinds, <1>g, <1>a DEF TableSets
<1>b. PICK x \in Waiting : /\ x = LockLabel[pc[p]] /\ (x = "lock" => pc[p] = "find")
                        /\ (x = "ulock" => pc[p] = "ufind")
  BY <1>g, LockLabels
<1>u. /\ UNCHANGED <<semval, sem_pending, complex_count, mem, refcount, deleted, grace, lock, idr,
                     used_sems, rw_mutex, list_id, list_proc, undo_list, ulp, refcnt, ulp_lock, un,
                     cmd, sops, semid, undo, status, outcome, state, sig, timedout, tasks, idx, semnum,
                     walk, ref, res>>
  BY <1>t, <1>g, <1>a, <1>d, <1>b DEF ipc_find, Goto, args, arrayv, life, lists, ns, queue, scanv,
    sched, ulpv
<1>e_pc. /\ pc' \in [Procs -> Labels] /\ pc'[p] = x /\ \A q \in Procs : q # p => pc'[q] = pc[q]
  BY Parts, <1>t, Kinds, <1>g, <1>a, <1>d, <1>b DEF ipc_find, Goto, Labels
<1>e_sma. /\ sma' \in [Procs -> Arrays \cup {NoArr}] /\ sma'[p] = a /\ \A q \in Procs : q # p => sma'[q] = sma[q]
  BY Parts, <1>t, Kinds, <1>g, <1>a, <1>d, <1>b DEF ipc_find, Goto
<1>e_readers. readers' = (readers \cup {p}) /\ readers' \subseteq Procs
  BY Parts, <1>t, Kinds, <1>g, <1>a, <1>d, <1>b DEF ipc_find, Goto
<1>T. TypeInv'
  BY Parts, <1>u, <1>e_pc, <1>e_sma, <1>e_readers DEF TypeInv, Uns, UnRecs
<1>f. /\ SetLife' /\ InTable' /\ HasUndos' /\ TableSets' /\ RefNat' /\ UserCount' /\ FreshList'
      /\ OnceLinked' /\ LinkedLive' /\ BothLists'
  BY Parts, <1>u, Frames
<1>H. \A b \in Arrays : Holders(b)' = Holders(b)
  BY Kinds, <1>u, <1>e_pc, <1>e_sma, <1>g, <1>a, <1>d, <1>b, HoldersSame
<1>O. \A b \in Arrays : Counted(b)' = Counted(b)
  BY Kinds, Calls, <1>u, <1>e_pc, <1>e_sma, <1>g, <1>a, <1>d, <1>b, CountedSame
<1>SetLocks. SetLocks'
  BY Parts, Kinds, <1>u, <1>e_pc, <1>e_sma, <1>g, <1>a, <1>d, <1>b DEF SetLocks
<1>ListLocks. ListLocks'
  BY Parts, Kinds, <1>u, <1>e_pc, <1>g, <1>a, <1>d, <1>b DEF ListLocks
<1>Unlinking. Unlinking'
  BY Parts, <1>u, <1>e_pc, <1>e_sma, <1>g, <1>a, <1>d, <1>b DEF Unlinking
<1>Removing. Removing'
  BY Parts, Calls, Kinds, <1>u, <1>e_pc, <1>g, <1>a, <1>d, <1>b DEF Removing
<1>HeldSets. HeldSets'
  BY Parts, Sites, <1>u, <1>e_pc, <1>e_sma, <1>g, <1>a, <1>d, <1>b DEF HeldSets
<1>GoneSets. GoneSets'
  BY Parts, Sites, Calls, <1>u, <1>e_pc, <1>e_sma, <1>g, <1>a, <1>d, <1>b DEF GoneSets
<1>ReferencesCovered. ReferencesCovered'
  BY Parts, <1>H, <1>O, <1>t, <1>u, <1>e_pc, <1>e_sma, <1>g, <1>a, <1>d, <1>b, HoldersFinite DEF
    ReferencesCovered
<1>Loaded. Loaded'
  BY Parts, Sites, <1>H, Calls, <1>t, <1>u, <1>e_pc, <1>e_sma, <1>g, <1>a, <1>d, <1>b,
    HoldersFinite DEF Loaded
<1>KeptSets. KeptSets'
  BY Parts, Sites, <1>u, <1>e_readers, <1>e_pc, <1>e_sma, <1>g, <1>a, <1>d, <1>b DEF KeptSets, Kept
<1>KeptUndo. KeptUndo'
  BY Parts, Undos, <1>u, <1>e_readers, <1>e_pc, <1>g, <1>a, <1>d, <1>b DEF KeptUndo, Kept
<1>ExitList. ExitList'
  BY Parts, Kinds, Calls, <1>u, <1>e_pc, <1>g, <1>a, <1>d, <1>b DEF ExitList, Users
<1>OwnList. OwnList'
  BY Parts, Kinds, Calls, Undos, <1>u, <1>e_pc, <1>g, <1>a, <1>d, <1>b DEF OwnList
<1>OneList. OneList'
  BY Parts, Kinds, <1>u, <1>e_pc, <1>g, <1>a, <1>d, <1>b DEF OneList
<1>Unlinked. Unlinked'
  BY Parts, Undos, <1>u, <1>e_pc, <1>g, <1>a, <1>d, <1>b DEF Unlinked
<1>OwnUndo. OwnUndo'
  BY Parts, Undos, Sites, <1>u, <1>e_pc, <1>e_sma, <1>g, <1>a, <1>d, <1>b DEF OwnUndo
<1>UsedSems. UsedSems'
  BY Parts, <1>O, <1>u, <1>e_pc, <1>e_sma DEF UsedSems
<1> QED BY <1>T, <1>c, <1>f, <1>SetLocks, <1>ListLocks, <1>Unlinking, <1>Removing, <1>HeldSets,
  <1>GoneSets, <1>ReferencesCovered, <1>Loaded, <1>KeptSets, <1>KeptUndo, <1>ExitList, <1>OwnList,
  <1>OneList, <1>Unlinked, <1>OwnUndo, <1>UsedSems DEF IInv, LockInv, SetInv, RefInv, RcuInv,
  ListInv, LinkInv

(* exit_sem() finds its set gone.                                          *)
LEMMA IInv_lookup_exit ==
    ASSUME IInv, NEW p \in Procs, lookup_fails(p), cmd[p] = "EXIT"
    PROVE  IInv'
<1> USE DEF Holding, Waiting, Referring, WakingUp
<1>t. /\ grace \in [Arrays -> SUBSET Procs] /\ lock \in [Arrays -> Procs \cup {NoProc}]
      /\ rw_mutex \in Ctls \cup {NoProc} /\ readers \subseteq Procs /\ un \in Uns
      /\ pc \in [Procs -> Labels] /\ cmd \in [Procs -> Cmds \cup {"none", "SEMOP", "EXIT"}]
      /\ sma \in [Procs -> Arrays \cup {NoArr}]
      /\ undo \in [Procs -> [list : Tasks \cup {NoProc}, set : Arrays \cup {NoArr}]]
  BY Parts, UnType DEF TypeInv
<1>c. CallInv'
  <2>1. Next
    BY Kinds DEF Next, Step
  <2> QED BY Parts, <2>1, CallStep
<1>g. pc[p] \in {"find", "ufind", "rfind", "cfind", "xfind"} \cup Waiting
  BY LockLabels DEF lookup_fails, Missing
<1>u. /\ UNCHANGED <<semval, sem_pending, complex_count, mem, refcount, deleted, lock, idr, used_sems,
                     list_id, list_proc, undo_list, ulp, refcnt, ulp_lock, cmd, sops, semid, sma, undo,
                     status, outcome, state, sig, timedout, tasks, idx, semnum, walk, ref>>
  BY <1>t, <1>g DEF lookup_fails, Goto, Return, args, arrayv, lists, queue, scanv, ulpv
<1>e_pc. /\ pc' \in [Procs -> Labels] /\ pc'[p] = "xread" /\ \A q \in Procs : q # p => pc'[q] = pc[q]
  BY Parts, <1>t, Kinds, <1>g DEF lookup_fails, Goto, Return, Labels
<1>e_leave. /\ readers' = readers \ {p} /\ readers' \subseteq Procs
            /\ grace' \in [Arrays -> SUBSET Procs] /\ un' \in Uns
            /\ \A b \in Arrays : grace'[b] = grace[b] \ {p}
            /\ \A v \in Tasks, b \in Arrays :
                 /\ un'[v][b].mem = un[v][b].mem /\ un'[v][b].valid = un[v][b].valid
                 /\ un'[v][b].grace = un[v][b].grace \ {p}
  <2>1. Leave(p)
    BY <1>t, <1>g DEF lookup_fails
  <2> QED BY Parts, <2>1, LeaveEffect
<1>e_rw_mutex. rw_mutex' = (IF rw_mutex = p THEN NoProc ELSE rw_mutex) /\ rw_mutex' \in Ctls \cup {NoProc}
  BY Parts, <1>t, Kinds, <1>g DEF lookup_fails, Goto, Return
<1>T. TypeInv'
  BY Parts, <1>u, <1>e_pc, <1>e_leave, <1>e_rw_mutex DEF TypeInv, Uns, UnRecs
<1>f. /\ SetLife' /\ InTable' /\ HasUndos' /\ TableSets' /\ RefNat' /\ UserCount' /\ FreshList'
      /\ OnceLinked'
  BY Parts, <1>u, Frames
<1>H. \A b \in Arrays : Holders(b)' = Holders(b)
  BY Kinds, <1>u, <1>e_pc, <1>g, HoldersSame
<1>O. \A b \in Arrays : Counted(b)' = Counted(b)
  BY Kinds, Calls, <1>u, <1>e_pc, <1>g, CountedSame
<1>SetLocks. SetLocks'
  BY Parts, Kinds, <1>u, <1>e_pc, <1>g DEF SetLocks
<1>ListLocks. ListLocks'
  BY Parts, Kinds, <1>u, <1>e_pc, <1>g DEF ListLocks
<1>Unlinking. Unlinking'
  BY Parts, <1>u, <1>e_pc, <1>g DEF Unlinking
<1>Removing. Removing'
  BY Parts, Calls, Kinds, <1>u, <1>e_rw_mutex, <1>e_pc, <1>g DEF Removing
<1>HeldSets. HeldSets'
  BY Parts, Sites, <1>u, <1>e_pc, <1>g DEF HeldSets
<1>GoneSets. GoneSets'
  BY Parts, Sites, Calls, <1>u, <1>e_pc, <1>g DEF GoneSets
<1>ReferencesCovered. ReferencesCovered'
  BY Parts, <1>H, <1>O, <1>t, <1>u, <1>e_pc, <1>g, HoldersFinite DEF ReferencesCovered
<1>Loaded. Loaded'
  BY Parts, Sites, <1>H, Calls, <1>t, <1>u, <1>e_pc, <1>g, HoldersFinite DEF Loaded
<1>KeptSets. KeptSets'
  BY Parts, Sites, <1>u, <1>e_leave, <1>e_pc, <1>g DEF KeptSets, Kept
<1>KeptUndo. KeptUndo'
  BY Parts, Undos, <1>u, <1>e_leave, <1>e_pc, <1>g DEF KeptUndo, Kept
<1>ExitList. ExitList'
  BY Parts, Kinds, Calls, <1>u, <1>e_pc, <1>g DEF ExitList, Users
<1>OwnList. OwnList'
  BY Parts, Kinds, Calls, <1>u, <1>e_pc, <1>g DEF OwnList
<1>LinkedLive. LinkedLive'
  BY Parts, <1>u, <1>e_leave, <1>g DEF LinkedLive
<1>BothLists. BothLists'
  BY Parts, <1>u, <1>e_leave, <1>g DEF BothLists
<1>OneList. OneList'
  BY Parts, Kinds, <1>u, <1>e_pc, <1>g DEF OneList
<1>Unlinked. Unlinked'
  BY Parts, Undos, <1>u, <1>e_leave, <1>e_pc, <1>g DEF Unlinked
<1>OwnUndo. OwnUndo'
  BY Parts, Undos, Sites, <1>u, <1>e_leave, <1>e_pc, <1>g DEF OwnUndo
<1>UsedSems. UsedSems'
  BY Parts, <1>O, <1>u, <1>e_pc DEF UsedSems
<1> QED BY <1>T, <1>c, <1>f, <1>SetLocks, <1>ListLocks, <1>Unlinking, <1>Removing, <1>HeldSets,
  <1>GoneSets, <1>ReferencesCovered, <1>Loaded, <1>KeptSets, <1>KeptUndo, <1>ExitList, <1>OwnList,
  <1>LinkedLive, <1>BothLists, <1>OneList, <1>Unlinked, <1>OwnUndo, <1>UsedSems DEF IInv, LockInv,
  SetInv, RefInv, RcuInv, ListInv, LinkInv

(* A call that finds no set, or a removed one, returns.                    *)
LEMMA IInv_lookup_return ==
    ASSUME IInv, NEW p \in Procs, lookup_fails(p), cmd[p] # "EXIT"
    PROVE  IInv'
<1> USE DEF Holding, Waiting, Referring, WakingUp
<1>t. /\ grace \in [Arrays -> SUBSET Procs] /\ lock \in [Arrays -> Procs \cup {NoProc}]
      /\ rw_mutex \in Ctls \cup {NoProc} /\ readers \subseteq Procs /\ un \in Uns
      /\ pc \in [Procs -> Labels] /\ cmd \in [Procs -> Cmds \cup {"none", "SEMOP", "EXIT"}]
      /\ sma \in [Procs -> Arrays \cup {NoArr}]
      /\ undo \in [Procs -> [list : Tasks \cup {NoProc}, set : Arrays \cup {NoArr}]]
      /\ sig \subseteq Tasks
  BY Parts, UnType DEF TypeInv
<1>c. CallInv'
  <2>1. Next
    BY Kinds DEF Next, Step
  <2> QED BY Parts, <2>1, CallStep
<1>g. pc[p] \in {"find", "ufind", "rfind", "cfind", "xfind"} \cup Waiting
  BY LockLabels DEF lookup_fails, Missing
<1>u. /\ UNCHANGED <<semval, sem_pending, complex_count, mem, refcount, deleted, lock, idr, used_sems,
                     list_id, list_proc, undo_list, ulp, refcnt, ulp_lock, cmd, sops, semid, sma, undo,
                     status, outcome, state, timedout, tasks, idx, semnum, walk, ref>>
  BY <1>t, <1>g DEF lookup_fails, Goto, Return, args, arrayv, lists, queue, scanv, ulpv
<1>e_pc. /\ pc' \in [Procs -> Labels] /\ pc'[p] = "ret" /\ \A q \in Procs : q # p => pc'[q] = pc[q]
  BY Parts, <1>t, Kinds, <1>g DEF lookup_fails, Goto, Return, Labels
<1>e_leave. /\ readers' = readers \ {p} /\ readers' \subseteq Procs
            /\ grace' \in [Arrays -> SUBSET Procs] /\ un' \in Uns
            /\ \A b \in Arrays : grace'[b] = grace[b] \ {p}
            /\ \A v \in Tasks, b \in Arrays :
                 /\ un'[v][b].mem = un[v][b].mem /\ un'[v][b].valid = un[v][b].valid
                 /\ un'[v][b].grace = un[v][b].grace \ {p}
  <2>1. Leave(p)
    BY <1>t, <1>g DEF lookup_fails
  <2> QED BY Parts, <2>1, LeaveEffect
<1>e_rw_mutex. rw_mutex' = (IF rw_mutex = p THEN NoProc ELSE rw_mutex) /\ rw_mutex' \in Ctls \cup {NoProc}
  BY Parts, <1>t, Kinds, <1>g DEF lookup_fails, Goto, Return
<1>e_sig. sig' = (sig \ {p}) /\ sig' \subseteq Tasks
  BY Parts, <1>t, Kinds, <1>g DEF lookup_fails, Goto, Return
<1>T. TypeInv'
  BY Parts, <1>u, <1>e_pc, <1>e_leave, <1>e_rw_mutex, <1>e_sig DEF TypeInv, Uns, UnRecs
<1>f. /\ SetLife' /\ InTable' /\ HasUndos' /\ TableSets' /\ RefNat' /\ UserCount' /\ FreshList'
      /\ OnceLinked'
  BY Parts, <1>u, Frames
<1>H. \A b \in Arrays : Holders(b)' = Holders(b)
  BY Kinds, <1>u, <1>e_pc, <1>g, HoldersSame
<1>O. \A b \in Arrays : Counted(b)' = Counted(b)
  BY Kinds, Calls, <1>u, <1>e_pc, <1>g, CountedSame
<1>SetLocks. SetLocks'
  BY Parts, Kinds, <1>u, <1>e_pc, <1>g DEF SetLocks
<1>ListLocks. ListLocks'
  BY Parts, Kinds, <1>u, <1>e_pc, <1>g DEF ListLocks
<1>Unlinking. Unlinking'
  BY Parts, <1>u, <1>e_pc, <1>g DEF Unlinking
<1>Removing. Removing'
  BY Parts, Calls, Kinds, <1>u, <1>e_rw_mutex, <1>e_pc, <1>g DEF Removing
<1>HeldSets. HeldSets'
  BY Parts, Sites, <1>u, <1>e_pc, <1>g DEF HeldSets
<1>GoneSets. GoneSets'
  BY Parts, Sites, Calls, <1>u, <1>e_pc, <1>g DEF GoneSets
<1>ReferencesCovered. ReferencesCovered'
  BY Parts, <1>H, <1>O, <1>t, <1>u, <1>e_pc, <1>g, HoldersFinite DEF ReferencesCovered
<1>Loaded. Loaded'
  BY Parts, Sites, <1>H, Calls, <1>t, <1>u, <1>e_pc, <1>g, HoldersFinite DEF Loaded
<1>KeptSets. KeptSets'
  BY Parts, Sites, <1>u, <1>e_leave, <1>e_pc, <1>g DEF KeptSets, Kept
<1>KeptUndo. KeptUndo'
  BY Parts, Undos, <1>u, <1>e_leave, <1>e_pc, <1>g DEF KeptUndo, Kept
<1>ExitList. ExitList'
  BY Parts, Kinds, Calls, <1>u, <1>e_pc, <1>g DEF ExitList, Users
<1>OwnList. OwnList'
  BY Parts, Kinds, Calls, <1>u, <1>e_pc, <1>g DEF OwnList
<1>LinkedLive. LinkedLive'
  BY Parts, <1>u, <1>e_leave, <1>g DEF LinkedLive
<1>BothLists. BothLists'
  BY Parts, <1>u, <1>e_leave, <1>g DEF BothLists
<1>OneList. OneList'
  BY Parts, Kinds, <1>u, <1>e_pc, <1>g DEF OneList
<1>Unlinked. Unlinked'
  BY Parts, Undos, <1>u, <1>e_leave, <1>e_pc, <1>g DEF Unlinked
<1>OwnUndo. OwnUndo'
  BY Parts, Undos, Sites, <1>u, <1>e_leave, <1>e_pc, <1>g DEF OwnUndo
<1>UsedSems. UsedSems'
  BY Parts, <1>O, <1>u, <1>e_pc DEF UsedSems
<1> QED BY <1>T, <1>c, <1>f, <1>SetLocks, <1>ListLocks, <1>Unlinking, <1>Removing, <1>HeldSets,
  <1>GoneSets, <1>ReferencesCovered, <1>Loaded, <1>KeptSets, <1>KeptUndo, <1>ExitList, <1>OwnList,
  <1>LinkedLive, <1>BothLists, <1>OneList, <1>Unlinked, <1>OwnUndo, <1>UsedSems DEF IInv, LockInv,
  SetInv, RefInv, RcuInv, ListInv, LinkInv

(* The return to user mode.                                                *)
LEMMA IInv_syscall_exit ==
    ASSUME IInv, NEW p \in Procs, syscall_exit(p)
    PROVE  IInv'
<1> USE DEF Holding, Waiting, Referring, WakingUp
<1>t. /\ lock \in [Arrays -> Procs \cup {NoProc}] /\ pc \in [Procs -> Labels]
      /\ cmd \in [Procs -> Cmds \cup {"none", "SEMOP", "EXIT"}]
      /\ sops \in [Procs -> SopSeqs \cup {<<>>}] /\ sma \in [Procs -> Arrays \cup {NoArr}]
      /\ undo \in [Procs -> [list : Tasks \cup {NoProc}, set : Arrays \cup {NoArr}]]
      /\ status \in [Procs -> Errors \cup {"IN_WAKEUP"}] /\ outcome \in [Procs -> Errors]
      /\ timedout \subseteq Tasks /\ idx \in [Procs -> Nat] /\ semnum \in [Procs -> Sems \cup {-1}]
      /\ walk \in [Procs -> Nat] /\ ref \in [Procs -> Int]
  BY Parts, UnType DEF TypeInv
<1>c. CallInv'
  <2>1. Next
    BY Kinds DEF Next, Step
  <2> QED BY Parts, <2>1, CallStep
<1>g. pc[p] = "ret"
  BY DEF syscall_exit
<1>u. /\ UNCHANGED <<semval, sem_pending, complex_count, mem, refcount, deleted, grace, lock, idr,
                     used_sems, rw_mutex, list_id, list_proc, readers, undo_list, ulp, refcnt,
                     ulp_lock, un, semid, state, sig, tasks>>
  BY <1>t, <1>g DEF syscall_exit, Goto, arrayv, life, lists, ns, ulpv
<1>e_pc. /\ pc' \in [Procs -> Labels] /\ pc'[p] = "idle" /\ \A q \in Procs : q # p => pc'[q] = pc[q]
  BY Parts, <1>t, Kinds, <1>g DEF syscall_exit, Goto, Labels
<1>e_cmd. /\ cmd' \in [Procs -> Cmds \cup {"none", "SEMOP", "EXIT"}] /\ cmd'[p] = "none" /\ \A q \in Procs : q # p => cmd'[q] = cmd[q]
  BY Parts, <1>t, Kinds, <1>g DEF syscall_exit, Goto
<1>e_sops. /\ sops' \in [Procs -> SopSeqs \cup {<<>>}] /\ sops'[p] = <<>> /\ \A q \in Procs : q # p => sops'[q] = sops[q]
  BY Parts, <1>t, Kinds, <1>g DEF syscall_exit, Goto
<1>e_sma. /\ sma' \in [Procs -> Arrays \cup {NoArr}] /\ sma'[p] = NoArr /\ \A q \in Procs : q # p => sma'[q] = sma[q]
  BY Parts, <1>t, Kinds, <1>g DEF syscall_exit, Goto
<1>e_undo. /\ undo' \in [Procs -> [list : Tasks \cup {NoProc}, set : Arrays \cup {NoArr}]] /\ undo'[p] = NoUndo /\ \A q \in Procs : q # p => undo'[q] = undo[q] 
  BY Parts, <1>t DEF syscall_exit, NoUndo
<1>e_status. /\ status' \in [Procs -> Errors \cup {"IN_WAKEUP"}] /\ status'[p] = "EINTR" /\ \A q \in Procs : q # p => status'[q] = status[q]
  BY Parts, <1>t, Kinds, <1>g DEF syscall_exit, Goto, Errors
<1>e_outcome. /\ outcome' \in [Procs -> Errors] /\ outcome'[p] = "EINTR" /\ \A q \in Procs : q # p => outcome'[q] = outcome[q]
  BY Parts, <1>t, Kinds, <1>g DEF syscall_exit, Goto, Errors
<1>e_timedout. timedout' = (timedout \ {p}) /\ timedout' \subseteq Tasks
  BY Parts, <1>t, Kinds, <1>g DEF syscall_exit, Goto
<1>e_idx. /\ idx' \in [Procs -> Nat] /\ idx'[p] = 0 /\ \A q \in Procs : q # p => idx'[q] = idx[q]
  BY Parts, <1>t, Kinds, <1>g DEF syscall_exit, Goto
<1>e_semnum. /\ semnum' \in [Procs -> Sems \cup {-1}] /\ semnum'[p] = -1 /\ \A q \in Procs : q # p => semnum'[q] = semnum[q]
  BY Parts, <1>t, Kinds, <1>g DEF syscall_exit, Goto
<1>e_walk. /\ walk' \in [Procs -> Nat] /\ walk'[p] = 0 /\ \A q \in Procs : q # p => walk'[q] = walk[q]
  BY Parts, <1>t, Kinds, <1>g DEF syscall_exit, Goto
<1>e_ref. /\ ref' \in [Procs -> Int] /\ ref'[p] = 0 /\ \A q \in Procs : q # p => ref'[q] = ref[q]
  BY Parts, <1>t, Kinds, <1>g DEF syscall_exit, Goto
<1>T. TypeInv'
  BY Parts, <1>u, <1>e_pc, <1>e_cmd, <1>e_sops, <1>e_sma, <1>e_undo, <1>e_status, <1>e_outcome,
    <1>e_timedout, <1>e_idx, <1>e_semnum, <1>e_walk, <1>e_ref DEF TypeInv, Uns, UnRecs
<1>f. /\ SetLife' /\ InTable' /\ HasUndos' /\ TableSets' /\ RefNat' /\ UserCount' /\ OnceLinked'
      /\ LinkedLive' /\ BothLists'
  BY Parts, <1>u, Frames
<1>H. \A b \in Arrays : Holders(b)' = Holders(b)
  BY Kinds, <1>u, <1>e_pc, <1>e_sma, <1>g, HoldersSame
<1>O. \A b \in Arrays : Counted(b)' = Counted(b)
  BY Kinds, Calls, <1>u, <1>e_cmd, <1>e_pc, <1>e_sma, <1>g, CountedSame
<1>SetLocks. SetLocks'
  BY Parts, Kinds, <1>u, <1>e_pc, <1>e_sma, <1>g DEF SetLocks
<1>ListLocks. ListLocks'
  BY Parts, Kinds, <1>u, <1>e_pc, <1>e_undo, <1>g DEF ListLocks
<1>Unlinking. Unlinking'
  BY Parts, <1>u, <1>e_pc, <1>e_sma, <1>e_undo, <1>g DEF Unlinking
<1>Removing. Removing'
  BY Parts, Calls, Kinds, <1>u, <1>e_pc, <1>e_cmd, <1>g DEF Removing
<1>HeldSets. HeldSets'
  BY Parts, Sites, <1>u, <1>e_pc, <1>e_sma, <1>g DEF HeldSets
<1>GoneSets. GoneSets'
  BY Parts, Sites, Calls, <1>u, <1>e_pc, <1>e_cmd, <1>e_sma, <1>g DEF GoneSets
<1>ReferencesCovered. ReferencesCovered'
  BY Parts, <1>H, <1>O, <1>t, <1>u, <1>e_pc, <1>e_cmd, <1>e_sma, <1>g, HoldersFinite DEF
    ReferencesCovered
<1>Loaded. Loaded'
  BY Parts, Sites, <1>H, Calls, <1>t, <1>u, <1>e_pc, <1>e_sma, <1>e_ref, <1>g, HoldersFinite DEF
    Loaded
<1>KeptSets. KeptSets'
  BY Parts, Sites, <1>u, <1>e_pc, <1>e_sma, <1>g DEF KeptSets, Kept
<1>KeptUndo. KeptUndo'
  BY Parts, Undos, <1>u, <1>e_pc, <1>e_undo, <1>g DEF KeptUndo, Kept
<1>ExitList. ExitList'
  BY Parts, Kinds, Calls, <1>u, <1>e_pc, <1>e_cmd, <1>e_undo, <1>g DEF ExitList, Users
<1>FreshList. FreshList'
  BY Parts, Kinds, Calls, <1>u, <1>e_cmd, <1>e_undo, <1>g DEF FreshList, Users, NoUndo
<1>OwnList. OwnList'
  BY Parts, Kinds, Calls, <1>u, <1>e_pc, <1>e_cmd, <1>e_undo, <1>g DEF OwnList, NoUndo
<1>OneList. OneList'
  BY Parts, Kinds, <1>u, <1>e_pc, <1>e_undo, <1>g DEF OneList
<1>Unlinked. Unlinked'
  BY Parts, Undos, <1>u, <1>e_pc, <1>e_cmd, <1>e_undo, <1>g DEF Unlinked
<1>OwnUndo. OwnUndo'
  BY Parts, Undos, Sites, <1>u, <1>e_pc, <1>e_cmd, <1>e_sma, <1>e_undo, <1>g DEF OwnUndo, NoUndo
<1>UsedSems. UsedSems'
  BY Parts, <1>O, <1>u, <1>e_pc, <1>e_cmd, <1>e_sma DEF UsedSems
<1> QED BY <1>T, <1>c, <1>f, <1>SetLocks, <1>ListLocks, <1>Unlinking, <1>Removing, <1>HeldSets,
  <1>GoneSets, <1>ReferencesCovered, <1>Loaded, <1>KeptSets, <1>KeptUndo, <1>ExitList,
  <1>FreshList, <1>OwnList, <1>OneList, <1>Unlinked, <1>OwnUndo, <1>UsedSems DEF IInv, LockInv,
  SetInv, RefInv, RcuInv, ListInv, LinkInv

(* find_alloc_undo() takes a reference and unlocks.                        *)
LEMMA IInv_undo_getref ==
    ASSUME IInv, NEW p \in Procs, undo_getref(p)
    PROVE  IInv'
<1> USE DEF Holding, Waiting, Referring, WakingUp
<1>t. /\ refcount \in [Arrays -> Int] /\ grace \in [Arrays -> SUBSET Procs]
      /\ lock \in [Arrays -> Procs \cup {NoProc}] /\ readers \subseteq Procs /\ un \in Uns
      /\ pc \in [Procs -> Labels] /\ cmd \in [Procs -> Cmds \cup {"none", "SEMOP", "EXIT"}]
      /\ sma \in [Procs -> Arrays \cup {NoArr}]
      /\ undo \in [Procs -> [list : Tasks \cup {NoProc}, set : Arrays \cup {NoArr}]]
  BY Parts, UnType DEF TypeInv
<1>c. CallInv'
  <2>1. Next
    BY Kinds DEF Next, Step
  <2> QED BY Parts, <2>1, CallStep
<1>g. /\ pc[p] = "ulock" /\ sma[p] \in Arrays /\ lock[sma[p]] = NoProc /\ p \in readers
      /\ ~deleted[sma[p]] /\ mem[sma[p]] = "live" /\ Counted(sma[p]) /\ IdOf[sma[p]] = semid[p]
  <2>1. Found(p, "ulock")
    BY DEF undo_getref
  <2> QED BY Parts, <2>1, FoundSet
<1>a. PICK a \in Arrays : a = sma[p]
  BY Parts, <1>g, Locals
<1>u. /\ UNCHANGED <<semval, sem_pending, complex_count, mem, deleted, lock, idr, used_sems, rw_mutex,
                     list_id, list_proc, undo_list, ulp, refcnt, ulp_lock, cmd, sops, semid, sma, undo,
                     status, outcome, state, sig, timedout, tasks, idx, semnum, walk, ref, res>>
  BY <1>t, <1>g, <1>a DEF undo_getref, Goto, args, arrayv, lists, ns, queue, scanv, sched, ulpv
<1>e_refcount. /\ refcount' \in [Arrays -> Int] /\ refcount'[a] = refcount[a] + 1 /\ \A b \in Arrays : b # a => refcount'[b] = refcount[b]
  BY Parts, <1>t, Kinds, <1>g, <1>a DEF undo_getref, Getref, Goto
<1>e_leave. /\ readers' = readers \ {p} /\ readers' \subseteq Procs
            /\ grace' \in [Arrays -> SUBSET Procs] /\ un' \in Uns
            /\ \A b \in Arrays : grace'[b] = grace[b] \ {p}
            /\ \A v \in Tasks, b \in Arrays :
                 /\ un'[v][b].mem = un[v][b].mem /\ un'[v][b].valid = un[v][b].valid
                 /\ un'[v][b].grace = un[v][b].grace \ {p}
  <2>1. Leave(p)
    BY <1>t, <1>g, <1>a DEF undo_getref
  <2> QED BY Parts, <2>1, LeaveEffect
<1>e_pc. /\ pc' \in [Procs -> Labels] /\ pc'[p] = "ualloc" /\ \A q \in Procs : q # p => pc'[q] = pc[q]
  BY Parts, <1>t, Kinds, <1>g, <1>a DEF undo_getref, Getref, Goto, Labels
<1>T. TypeInv'
  BY Parts, <1>u, <1>e_refcount, <1>e_leave, <1>e_pc DEF TypeInv, Uns, UnRecs
<1>f. /\ SetLife' /\ InTable' /\ HasUndos' /\ TableSets' /\ UserCount' /\ FreshList' /\ OnceLinked'
  BY Parts, <1>u, Frames
<1>H. /\ Holders(a)' = Holders(a) \cup {p} /\ Cardinality(Holders(a)') = Cardinality(Holders(a)) + 1
      /\ \A b \in Arrays : b # a => Holders(b)' = Holders(b)
  BY <1>a, <1>g, <1>u, <1>e_pc, HoldersJoin
<1>O. \A b \in Arrays : Counted(b)' = Counted(b)
  BY Kinds, Calls, <1>u, <1>e_pc, <1>g, <1>a, CountedSame
<1>SetLocks. SetLocks'
  BY Parts, Kinds, <1>u, <1>e_pc, <1>g, <1>a DEF SetLocks
<1>ListLocks. ListLocks'
  BY Parts, Kinds, <1>u, <1>e_pc, <1>g, <1>a DEF ListLocks
<1>Unlinking. Unlinking'
  BY Parts, <1>u, <1>e_pc, <1>g, <1>a DEF Unlinking
<1>Removing. Removing'
  BY Parts, Calls, Kinds, <1>u, <1>e_pc, <1>g, <1>a DEF Removing
<1>HeldSets. HeldSets'
  BY Parts, Sites, <1>u, <1>e_pc, <1>g, <1>a DEF HeldSets
<1>GoneSets. GoneSets'
  BY Parts, Sites, Calls, <1>u, <1>e_pc, <1>g, <1>a DEF GoneSets
<1>ReferencesCovered. ReferencesCovered'
  <2>1. refcount[a] \in Int /\ refcount[a] >= Cardinality(Holders(a)) + 1 /\ mem[a] = "live"
    BY Parts, <1>t, <1>g, <1>a DEF ReferencesCovered
  <2>2. refcount'[a] >= Cardinality(Holders(a)') + 1 /\ mem'[a] = "live"
    BY <1>H, <1>u, <1>e_refcount, <2>1, HoldersFinite
  <2>3. \A b \in Arrays : b # a /\ (Holders(b)' # {} \/ Counted(b)') =>
          mem'[b] = "live" /\ refcount'[b] >= Cardinality(Holders(b)') + (IF Counted(b)' THEN 1 ELSE 0)
    BY Parts, <1>H, <1>O, <1>u, <1>e_refcount DEF ReferencesCovered
  <2>4. Counted(a)'
    BY <1>O, <1>a, <1>g
  <2> QED BY <2>2, <2>3, <2>4 DEF ReferencesCovered
<1>RefNat. RefNat'
  BY Parts, <1>t, <1>u, <1>e_refcount, <1>g, <1>a DEF RefNat
<1>Loaded. Loaded'
  BY Parts, Sites, <1>H, Calls, <1>t, <1>u, <1>e_pc, <1>g, <1>a, HoldersFinite DEF Loaded, GoneSets
<1>KeptSets. KeptSets'
  BY Parts, Sites, <1>u, <1>e_leave, <1>e_pc, <1>g, <1>a DEF KeptSets, Kept
<1>KeptUndo. KeptUndo'
  BY Parts, Undos, <1>u, <1>e_leave, <1>e_pc, <1>g, <1>a DEF KeptUndo, Kept
<1>ExitList. ExitList'
  BY Parts, Kinds, Calls, <1>u, <1>e_pc, <1>g, <1>a DEF ExitList, Users
<1>OwnList. OwnList'
  BY Parts, Kinds, Calls, <1>u, <1>e_pc, <1>g, <1>a DEF OwnList
<1>LinkedLive. LinkedLive'
  BY Parts, <1>u, <1>e_leave, <1>g, <1>a DEF LinkedLive
<1>BothLists. BothLists'
  BY Parts, <1>u, <1>e_leave, <1>g, <1>a DEF BothLists
<1>OneList. OneList'
  BY Parts, Kinds, <1>u, <1>e_pc, <1>g, <1>a DEF OneList
<1>Unlinked. Unlinked'
  BY Parts, Undos, <1>u, <1>e_leave, <1>e_pc, <1>g, <1>a DEF Unlinked
<1>OwnUndo. OwnUndo'
  BY Parts, Undos, Sites, <1>u, <1>e_leave, <1>e_pc, <1>g, <1>a DEF OwnUndo
<1>UsedSems. UsedSems'
  BY Parts, <1>O, <1>u, <1>e_pc DEF UsedSems
<1> QED BY <1>T, <1>c, <1>f, <1>SetLocks, <1>ListLocks, <1>Unlinking, <1>Removing, <1>HeldSets,
  <1>GoneSets, <1>ReferencesCovered, <1>RefNat, <1>Loaded, <1>KeptSets, <1>KeptUndo, <1>ExitList,
  <1>OwnList, <1>LinkedLive, <1>BothLists, <1>OneList, <1>Unlinked, <1>OwnUndo, <1>UsedSems DEF
  IInv, LockInv, SetInv, RefInv, RcuInv, ListInv, LinkInv

-----------------------------------------------------------------------------
(* Undo structures are found or made; calls that kept a reference only.    *)

(* lookup_undo() finds the structure.                                      *)
LEMMA IInv_find_undo_hit ==
    ASSUME IInv, NEW p \in Procs, find_undo(p), lookup_undo(IF undo_list[p] = NoProc THEN p ELSE undo_list[p], semid[p]) # {}
    PROVE  IInv'
<1> USE DEF Holding, Waiting, Referring, WakingUp
<1>t. /\ lock \in [Arrays -> Procs \cup {NoProc}] /\ list_proc \in [Tasks -> Seq(Arrays)]
      /\ readers \subseteq Procs /\ undo_list \in [Tasks -> Tasks \cup {NoProc}]
      /\ ulp \in [Tasks -> {"none", "live", "freed"}] /\ refcnt \in [Tasks -> Int]
      /\ pc \in [Procs -> Labels] /\ cmd \in [Procs -> Cmds \cup {"none", "SEMOP", "EXIT"}]
      /\ sma \in [Procs -> Arrays \cup {NoArr}]
      /\ undo \in [Procs -> [list : Tasks \cup {NoProc}, set : Arrays \cup {NoArr}]]
  BY Parts, UnType DEF TypeInv
<1>c. CallInv'
  <2>1. Next
    BY Kinds DEF Next, Step
  <2> QED BY Parts, <2>1, CallStep
<1>g. pc[p] = "undo"
  BY DEF find_undo
<1>z. p \in Tasks /\ cmd[p] = "SEMOP"
  BY Parts, <1>g, Locals DEF QueuePcs
<1>b. PICK u \in Tasks : u = IF undo_list[p] = NoProc THEN p ELSE undo_list[p]
  BY <1>t, <1>z
<1>a. PICK a \in lookup_undo(u, semid[p]) :
        /\ ToFront(u, a) /\ undo' = [undo EXCEPT ![p] = [list |-> u, set |-> a]]
        /\ readers' = readers \cup {p} /\ Goto(p, "find")
  BY <1>b DEF find_undo
<1>d. /\ a \in Arrays /\ a \in ToSet(list_proc[u]) /\ un[u][a].valid /\ IdOf[a] = semid[p]
  BY <1>a, <1>b, <1>t DEF lookup_undo, ToSet
<1>e. un[u][a].mem = "live" /\ u \in list_id[a]
  <2>1. un[u][a].mem = "live"
    BY Parts, <1>b, <1>d DEF LinkedLive
  <2>2. SUFFICES ASSUME u \notin list_id[a] PROVE FALSE
    BY <2>1
  <2>3. PICK c \in Ctls : pc[c] = "funlink" /\ undo[c] = [list |-> u, set |-> a]
    BY Parts, <1>b, <1>d, <2>2 DEF OneList
  <2> QED BY Parts, Kinds, <1>d, <2>3 DEF Unlinked
<1>u. /\ UNCHANGED <<semval, sem_pending, complex_count, mem, refcount, deleted, grace, lock, idr,
                     used_sems, rw_mutex, list_id, ulp_lock, un, cmd, sops, semid, sma, status,
                     outcome, state, sig, timedout, tasks, idx, semnum, walk, ref, res>>
  BY <1>t, <1>g, <1>z, <1>b, <1>a, <1>d, <1>e DEF find_undo, get_undo_list, Goto, args, arrayv,
    life, ns, queue, scanv, sched
<1>e_pc. /\ pc' \in [Procs -> Labels] /\ pc'[p] = "find" /\ \A q \in Procs : q # p => pc'[q] = pc[q]
  BY Parts, <1>t, Kinds, <1>g, <1>z, <1>b, <1>a, <1>d, <1>e DEF find_undo, Goto, Labels
<1>e_undo. /\ undo' \in [Procs -> [list : Tasks \cup {NoProc}, set : Arrays \cup {NoArr}]] /\ undo'[p] = [list |-> u, set |-> a] /\ \A q \in Procs : q # p => undo'[q] = undo[q]
  BY Parts, <1>t, Kinds, <1>g, <1>z, <1>b, <1>a, <1>d, <1>e DEF find_undo, Goto
<1>e_readers. readers' = (readers \cup {p}) /\ readers' \subseteq Procs
  BY Parts, <1>t, Kinds, <1>g, <1>z, <1>b, <1>a, <1>d, <1>e DEF find_undo, Goto
<1>e_list. /\ undo_list' \in [Tasks -> Tasks \cup {NoProc}] /\ ulp' \in [Tasks -> {"none", "live", "freed"}]
           /\ refcnt' \in [Tasks -> Int] /\ undo_list'[p] = u
           /\ \A v \in Tasks : v # p => undo_list'[v] = undo_list[v]
           /\ undo_list[p] = NoProc => u = p /\ refcnt'[u] = 1 /\ \A v \in Tasks : v # p => refcnt'[v] = refcnt[v]
           /\ undo_list[p] # NoProc => u = undo_list[p] /\ refcnt' = refcnt
  <2>1. get_undo_list(p)
    BY DEF find_undo
  <2>2. /\ undo_list \in [Tasks -> Tasks \cup {NoProc}] /\ ulp \in [Tasks -> {"none", "live", "freed"}]
        /\ refcnt \in [Tasks -> Int]
    BY <1>t
  <2>3. CASE undo_list[p] = NoProc
    BY <1>z, <1>b, <2>1, <2>2, <2>3 DEF get_undo_list
  <2>4. CASE undo_list[p] # NoProc
    BY <1>z, <1>b, <2>1, <2>2, <2>4 DEF get_undo_list
  <2> QED BY <2>3, <2>4
<1>e_list_proc. /\ list_proc' \in [Tasks -> Seq(Arrays)] /\ IsInjective(list_proc'[u])
                /\ \A v \in Tasks : v # u => list_proc'[v] = list_proc[v]
                /\ ToSet(list_proc'[u]) = ToSet(list_proc[u])
  <2>1. /\ list_proc' \in [Tasks -> Seq(Arrays)] /\ IsInjective(list_proc'[u])
        /\ \A v \in Tasks : v # u => list_proc'[v] = list_proc[v]
        /\ ToSet(list_proc'[u]) = ToSet(list_proc[u]) \cup {a}
    BY Parts, <1>a, <1>d, FrontEffect
  <2> QED BY <1>d, <2>1
<1>T. TypeInv'
  BY Parts, <1>u, <1>e_pc, <1>e_undo, <1>e_readers, <1>e_list, <1>e_list_proc DEF TypeInv, Uns,
    UnRecs
<1>f. /\ SetLife' /\ InTable' /\ HasUndos' /\ TableSets' /\ RefNat'
  BY Parts, <1>u, Frames
<1>H. \A b \in Arrays : Holders(b)' = Holders(b)
  BY Kinds, <1>u, <1>e_pc, <1>g, <1>z, <1>b, <1>a, <1>d, <1>e, HoldersSame
<1>O. \A b \in Arrays : Counted(b)' = Counted(b)
  BY Kinds, Calls, <1>u, <1>e_pc, <1>g, <1>z, <1>b, <1>a, <1>d, <1>e, CountedSame
<1>SetLocks. SetLocks'
  BY Parts, Kinds, <1>u, <1>e_pc, <1>g, <1>z, <1>b, <1>a, <1>d, <1>e DEF SetLocks
<1>ListLocks. ListLocks'
  BY Parts, Kinds, <1>u, <1>e_pc, <1>e_undo, <1>g, <1>z, <1>b, <1>a, <1>d, <1>e DEF ListLocks
<1>Unlinking. Unlinking'
  BY Parts, <1>u, <1>e_pc, <1>e_undo, <1>g, <1>z, <1>b, <1>a, <1>d, <1>e DEF Unlinking
<1>Removing. Removing'
  BY Parts, Calls, Kinds, <1>u, <1>e_pc, <1>g, <1>z, <1>b, <1>a, <1>d, <1>e DEF Removing
<1>HeldSets. HeldSets'
  BY Parts, Sites, <1>u, <1>e_pc, <1>g, <1>z, <1>b, <1>a, <1>d, <1>e DEF HeldSets
<1>GoneSets. GoneSets'
  BY Parts, Sites, Calls, <1>u, <1>e_pc, <1>g, <1>z, <1>b, <1>a, <1>d, <1>e DEF GoneSets
<1>ReferencesCovered. ReferencesCovered'
  BY Parts, <1>H, <1>O, <1>t, <1>u, <1>e_pc, <1>g, <1>z, <1>b, <1>a, <1>d, <1>e, HoldersFinite DEF
    ReferencesCovered
<1>Loaded. Loaded'
  BY Parts, Sites, <1>H, Calls, <1>t, <1>u, <1>e_pc, <1>g, <1>z, <1>b, <1>a, <1>d, <1>e,
    HoldersFinite DEF Loaded
<1>KeptSets. KeptSets'
  BY Parts, Sites, <1>u, <1>e_readers, <1>e_pc, <1>g, <1>z, <1>b, <1>a, <1>d, <1>e DEF KeptSets,
    Kept
<1>KeptUndo. KeptUndo'
  BY Parts, Undos, <1>u, <1>e_readers, <1>e_pc, <1>e_undo, <1>g, <1>z, <1>b, <1>a, <1>d, <1>e DEF
    KeptUndo, Kept
<1>UserCount. UserCount'
  <2>1. CASE undo_list[p] = NoProc
    <3>1. Users(u)' = {p} /\ \A v \in Tasks : v # u => Users(v)' = Users(v)
        BY Parts, <1>z, Kinds, <1>e_list, <2>1 DEF FreshList, Users
    <3>2. Cardinality({p}) = 1
        BY FS_Singleton
    <3> QED BY Parts, <1>e_list, <2>1, <3>1, <3>2 DEF UserCount
  <2>2. CASE undo_list[p] # NoProc
    <3>1. \A v \in Tasks : Users(v)' = Users(v)
        BY <1>e_list, <2>2 DEF Users
    <3> QED BY Parts, <1>e_list, <2>2, <3>1 DEF UserCount
  <2> QED BY <2>1, <2>2
<1>ExitList. ExitList'
  <2> SUFFICES ASSUME NEW q \in Tasks
               PROVE  /\ (cmd[q] = "EXIT" \/ pc[q] = "unborn" => undo_list[q] = NoProc)'
                      /\ (cmd[q] = "EXIT" /\ pc[q] # "dead" => undo[q].list \in Tasks /\ Users(undo[q].list) = {})'
    BY DEF ExitList
  <2>1. CASE q = p
    BY <1>u, <1>z, <1>e_pc, <2>1
  <2>2. CASE q # p
    <3>1. pc'[q] = pc[q] /\ cmd'[q] = cmd[q] /\ undo_list'[q] = undo_list[q] /\ undo'[q] = undo[q]
        BY Kinds, <1>u, <1>e_pc, <1>e_list, <1>e_undo, <2>2
    <3>2. cmd[q] = "EXIT" /\ pc[q] # "dead" => undo[q].list \in Tasks /\ Users(undo[q].list) = {} /\ undo[q].list # u
      <4>1. cmd[q] = "EXIT" /\ pc[q] # "dead" => undo[q].list \in Tasks /\ Users(undo[q].list) = {}
        BY Parts DEF ExitList
      <4>2. CASE undo_list[p] = NoProc
        BY Parts, <1>z, <1>e_list, <4>1, <4>2 DEF FreshList
      <4>3. CASE undo_list[p] # NoProc
        <5>1. p \in Users(u)
            BY <1>z, <1>e_list, <4>3 DEF Users
        <5> QED BY <4>1, <5>1
      <4> QED BY <4>2, <4>3
    <3>3. \A v \in Tasks : v # u => Users(v)' = Users(v)
        BY Parts, <1>z, Kinds, <1>e_list DEF Users
    <3>4. cmd[q] = "EXIT" \/ pc[q] = "unborn" => undo_list[q] = NoProc
        BY Parts DEF ExitList
    <3> QED BY <3>1, <3>2, <3>3, <3>4
  <2> QED BY <2>1, <2>2
<1>FreshList. FreshList'
  <2> SUFFICES ASSUME NEW q \in Tasks, cmd'[q] # "EXIT", undo_list'[q] = NoProc
               PROVE  Users(q)' = {} /\ \A r \in Tasks : cmd'[r] = "EXIT" => undo'[r].list # q
    BY DEF FreshList
  <2>1. q # p /\ undo_list[q] = NoProc /\ cmd[q] # "EXIT"
    BY Kinds, <1>u, <1>z, <1>e_list
  <2>2. Users(q) = {} /\ \A r \in Tasks : cmd[r] = "EXIT" => undo[r].list # q
    BY Parts, <2>1 DEF FreshList
  <2>3. q # u
    BY <1>z, <1>e_list, <2>1, <2>2 DEF Users
  <2>4. Users(q)' = {}
    BY <1>z, <1>e_list, <2>2, <2>3 DEF Users
  <2> QED BY Kinds, <1>u, <1>z, <1>e_undo, <2>2, <2>4
<1>OwnList. OwnList'
  BY Parts, Kinds, Calls, <1>u, <1>e_list, <1>e_pc, <1>e_undo, <1>g, <1>z, <1>b, <1>a, <1>d, <1>e
    DEF OwnList
<1>OnceLinked. OnceLinked'
  BY Parts, <1>u, <1>e_list_proc, <1>g, <1>z, <1>b, <1>a, <1>d, <1>e DEF OnceLinked
<1>LinkedLive. LinkedLive'
  BY Parts, <1>u, <1>e_list_proc, <1>g, <1>z, <1>b, <1>a, <1>d, <1>e DEF LinkedLive
<1>BothLists. BothLists'
  BY Parts, <1>u, <1>e_list_proc, <1>g, <1>z, <1>b, <1>a, <1>d, <1>e DEF BothLists
<1>OneList. OneList'
  <2> SUFFICES ASSUME NEW v \in Tasks, NEW b \in Arrays, b \in ToSet(list_proc'[v]), v \notin list_id'[b]
               PROVE  (\E c \in Ctls : pc[c] = "funlink" /\ undo[c] = [list |-> v, set |-> b])'
    BY DEF OneList
  <2>1. b \in ToSet(list_proc[v]) /\ v \notin list_id[b]
    BY <1>u, <1>e_list_proc
  <2>2. PICK c \in Ctls : pc[c] = "funlink" /\ undo[c] = [list |-> v, set |-> b]
    BY Parts, <2>1 DEF OneList
  <2>3. pc'[c] = pc[c] /\ undo'[c] = undo[c]
    BY Kinds, <2>2, <1>g, <1>z, <1>e_pc, <1>e_undo
  <2> QED BY <2>2, <2>3
<1>Unlinked. Unlinked'
  BY Parts, Undos, <1>u, <1>e_list_proc, <1>e_pc, <1>e_undo, <1>g, <1>z, <1>b, <1>a, <1>d, <1>e DEF
    Unlinked
<1>OwnUndo. OwnUndo'
  BY Parts, Undos, Sites, <1>u, <1>e_pc, <1>e_undo, <1>g, <1>z, <1>b, <1>a, <1>d, <1>e DEF OwnUndo
<1>UsedSems. UsedSems'
  BY Parts, <1>O, <1>u, <1>e_pc DEF UsedSems
<1> QED BY <1>T, <1>c, <1>f, <1>SetLocks, <1>ListLocks, <1>Unlinking, <1>Removing, <1>HeldSets,
  <1>GoneSets, <1>ReferencesCovered, <1>Loaded, <1>KeptSets, <1>KeptUndo, <1>UserCount,
  <1>ExitList, <1>FreshList, <1>OwnList, <1>OnceLinked, <1>LinkedLive, <1>BothLists, <1>OneList,
  <1>Unlinked, <1>OwnUndo, <1>UsedSems DEF IInv, LockInv, SetInv, RefInv, RcuInv, ListInv, LinkInv

(* lookup_undo() finds none.                                               *)
LEMMA IInv_find_undo_miss ==
    ASSUME IInv, NEW p \in Procs, find_undo(p), lookup_undo(IF undo_list[p] = NoProc THEN p ELSE undo_list[p], semid[p]) = {}
    PROVE  IInv'
<1> USE DEF Holding, Waiting, Referring, WakingUp
<1>t. /\ lock \in [Arrays -> Procs \cup {NoProc}] /\ undo_list \in [Tasks -> Tasks \cup {NoProc}]
      /\ ulp \in [Tasks -> {"none", "live", "freed"}] /\ refcnt \in [Tasks -> Int]
      /\ pc \in [Procs -> Labels] /\ cmd \in [Procs -> Cmds \cup {"none", "SEMOP", "EXIT"}]
      /\ sma \in [Procs -> Arrays \cup {NoArr}]
      /\ undo \in [Procs -> [list : Tasks \cup {NoProc}, set : Arrays \cup {NoArr}]]
  BY Parts, UnType DEF TypeInv
<1>c. CallInv'
  <2>1. Next
    BY Kinds DEF Next, Step
  <2> QED BY Parts, <2>1, CallStep
<1>g. pc[p] = "undo"
  BY DEF find_undo
<1>z. p \in Tasks /\ cmd[p] = "SEMOP"
  BY Parts, <1>g, Locals DEF QueuePcs
<1>b. PICK u \in Tasks : u = IF undo_list[p] = NoProc THEN p ELSE undo_list[p]
  BY <1>t, <1>z
<1>u. /\ UNCHANGED <<semval, sem_pending, complex_count, mem, refcount, deleted, grace, lock, idr,
                     used_sems, rw_mutex, list_id, list_proc, readers, ulp_lock, un, cmd, sops, semid,
                     sma, undo, status, outcome, state, sig, timedout, tasks, idx, semnum, walk, ref,
                     res>>
  BY <1>t, <1>g, <1>z, <1>b DEF find_undo, get_undo_list, Goto, args, arrayv, life, ns, queue,
    scanv, sched
<1>e_pc. /\ pc' \in [Procs -> Labels] /\ pc'[p] = "ufind" /\ \A q \in Procs : q # p => pc'[q] = pc[q]
  BY Parts, <1>t, Kinds, <1>g, <1>z, <1>b DEF find_undo, Goto, Labels
<1>e_list. /\ undo_list' \in [Tasks -> Tasks \cup {NoProc}] /\ ulp' \in [Tasks -> {"none", "live", "freed"}]
           /\ refcnt' \in [Tasks -> Int] /\ undo_list'[p] = u
           /\ \A v \in Tasks : v # p => undo_list'[v] = undo_list[v]
           /\ undo_list[p] = NoProc => u = p /\ refcnt'[u] = 1 /\ \A v \in Tasks : v # p => refcnt'[v] = refcnt[v]
           /\ undo_list[p] # NoProc => u = undo_list[p] /\ refcnt' = refcnt
  <2>1. get_undo_list(p)
    BY DEF find_undo
  <2>2. /\ undo_list \in [Tasks -> Tasks \cup {NoProc}] /\ ulp \in [Tasks -> {"none", "live", "freed"}]
        /\ refcnt \in [Tasks -> Int]
    BY <1>t
  <2>3. CASE undo_list[p] = NoProc
    BY <1>z, <1>b, <2>1, <2>2, <2>3 DEF get_undo_list
  <2>4. CASE undo_list[p] # NoProc
    BY <1>z, <1>b, <2>1, <2>2, <2>4 DEF get_undo_list
  <2> QED BY <2>3, <2>4
<1>T. TypeInv'
  BY Parts, <1>u, <1>e_pc, <1>e_list DEF TypeInv, Uns, UnRecs
<1>f. /\ SetLife' /\ InTable' /\ HasUndos' /\ TableSets' /\ RefNat' /\ OnceLinked' /\ LinkedLive'
      /\ BothLists'
  BY Parts, <1>u, Frames
<1>H. \A b \in Arrays : Holders(b)' = Holders(b)
  BY Kinds, <1>u, <1>e_pc, <1>g, <1>z, <1>b, HoldersSame
<1>O. \A b \in Arrays : Counted(b)' = Counted(b)
  BY Kinds, Calls, <1>u, <1>e_pc, <1>g, <1>z, <1>b, CountedSame
<1>SetLocks. SetLocks'
  BY Parts, Kinds, <1>u, <1>e_pc, <1>g, <1>z, <1>b DEF SetLocks
<1>ListLocks. ListLocks'
  BY Parts, Kinds, <1>u, <1>e_pc, <1>g, <1>z, <1>b DEF ListLocks
<1>Unlinking. Unlinking'
  BY Parts, <1>u, <1>e_pc, <1>g, <1>z, <1>b DEF Unlinking
<1>Removing. Removing'
  BY Parts, Calls, Kinds, <1>u, <1>e_pc, <1>g, <1>z, <1>b DEF Removing
<1>HeldSets. HeldSets'
  BY Parts, Sites, <1>u, <1>e_pc, <1>g, <1>z, <1>b DEF HeldSets
<1>GoneSets. GoneSets'
  BY Parts, Sites, Calls, <1>u, <1>e_pc, <1>g, <1>z, <1>b DEF GoneSets
<1>ReferencesCovered. ReferencesCovered'
  BY Parts, <1>H, <1>O, <1>t, <1>u, <1>e_pc, <1>g, <1>z, <1>b, HoldersFinite DEF ReferencesCovered
<1>Loaded. Loaded'
  BY Parts, Sites, <1>H, Calls, <1>t, <1>u, <1>e_pc, <1>g, <1>z, <1>b, HoldersFinite DEF Loaded
<1>KeptSets. KeptSets'
  BY Parts, Sites, <1>u, <1>e_pc, <1>g, <1>z, <1>b DEF KeptSets, Kept
<1>KeptUndo. KeptUndo'
  BY Parts, Undos, <1>u, <1>e_pc, <1>g, <1>z, <1>b DEF KeptUndo, Kept
<1>UserCount. UserCount'
  <2>1. CASE undo_list[p] = NoProc
    <3>1. Users(u)' = {p} /\ \A v \in Tasks : v # u => Users(v)' = Users(v)
        BY Parts, <1>z, Kinds, <1>e_list, <2>1 DEF FreshList, Users
    <3>2. Cardinality({p}) = 1
        BY FS_Singleton
    <3> QED BY Parts, <1>e_list, <2>1, <3>1, <3>2 DEF UserCount
  <2>2. CASE undo_list[p] # NoProc
    <3>1. \A v \in Tasks : Users(v)' = Users(v)
        BY <1>e_list, <2>2 DEF Users
    <3> QED BY Parts, <1>e_list, <2>2, <3>1 DEF UserCount
  <2> QED BY <2>1, <2>2
<1>ExitList. ExitList'
  <2> SUFFICES ASSUME NEW q \in Tasks
               PROVE  /\ (cmd[q] = "EXIT" \/ pc[q] = "unborn" => undo_list[q] = NoProc)'
                      /\ (cmd[q] = "EXIT" /\ pc[q] # "dead" => undo[q].list \in Tasks /\ Users(undo[q].list) = {})'
    BY DEF ExitList
  <2>1. CASE q = p
    BY <1>u, <1>z, <1>e_pc, <2>1
  <2>2. CASE q # p
    <3>1. pc'[q] = pc[q] /\ cmd'[q] = cmd[q] /\ undo_list'[q] = undo_list[q] /\ undo'[q] = undo[q]
        BY Kinds, <1>u, <1>e_pc, <1>e_list, <2>2
    <3>2. cmd[q] = "EXIT" /\ pc[q] # "dead" => undo[q].list \in Tasks /\ Users(undo[q].list) = {} /\ undo[q].list # u
      <4>1. cmd[q] = "EXIT" /\ pc[q] # "dead" => undo[q].list \in Tasks /\ Users(undo[q].list) = {}
        BY Parts DEF ExitList
      <4>2. CASE undo_list[p] = NoProc
        BY Parts, <1>z, <1>e_list, <4>1, <4>2 DEF FreshList
      <4>3. CASE undo_list[p] # NoProc
        <5>1. p \in Users(u)
            BY <1>z, <1>e_list, <4>3 DEF Users
        <5> QED BY <4>1, <5>1
      <4> QED BY <4>2, <4>3
    <3>3. \A v \in Tasks : v # u => Users(v)' = Users(v)
        BY Parts, <1>z, Kinds, <1>e_list DEF Users
    <3>4. cmd[q] = "EXIT" \/ pc[q] = "unborn" => undo_list[q] = NoProc
        BY Parts DEF ExitList
    <3> QED BY <3>1, <3>2, <3>3, <3>4
  <2> QED BY <2>1, <2>2
<1>FreshList. FreshList'
  <2> SUFFICES ASSUME NEW q \in Tasks, cmd'[q] # "EXIT", undo_list'[q] = NoProc
               PROVE  Users(q)' = {} /\ \A r \in Tasks : cmd'[r] = "EXIT" => undo'[r].list # q
    BY DEF FreshList
  <2>1. q # p /\ undo_list[q] = NoProc /\ cmd[q] # "EXIT"
    BY Kinds, <1>u, <1>z, <1>e_list
  <2>2. Users(q) = {} /\ \A r \in Tasks : cmd[r] = "EXIT" => undo[r].list # q
    BY Parts, <2>1 DEF FreshList
  <2>3. q # u
    BY <1>z, <1>e_list, <2>1, <2>2 DEF Users
  <2>4. Users(q)' = {}
    BY <1>z, <1>e_list, <2>2, <2>3 DEF Users
  <2> QED BY Kinds, <1>u, <1>z, <2>2, <2>4
<1>OwnList. OwnList'
  BY Parts, Kinds, Calls, Undos, <1>u, <1>e_list, <1>e_pc, <1>g, <1>z, <1>b DEF OwnList
<1>OneList. OneList'
  BY Parts, Kinds, <1>u, <1>e_pc, <1>g, <1>z, <1>b DEF OneList
<1>Unlinked. Unlinked'
  BY Parts, Undos, <1>u, <1>e_pc, <1>g, <1>z, <1>b DEF Unlinked
<1>OwnUndo. OwnUndo'
  BY Parts, Undos, Sites, <1>u, <1>e_pc, <1>g, <1>z, <1>b DEF OwnUndo
<1>UsedSems. UsedSems'
  BY Parts, <1>O, <1>u, <1>e_pc DEF UsedSems
<1> QED BY <1>T, <1>c, <1>f, <1>SetLocks, <1>ListLocks, <1>Unlinking, <1>Removing, <1>HeldSets,
  <1>GoneSets, <1>ReferencesCovered, <1>Loaded, <1>KeptSets, <1>KeptUndo, <1>UserCount,
  <1>ExitList, <1>FreshList, <1>OwnList, <1>OneList, <1>Unlinked, <1>OwnUndo, <1>UsedSems DEF IInv,
  LockInv, SetInv, RefInv, RcuInv, ListInv, LinkInv

(* find_alloc_undo() without memory gives its reference back.              *)
LEMMA IInv_undo_enomem ==
    ASSUME IInv, NEW p \in Procs, undo_enomem(p)
    PROVE  IInv'
<1> USE DEF Holding, Waiting, Referring, WakingUp
<1>t. /\ mem \in [Arrays -> Mems] /\ refcount \in [Arrays -> Int]
      /\ grace \in [Arrays -> SUBSET Procs] /\ lock \in [Arrays -> Procs \cup {NoProc}]
      /\ idr \in [Slots -> Arrays \cup {NoArr}] /\ pc \in [Procs -> Labels]
      /\ cmd \in [Procs -> Cmds \cup {"none", "SEMOP", "EXIT"}]
      /\ sma \in [Procs -> Arrays \cup {NoArr}]
      /\ undo \in [Procs -> [list : Tasks \cup {NoProc}, set : Arrays \cup {NoArr}]]
      /\ sig \subseteq Tasks
  BY Parts, UnType DEF TypeInv
<1>c. CallInv'
  <2>1. Next
    BY Kinds DEF Next, Step
  <2> QED BY Parts, <2>1, CallStep
<1>g. pc[p] = "ualloc"
  BY DEF undo_enomem
<1>a. PICK a \in Arrays : a = sma[p]
  BY Parts, <1>g, Locals
<1>u. /\ UNCHANGED <<semval, sem_pending, complex_count, deleted, lock, idr, used_sems, rw_mutex,
                     list_id, list_proc, readers, undo_list, ulp, refcnt, ulp_lock, un, cmd, sops,
                     semid, sma, undo, status, outcome, state, timedout, tasks, idx, semnum, walk,
                     ref>>
  BY <1>t, <1>g, <1>a DEF undo_enomem, Return, Goto, args, arrayv, lists, ns, queue, scanv, ulpv
<1>e_put. /\ mem' \in [Arrays -> Mems] /\ refcount' \in [Arrays -> Int]
          /\ grace' \in [Arrays -> SUBSET Procs]
          /\ \A b \in Arrays : b # a =>
               mem'[b] = mem[b] /\ refcount'[b] = refcount[b] /\ grace'[b] = grace[b]
          /\ mem[a] = "live" /\ refcount[a] >= 1 /\ refcount'[a] = refcount[a] - 1
          /\ Counted(a) => mem'[a] = "live"
          /\ (mem'[a] = "live" /\ grace'[a] = grace[a]) \/ (mem'[a] = "rcu" /\ grace'[a] = readers)
          /\ mem'[a] = "rcu" => ~Counted(a) /\ Holders(a) \ {p} = {}
          /\ refcount[a] >= Cardinality(Holders(a)) + (IF Counted(a) THEN 1 ELSE 0)
  <2>1. p \in Holders(a)
    BY <1>a, <1>g DEF Holders
  <2>2. Putref(a, refcount[a])
    BY <1>a DEF undo_enomem
  <2>3. /\ mem' \in [Arrays -> Mems] /\ refcount' \in [Arrays -> Int]
        /\ grace' \in [Arrays -> SUBSET Procs]
        /\ \A b \in Arrays : b # a =>
             mem'[b] = mem[b] /\ refcount'[b] = refcount[b] /\ grace'[b] = grace[b]
        /\ mem[a] = "live" /\ refcount[a] >= 1 /\ refcount'[a] = refcount[a] - 1
        /\ refcount[a] >= Cardinality(Holders(a)) + (IF Counted(a) THEN 1 ELSE 0)
        /\ Cardinality(Holders(a)) >= 1
        /\ \/ refcount[a] > 1 /\ mem'[a] = mem[a] /\ grace'[a] = grace[a]
           \/ /\ refcount[a] = 1 /\ mem'[a] = "rcu" /\ grace'[a] = readers
              /\ ~Counted(a) /\ Holders(a) \ {p} = {}
    BY Parts, <2>1, <2>2, PutEffect
  <2> QED BY <2>3
<1>e_pc. /\ pc' \in [Procs -> Labels] /\ pc'[p] = "ret" /\ \A q \in Procs : q # p => pc'[q] = pc[q]
  BY Parts, <1>t, Kinds, <1>g, <1>a DEF undo_enomem, Return, Goto, Labels
<1>e_sig. sig' = (sig \ {p}) /\ sig' \subseteq Tasks
  BY Parts, <1>t, Kinds, <1>g, <1>a DEF undo_enomem, Return, Goto
<1>T. TypeInv'
  BY Parts, <1>u, <1>e_put, <1>e_pc, <1>e_sig DEF TypeInv, Uns, UnRecs
<1>f. /\ UserCount' /\ FreshList' /\ OnceLinked' /\ LinkedLive' /\ BothLists'
  BY Parts, <1>u, Frames
<1>H. /\ Holders(a)' = Holders(a) \ {p} /\ Cardinality(Holders(a)') = Cardinality(Holders(a)) - 1
      /\ \A b \in Arrays : b # a => Holders(b)' = Holders(b)
  BY <1>a, <1>g, <1>u, <1>e_pc, HoldersDrop
<1>O. \A b \in Arrays : Counted(b)' = Counted(b)
  BY Kinds, Calls, <1>a, <1>g, <1>u, <1>e_pc, <1>e_put, CountedMem
<1>SetLocks. SetLocks'
  BY Parts, Kinds, <1>u, <1>e_pc, <1>g, <1>a DEF SetLocks
<1>ListLocks. ListLocks'
  BY Parts, Kinds, <1>u, <1>e_pc, <1>g, <1>a DEF ListLocks
<1>Unlinking. Unlinking'
  BY Parts, <1>u, <1>e_pc, <1>g, <1>a DEF Unlinking
<1>Removing. Removing'
  BY Parts, Calls, Kinds, <1>u, <1>e_pc, <1>g, <1>a DEF Removing
<1>SetLife. SetLife'
  BY Parts, <1>a, Kinds, <1>u, <1>e_put, <1>g DEF SetLife, Counted
<1>InTable. InTable'
  BY Parts, <1>u, <1>e_put, <1>g, <1>a DEF InTable
<1>HasUndos. HasUndos'
  BY Parts, <1>u, <1>e_put, <1>g, <1>a DEF HasUndos, Counted
<1>TableSets. TableSets'
  BY Parts, <1>t, <1>u, <1>e_put, <1>g, <1>a DEF TableSets, Counted
<1>HeldSets. HeldSets'
  BY Parts, Sites, <1>u, <1>e_pc, <1>g, <1>a DEF HeldSets
<1>GoneSets. GoneSets'
  BY Parts, Sites, Calls, Kinds, <1>u, <1>e_put, <1>e_pc, <1>g, <1>a DEF GoneSets, Counted
<1>ReferencesCovered. ReferencesCovered'
  <2>1. \A b \in Arrays : b # a /\ (Holders(b)' # {} \/ Counted(b)') =>
          mem'[b] = "live" /\ refcount'[b] >= Cardinality(Holders(b)') + (IF Counted(b)' THEN 1 ELSE 0)
    BY Parts, <1>H, <1>O, <1>e_put DEF ReferencesCovered
  <2>2. Holders(a)' # {} \/ Counted(a)' => mem'[a] = "live"
    BY <1>H, <1>O, <1>e_put
  <2>3. refcount[a] \in Int /\ Cardinality(Holders(a)) \in Nat
    BY <1>t, HoldersFinite
  <2>4. refcount'[a] >= Cardinality(Holders(a)') + (IF Counted(a)' THEN 1 ELSE 0)
    BY <1>H, <1>O, <1>e_put, <2>3
  <2> QED BY <2>1, <2>2, <2>4 DEF ReferencesCovered
<1>RefNat. RefNat'
  BY Parts, <1>t, <1>u, <1>e_put, <1>g, <1>a DEF RefNat
<1>Loaded. Loaded'
  <2> SUFFICES ASSUME NEW q \in Procs, pc'[q] = "put" PROVE (ref[q] >= Cardinality(Holders(sma[q])))'
    BY DEF Loaded
  <2>1. q # p /\ pc[q] = "put" /\ sma'[q] = sma[q] /\ ref'[q] = ref[q] /\ sma[q] \in Arrays
    BY <1>u, Sites, <1>e_pc
  <2>2. PICK b \in Arrays : b = sma[q]
    BY <2>1
  <2>3. ref[q] >= Cardinality(Holders(b)) /\ ref[q] \in Int
    BY Parts, <2>1, <2>2 DEF Loaded, TypeInv
  <2>4. Holders(sma[q])' = Holders(b)'
    BY <2>1, <2>2 DEF Holders
  <2>5. Cardinality(Holders(b)') = Cardinality(Holders(b)) \/ Cardinality(Holders(b)') = Cardinality(Holders(b)) - 1
    BY <1>H
  <2>6. Cardinality(Holders(b)) \in Nat
    BY HoldersFinite
  <2> QED BY <2>1, <2>3, <2>4, <2>5, <2>6
<1>KeptSets. KeptSets'
  BY Parts, Sites, <1>u, <1>e_put, <1>e_pc, <1>g, <1>a DEF KeptSets, Kept
<1>KeptUndo. KeptUndo'
  BY Parts, Undos, <1>u, <1>e_pc, <1>g, <1>a DEF KeptUndo, Kept
<1>ExitList. ExitList'
  BY Parts, Kinds, Calls, <1>u, <1>e_pc, <1>g, <1>a DEF ExitList, Users
<1>OwnList. OwnList'
  BY Parts, Kinds, Calls, <1>u, <1>e_pc, <1>g, <1>a DEF OwnList
<1>OneList. OneList'
  BY Parts, Kinds, <1>u, <1>e_pc, <1>g, <1>a DEF OneList
<1>Unlinked. Unlinked'
  BY Parts, Undos, <1>u, <1>e_pc, <1>g, <1>a DEF Unlinked
<1>OwnUndo. OwnUndo'
  BY Parts, Undos, Sites, <1>u, <1>e_pc, <1>g, <1>a DEF OwnUndo
<1>UsedSems. UsedSems'
  BY Parts, <1>O, <1>u, <1>e_put, <1>e_pc DEF UsedSems
<1> QED BY <1>T, <1>c, <1>f, <1>SetLocks, <1>ListLocks, <1>Unlinking, <1>Removing, <1>SetLife,
  <1>InTable, <1>HasUndos, <1>TableSets, <1>HeldSets, <1>GoneSets, <1>ReferencesCovered, <1>RefNat,
  <1>Loaded, <1>KeptSets, <1>KeptUndo, <1>ExitList, <1>OwnList, <1>OneList, <1>Unlinked,
  <1>OwnUndo, <1>UsedSems DEF IInv, LockInv, SetInv, RefInv, RcuInv, ListInv, LinkInv

(* find_alloc_undo() finds the set removed while it allocated.             *)
LEMMA IInv_undo_link_gone ==
    ASSUME IInv, NEW p \in Procs, undo_link(p), deleted[sma[p]]
    PROVE  IInv'
<1> USE DEF Holding, Waiting, Referring, WakingUp
<1>t. /\ mem \in [Arrays -> Mems] /\ refcount \in [Arrays -> Int]
      /\ grace \in [Arrays -> SUBSET Procs] /\ lock \in [Arrays -> Procs \cup {NoProc}]
      /\ idr \in [Slots -> Arrays \cup {NoArr}] /\ pc \in [Procs -> Labels]
      /\ cmd \in [Procs -> Cmds \cup {"none", "SEMOP", "EXIT"}]
      /\ sma \in [Procs -> Arrays \cup {NoArr}]
      /\ undo \in [Procs -> [list : Tasks \cup {NoProc}, set : Arrays \cup {NoArr}]]
      /\ sig \subseteq Tasks
  BY Parts, UnType DEF TypeInv
<1>c. CallInv'
  <2>1. Next
    BY Kinds DEF Next, Step
  <2> QED BY Parts, <2>1, CallStep
<1>g. pc[p] = "ualloc"
  BY DEF undo_link
<1>a. PICK a \in Arrays : a = sma[p]
  BY Parts, <1>g, Locals
<1>u. /\ UNCHANGED <<semval, sem_pending, complex_count, deleted, lock, idr, used_sems, rw_mutex,
                     list_id, list_proc, readers, undo_list, ulp, refcnt, ulp_lock, un, cmd, sops,
                     semid, sma, undo, status, outcome, state, timedout, tasks, idx, semnum, walk,
                     ref>>
  BY <1>t, <1>g, <1>a DEF undo_link, Return, Goto, args, arrayv, lists, ns, queue, scanv, ulpv
<1>e_put. /\ mem' \in [Arrays -> Mems] /\ refcount' \in [Arrays -> Int]
          /\ grace' \in [Arrays -> SUBSET Procs]
          /\ \A b \in Arrays : b # a =>
               mem'[b] = mem[b] /\ refcount'[b] = refcount[b] /\ grace'[b] = grace[b]
          /\ mem[a] = "live" /\ refcount[a] >= 1 /\ refcount'[a] = refcount[a] - 1
          /\ Counted(a) => mem'[a] = "live"
          /\ (mem'[a] = "live" /\ grace'[a] = grace[a]) \/ (mem'[a] = "rcu" /\ grace'[a] = readers)
          /\ mem'[a] = "rcu" => ~Counted(a) /\ Holders(a) \ {p} = {}
          /\ refcount[a] >= Cardinality(Holders(a)) + (IF Counted(a) THEN 1 ELSE 0)
  <2>1. p \in Holders(a)
    BY <1>a, <1>g DEF Holders
  <2>2. Putref(a, refcount[a])
    BY <1>a DEF undo_link
  <2>3. /\ mem' \in [Arrays -> Mems] /\ refcount' \in [Arrays -> Int]
        /\ grace' \in [Arrays -> SUBSET Procs]
        /\ \A b \in Arrays : b # a =>
             mem'[b] = mem[b] /\ refcount'[b] = refcount[b] /\ grace'[b] = grace[b]
        /\ mem[a] = "live" /\ refcount[a] >= 1 /\ refcount'[a] = refcount[a] - 1
        /\ refcount[a] >= Cardinality(Holders(a)) + (IF Counted(a) THEN 1 ELSE 0)
        /\ Cardinality(Holders(a)) >= 1
        /\ \/ refcount[a] > 1 /\ mem'[a] = mem[a] /\ grace'[a] = grace[a]
           \/ /\ refcount[a] = 1 /\ mem'[a] = "rcu" /\ grace'[a] = readers
              /\ ~Counted(a) /\ Holders(a) \ {p} = {}
    BY Parts, <2>1, <2>2, PutEffect
  <2> QED BY <2>3
<1>e_pc. /\ pc' \in [Procs -> Labels] /\ pc'[p] = "ret" /\ \A q \in Procs : q # p => pc'[q] = pc[q]
  BY Parts, <1>t, Kinds, <1>g, <1>a DEF undo_link, Return, Goto, Labels
<1>e_sig. sig' = (sig \ {p}) /\ sig' \subseteq Tasks
  BY Parts, <1>t, Kinds, <1>g, <1>a DEF undo_link, Return, Goto
<1>T. TypeInv'
  BY Parts, <1>u, <1>e_put, <1>e_pc, <1>e_sig DEF TypeInv, Uns, UnRecs
<1>f. /\ UserCount' /\ FreshList' /\ OnceLinked' /\ LinkedLive' /\ BothLists'
  BY Parts, <1>u, Frames
<1>H. /\ Holders(a)' = Holders(a) \ {p} /\ Cardinality(Holders(a)') = Cardinality(Holders(a)) - 1
      /\ \A b \in Arrays : b # a => Holders(b)' = Holders(b)
  BY <1>a, <1>g, <1>u, <1>e_pc, HoldersDrop
<1>O. \A b \in Arrays : Counted(b)' = Counted(b)
  BY Kinds, Calls, <1>a, <1>g, <1>u, <1>e_pc, <1>e_put, CountedMem
<1>SetLocks. SetLocks'
  BY Parts, Kinds, <1>u, <1>e_pc, <1>g, <1>a DEF SetLocks
<1>ListLocks. ListLocks'
  BY Parts, Kinds, <1>u, <1>e_pc, <1>g, <1>a DEF ListLocks
<1>Unlinking. Unlinking'
  BY Parts, <1>u, <1>e_pc, <1>g, <1>a DEF Unlinking
<1>Removing. Removing'
  BY Parts, Calls, Kinds, <1>u, <1>e_pc, <1>g, <1>a DEF Removing
<1>SetLife. SetLife'
  BY Parts, <1>a, Kinds, <1>u, <1>e_put, <1>g DEF SetLife, Counted
<1>InTable. InTable'
  BY Parts, <1>u, <1>e_put, <1>g, <1>a DEF InTable
<1>HasUndos. HasUndos'
  BY Parts, <1>u, <1>e_put, <1>g, <1>a DEF HasUndos, Counted
<1>TableSets. TableSets'
  BY Parts, <1>t, <1>u, <1>e_put, <1>g, <1>a DEF TableSets, Counted
<1>HeldSets. HeldSets'
  BY Parts, Sites, <1>u, <1>e_pc, <1>g, <1>a DEF HeldSets
<1>GoneSets. GoneSets'
  BY Parts, Sites, Calls, Kinds, <1>u, <1>e_put, <1>e_pc, <1>g, <1>a DEF GoneSets, Counted
<1>ReferencesCovered. ReferencesCovered'
  <2>1. \A b \in Arrays : b # a /\ (Holders(b)' # {} \/ Counted(b)') =>
          mem'[b] = "live" /\ refcount'[b] >= Cardinality(Holders(b)') + (IF Counted(b)' THEN 1 ELSE 0)
    BY Parts, <1>H, <1>O, <1>e_put DEF ReferencesCovered
  <2>2. Holders(a)' # {} \/ Counted(a)' => mem'[a] = "live"
    BY <1>H, <1>O, <1>e_put
  <2>3. refcount[a] \in Int /\ Cardinality(Holders(a)) \in Nat
    BY <1>t, HoldersFinite
  <2>4. refcount'[a] >= Cardinality(Holders(a)') + (IF Counted(a)' THEN 1 ELSE 0)
    BY <1>H, <1>O, <1>e_put, <2>3
  <2> QED BY <2>1, <2>2, <2>4 DEF ReferencesCovered
<1>RefNat. RefNat'
  BY Parts, <1>t, <1>u, <1>e_put, <1>g, <1>a DEF RefNat
<1>Loaded. Loaded'
  <2> SUFFICES ASSUME NEW q \in Procs, pc'[q] = "put" PROVE (ref[q] >= Cardinality(Holders(sma[q])))'
    BY DEF Loaded
  <2>1. q # p /\ pc[q] = "put" /\ sma'[q] = sma[q] /\ ref'[q] = ref[q] /\ sma[q] \in Arrays
    BY <1>u, Sites, <1>e_pc
  <2>2. PICK b \in Arrays : b = sma[q]
    BY <2>1
  <2>3. ref[q] >= Cardinality(Holders(b)) /\ ref[q] \in Int
    BY Parts, <2>1, <2>2 DEF Loaded, TypeInv
  <2>4. Holders(sma[q])' = Holders(b)'
    BY <2>1, <2>2 DEF Holders
  <2>5. Cardinality(Holders(b)') = Cardinality(Holders(b)) \/ Cardinality(Holders(b)') = Cardinality(Holders(b)) - 1
    BY <1>H
  <2>6. Cardinality(Holders(b)) \in Nat
    BY HoldersFinite
  <2> QED BY <2>1, <2>3, <2>4, <2>5, <2>6
<1>KeptSets. KeptSets'
  BY Parts, Sites, <1>u, <1>e_put, <1>e_pc, <1>g, <1>a DEF KeptSets, Kept
<1>KeptUndo. KeptUndo'
  BY Parts, Undos, <1>u, <1>e_pc, <1>g, <1>a DEF KeptUndo, Kept
<1>ExitList. ExitList'
  BY Parts, Kinds, Calls, <1>u, <1>e_pc, <1>g, <1>a DEF ExitList, Users
<1>OwnList. OwnList'
  BY Parts, Kinds, Calls, <1>u, <1>e_pc, <1>g, <1>a DEF OwnList
<1>OneList. OneList'
  BY Parts, Kinds, <1>u, <1>e_pc, <1>g, <1>a DEF OneList
<1>Unlinked. Unlinked'
  BY Parts, Undos, <1>u, <1>e_pc, <1>g, <1>a DEF Unlinked
<1>OwnUndo. OwnUndo'
  BY Parts, Undos, Sites, <1>u, <1>e_pc, <1>g, <1>a DEF OwnUndo
<1>UsedSems. UsedSems'
  BY Parts, <1>O, <1>u, <1>e_put, <1>e_pc DEF UsedSems
<1> QED BY <1>T, <1>c, <1>f, <1>SetLocks, <1>ListLocks, <1>Unlinking, <1>Removing, <1>SetLife,
  <1>InTable, <1>HasUndos, <1>TableSets, <1>HeldSets, <1>GoneSets, <1>ReferencesCovered, <1>RefNat,
  <1>Loaded, <1>KeptSets, <1>KeptUndo, <1>ExitList, <1>OwnList, <1>OneList, <1>Unlinked,
  <1>OwnUndo, <1>UsedSems DEF IInv, LockInv, SetInv, RefInv, RcuInv, ListInv, LinkInv

(* GETALL or SETALL fails after it left the lock.                          *)
LEMMA IInv_all_fail ==
    ASSUME IInv, NEW p \in Procs, all_fail(p)
    PROVE  IInv'
<1> USE DEF Holding, Waiting, Referring, WakingUp
<1>t. /\ mem \in [Arrays -> Mems] /\ refcount \in [Arrays -> Int]
      /\ grace \in [Arrays -> SUBSET Procs] /\ lock \in [Arrays -> Procs \cup {NoProc}]
      /\ idr \in [Slots -> Arrays \cup {NoArr}] /\ pc \in [Procs -> Labels]
      /\ cmd \in [Procs -> Cmds \cup {"none", "SEMOP", "EXIT"}]
      /\ sma \in [Procs -> Arrays \cup {NoArr}]
      /\ undo \in [Procs -> [list : Tasks \cup {NoProc}, set : Arrays \cup {NoArr}]]
      /\ sig \subseteq Tasks
  BY Parts, UnType DEF TypeInv
<1>c. CallInv'
  <2>1. Next
    BY Kinds DEF Next, Step
  <2> QED BY Parts, <2>1, CallStep
<1>g. pc[p] = "copyin"
  BY DEF all_fail
<1>a. PICK a \in Arrays : a = sma[p]
  BY Parts, <1>g, Locals
<1>u. /\ UNCHANGED <<semval, sem_pending, complex_count, deleted, lock, idr, used_sems, rw_mutex,
                     list_id, list_proc, readers, undo_list, ulp, refcnt, ulp_lock, un, cmd, sops,
                     semid, sma, undo, status, outcome, state, timedout, tasks, idx, semnum, walk,
                     ref>>
  BY <1>t, <1>g, <1>a DEF all_fail, Return, Goto, args, arrayv, lists, ns, queue, scanv, ulpv
<1>e_put. /\ mem' \in [Arrays -> Mems] /\ refcount' \in [Arrays -> Int]
          /\ grace' \in [Arrays -> SUBSET Procs]
          /\ \A b \in Arrays : b # a =>
               mem'[b] = mem[b] /\ refcount'[b] = refcount[b] /\ grace'[b] = grace[b]
          /\ mem[a] = "live" /\ refcount[a] >= 1 /\ refcount'[a] = refcount[a] - 1
          /\ Counted(a) => mem'[a] = "live"
          /\ (mem'[a] = "live" /\ grace'[a] = grace[a]) \/ (mem'[a] = "rcu" /\ grace'[a] = readers)
          /\ mem'[a] = "rcu" => ~Counted(a) /\ Holders(a) \ {p} = {}
          /\ refcount[a] >= Cardinality(Holders(a)) + (IF Counted(a) THEN 1 ELSE 0)
  <2>1. p \in Holders(a)
    BY <1>a, <1>g DEF Holders
  <2>2. Putref(a, refcount[a])
    BY <1>a DEF all_fail
  <2>3. /\ mem' \in [Arrays -> Mems] /\ refcount' \in [Arrays -> Int]
        /\ grace' \in [Arrays -> SUBSET Procs]
        /\ \A b \in Arrays : b # a =>
             mem'[b] = mem[b] /\ refcount'[b] = refcount[b] /\ grace'[b] = grace[b]
        /\ mem[a] = "live" /\ refcount[a] >= 1 /\ refcount'[a] = refcount[a] - 1
        /\ refcount[a] >= Cardinality(Holders(a)) + (IF Counted(a) THEN 1 ELSE 0)
        /\ Cardinality(Holders(a)) >= 1
        /\ \/ refcount[a] > 1 /\ mem'[a] = mem[a] /\ grace'[a] = grace[a]
           \/ /\ refcount[a] = 1 /\ mem'[a] = "rcu" /\ grace'[a] = readers
              /\ ~Counted(a) /\ Holders(a) \ {p} = {}
    BY Parts, <2>1, <2>2, PutEffect
  <2> QED BY <2>3
<1>e_pc. /\ pc' \in [Procs -> Labels] /\ pc'[p] = "ret" /\ \A q \in Procs : q # p => pc'[q] = pc[q]
  BY Parts, <1>t, Kinds, <1>g, <1>a DEF all_fail, Return, Goto, Labels
<1>e_sig. sig' = (sig \ {p}) /\ sig' \subseteq Tasks
  BY Parts, <1>t, Kinds, <1>g, <1>a DEF all_fail, Return, Goto
<1>T. TypeInv'
  BY Parts, <1>u, <1>e_put, <1>e_pc, <1>e_sig DEF TypeInv, Uns, UnRecs
<1>f. /\ UserCount' /\ FreshList' /\ OnceLinked' /\ LinkedLive' /\ BothLists'
  BY Parts, <1>u, Frames
<1>H. /\ Holders(a)' = Holders(a) \ {p} /\ Cardinality(Holders(a)') = Cardinality(Holders(a)) - 1
      /\ \A b \in Arrays : b # a => Holders(b)' = Holders(b)
  BY <1>a, <1>g, <1>u, <1>e_pc, HoldersDrop
<1>O. \A b \in Arrays : Counted(b)' = Counted(b)
  BY Kinds, Calls, <1>a, <1>g, <1>u, <1>e_pc, <1>e_put, CountedMem
<1>SetLocks. SetLocks'
  BY Parts, Kinds, <1>u, <1>e_pc, <1>g, <1>a DEF SetLocks
<1>ListLocks. ListLocks'
  BY Parts, Kinds, <1>u, <1>e_pc, <1>g, <1>a DEF ListLocks
<1>Unlinking. Unlinking'
  BY Parts, <1>u, <1>e_pc, <1>g, <1>a DEF Unlinking
<1>Removing. Removing'
  BY Parts, Calls, Kinds, <1>u, <1>e_pc, <1>g, <1>a DEF Removing
<1>SetLife. SetLife'
  BY Parts, <1>a, Kinds, <1>u, <1>e_put, <1>g DEF SetLife, Counted
<1>InTable. InTable'
  BY Parts, <1>u, <1>e_put, <1>g, <1>a DEF InTable
<1>HasUndos. HasUndos'
  BY Parts, <1>u, <1>e_put, <1>g, <1>a DEF HasUndos, Counted
<1>TableSets. TableSets'
  BY Parts, <1>t, <1>u, <1>e_put, <1>g, <1>a DEF TableSets, Counted
<1>HeldSets. HeldSets'
  BY Parts, Sites, <1>u, <1>e_pc, <1>g, <1>a DEF HeldSets
<1>GoneSets. GoneSets'
  BY Parts, Sites, Calls, Kinds, <1>u, <1>e_put, <1>e_pc, <1>g, <1>a DEF GoneSets, Counted
<1>ReferencesCovered. ReferencesCovered'
  <2>1. \A b \in Arrays : b # a /\ (Holders(b)' # {} \/ Counted(b)') =>
          mem'[b] = "live" /\ refcount'[b] >= Cardinality(Holders(b)') + (IF Counted(b)' THEN 1 ELSE 0)
    BY Parts, <1>H, <1>O, <1>e_put DEF ReferencesCovered
  <2>2. Holders(a)' # {} \/ Counted(a)' => mem'[a] = "live"
    BY <1>H, <1>O, <1>e_put
  <2>3. refcount[a] \in Int /\ Cardinality(Holders(a)) \in Nat
    BY <1>t, HoldersFinite
  <2>4. refcount'[a] >= Cardinality(Holders(a)') + (IF Counted(a)' THEN 1 ELSE 0)
    BY <1>H, <1>O, <1>e_put, <2>3
  <2> QED BY <2>1, <2>2, <2>4 DEF ReferencesCovered
<1>RefNat. RefNat'
  BY Parts, <1>t, <1>u, <1>e_put, <1>g, <1>a DEF RefNat
<1>Loaded. Loaded'
  <2> SUFFICES ASSUME NEW q \in Procs, pc'[q] = "put" PROVE (ref[q] >= Cardinality(Holders(sma[q])))'
    BY DEF Loaded
  <2>1. q # p /\ pc[q] = "put" /\ sma'[q] = sma[q] /\ ref'[q] = ref[q] /\ sma[q] \in Arrays
    BY <1>u, Sites, <1>e_pc
  <2>2. PICK b \in Arrays : b = sma[q]
    BY <2>1
  <2>3. ref[q] >= Cardinality(Holders(b)) /\ ref[q] \in Int
    BY Parts, <2>1, <2>2 DEF Loaded, TypeInv
  <2>4. Holders(sma[q])' = Holders(b)'
    BY <2>1, <2>2 DEF Holders
  <2>5. Cardinality(Holders(b)') = Cardinality(Holders(b)) \/ Cardinality(Holders(b)') = Cardinality(Holders(b)) - 1
    BY <1>H
  <2>6. Cardinality(Holders(b)) \in Nat
    BY HoldersFinite
  <2> QED BY <2>1, <2>3, <2>4, <2>5, <2>6
<1>KeptSets. KeptSets'
  BY Parts, Sites, <1>u, <1>e_put, <1>e_pc, <1>g, <1>a DEF KeptSets, Kept
<1>KeptUndo. KeptUndo'
  BY Parts, Undos, <1>u, <1>e_pc, <1>g, <1>a DEF KeptUndo, Kept
<1>ExitList. ExitList'
  BY Parts, Kinds, Calls, <1>u, <1>e_pc, <1>g, <1>a DEF ExitList, Users
<1>OwnList. OwnList'
  BY Parts, Kinds, Calls, <1>u, <1>e_pc, <1>g, <1>a DEF OwnList
<1>OneList. OneList'
  BY Parts, Kinds, <1>u, <1>e_pc, <1>g, <1>a DEF OneList
<1>Unlinked. Unlinked'
  BY Parts, Undos, <1>u, <1>e_pc, <1>g, <1>a DEF Unlinked
<1>OwnUndo. OwnUndo'
  BY Parts, Undos, Sites, <1>u, <1>e_pc, <1>g, <1>a DEF OwnUndo
<1>UsedSems. UsedSems'
  BY Parts, <1>O, <1>u, <1>e_put, <1>e_pc DEF UsedSems
<1> QED BY <1>T, <1>c, <1>f, <1>SetLocks, <1>ListLocks, <1>Unlinking, <1>Removing, <1>SetLife,
  <1>InTable, <1>HasUndos, <1>TableSets, <1>HeldSets, <1>GoneSets, <1>ReferencesCovered, <1>RefNat,
  <1>Loaded, <1>KeptSets, <1>KeptUndo, <1>ExitList, <1>OwnList, <1>OneList, <1>Unlinked,
  <1>OwnUndo, <1>UsedSems DEF IInv, LockInv, SetInv, RefInv, RcuInv, ListInv, LinkInv

(* GETALL relocks with its reference.                                      *)
LEMMA IInv_getall ==
    ASSUME IInv, NEW p \in Procs, getall(p)
    PROVE  IInv'
<1> USE DEF Holding, Waiting, Referring, WakingUp
<1>t. /\ mem \in [Arrays -> Mems] /\ refcount \in [Arrays -> Int]
      /\ grace \in [Arrays -> SUBSET Procs] /\ lock \in [Arrays -> Procs \cup {NoProc}]
      /\ idr \in [Slots -> Arrays \cup {NoArr}] /\ pc \in [Procs -> Labels]
      /\ cmd \in [Procs -> Cmds \cup {"none", "SEMOP", "EXIT"}]
      /\ sma \in [Procs -> Arrays \cup {NoArr}]
      /\ undo \in [Procs -> [list : Tasks \cup {NoProc}, set : Arrays \cup {NoArr}]]
      /\ sig \subseteq Tasks
  BY Parts, UnType DEF TypeInv
<1>c. CallInv'
  <2>1. Next
    BY Kinds DEF Next, Step
  <2> QED BY Parts, <2>1, CallStep
<1>g. pc[p] = "copyin"
  BY DEF getall
<1>a. PICK a \in Arrays : a = sma[p]
  BY Parts, <1>g, Locals
<1>u. /\ UNCHANGED <<semval, sem_pending, complex_count, deleted, lock, idr, used_sems, rw_mutex,
                     list_id, list_proc, readers, undo_list, ulp, refcnt, ulp_lock, un, cmd, sops,
                     semid, sma, undo, status, outcome, state, timedout, tasks, idx, semnum, walk,
                     ref>>
  BY <1>t, <1>g, <1>a DEF getall, Return, Goto, args, arrayv, lists, ns, queue, scanv, ulpv
<1>e_put. /\ mem' \in [Arrays -> Mems] /\ refcount' \in [Arrays -> Int]
          /\ grace' \in [Arrays -> SUBSET Procs]
          /\ \A b \in Arrays : b # a =>
               mem'[b] = mem[b] /\ refcount'[b] = refcount[b] /\ grace'[b] = grace[b]
          /\ mem[a] = "live" /\ refcount[a] >= 1 /\ refcount'[a] = refcount[a] - 1
          /\ Counted(a) => mem'[a] = "live"
          /\ (mem'[a] = "live" /\ grace'[a] = grace[a]) \/ (mem'[a] = "rcu" /\ grace'[a] = readers)
          /\ mem'[a] = "rcu" => ~Counted(a) /\ Holders(a) \ {p} = {}
          /\ refcount[a] >= Cardinality(Holders(a)) + (IF Counted(a) THEN 1 ELSE 0)
  <2>1. p \in Holders(a)
    BY <1>a, <1>g DEF Holders
  <2>2. Putref(a, refcount[a])
    BY <1>a DEF getall
  <2>3. /\ mem' \in [Arrays -> Mems] /\ refcount' \in [Arrays -> Int]
        /\ grace' \in [Arrays -> SUBSET Procs]
        /\ \A b \in Arrays : b # a =>
             mem'[b] = mem[b] /\ refcount'[b] = refcount[b] /\ grace'[b] = grace[b]
        /\ mem[a] = "live" /\ refcount[a] >= 1 /\ refcount'[a] = refcount[a] - 1
        /\ refcount[a] >= Cardinality(Holders(a)) + (IF Counted(a) THEN 1 ELSE 0)
        /\ Cardinality(Holders(a)) >= 1
        /\ \/ refcount[a] > 1 /\ mem'[a] = mem[a] /\ grace'[a] = grace[a]
           \/ /\ refcount[a] = 1 /\ mem'[a] = "rcu" /\ grace'[a] = readers
              /\ ~Counted(a) /\ Holders(a) \ {p} = {}
    BY Parts, <2>1, <2>2, PutEffect
  <2> QED BY <2>3
<1>e_pc. /\ pc' \in [Procs -> Labels] /\ pc'[p] = "ret" /\ \A q \in Procs : q # p => pc'[q] = pc[q]
  BY Parts, <1>t, Kinds, <1>g, <1>a DEF getall, Return, Goto, Labels
<1>e_sig. sig' = (sig \ {p}) /\ sig' \subseteq Tasks
  BY Parts, <1>t, Kinds, <1>g, <1>a DEF getall, Return, Goto
<1>T. TypeInv'
  BY Parts, <1>u, <1>e_put, <1>e_pc, <1>e_sig DEF TypeInv, Uns, UnRecs
<1>f. /\ UserCount' /\ FreshList' /\ OnceLinked' /\ LinkedLive' /\ BothLists'
  BY Parts, <1>u, Frames
<1>H. /\ Holders(a)' = Holders(a) \ {p} /\ Cardinality(Holders(a)') = Cardinality(Holders(a)) - 1
      /\ \A b \in Arrays : b # a => Holders(b)' = Holders(b)
  BY <1>a, <1>g, <1>u, <1>e_pc, HoldersDrop
<1>O. \A b \in Arrays : Counted(b)' = Counted(b)
  BY Kinds, Calls, <1>a, <1>g, <1>u, <1>e_pc, <1>e_put, CountedMem
<1>SetLocks. SetLocks'
  BY Parts, Kinds, <1>u, <1>e_pc, <1>g, <1>a DEF SetLocks
<1>ListLocks. ListLocks'
  BY Parts, Kinds, <1>u, <1>e_pc, <1>g, <1>a DEF ListLocks
<1>Unlinking. Unlinking'
  BY Parts, <1>u, <1>e_pc, <1>g, <1>a DEF Unlinking
<1>Removing. Removing'
  BY Parts, Calls, Kinds, <1>u, <1>e_pc, <1>g, <1>a DEF Removing
<1>SetLife. SetLife'
  BY Parts, <1>a, Kinds, <1>u, <1>e_put, <1>g DEF SetLife, Counted
<1>InTable. InTable'
  BY Parts, <1>u, <1>e_put, <1>g, <1>a DEF InTable
<1>HasUndos. HasUndos'
  BY Parts, <1>u, <1>e_put, <1>g, <1>a DEF HasUndos, Counted
<1>TableSets. TableSets'
  BY Parts, <1>t, <1>u, <1>e_put, <1>g, <1>a DEF TableSets, Counted
<1>HeldSets. HeldSets'
  BY Parts, Sites, <1>u, <1>e_pc, <1>g, <1>a DEF HeldSets
<1>GoneSets. GoneSets'
  BY Parts, Sites, Calls, Kinds, <1>u, <1>e_put, <1>e_pc, <1>g, <1>a DEF GoneSets, Counted
<1>ReferencesCovered. ReferencesCovered'
  <2>1. \A b \in Arrays : b # a /\ (Holders(b)' # {} \/ Counted(b)') =>
          mem'[b] = "live" /\ refcount'[b] >= Cardinality(Holders(b)') + (IF Counted(b)' THEN 1 ELSE 0)
    BY Parts, <1>H, <1>O, <1>e_put DEF ReferencesCovered
  <2>2. Holders(a)' # {} \/ Counted(a)' => mem'[a] = "live"
    BY <1>H, <1>O, <1>e_put
  <2>3. refcount[a] \in Int /\ Cardinality(Holders(a)) \in Nat
    BY <1>t, HoldersFinite
  <2>4. refcount'[a] >= Cardinality(Holders(a)') + (IF Counted(a)' THEN 1 ELSE 0)
    BY <1>H, <1>O, <1>e_put, <2>3
  <2> QED BY <2>1, <2>2, <2>4 DEF ReferencesCovered
<1>RefNat. RefNat'
  BY Parts, <1>t, <1>u, <1>e_put, <1>g, <1>a DEF RefNat
<1>Loaded. Loaded'
  <2> SUFFICES ASSUME NEW q \in Procs, pc'[q] = "put" PROVE (ref[q] >= Cardinality(Holders(sma[q])))'
    BY DEF Loaded
  <2>1. q # p /\ pc[q] = "put" /\ sma'[q] = sma[q] /\ ref'[q] = ref[q] /\ sma[q] \in Arrays
    BY <1>u, Sites, <1>e_pc
  <2>2. PICK b \in Arrays : b = sma[q]
    BY <2>1
  <2>3. ref[q] >= Cardinality(Holders(b)) /\ ref[q] \in Int
    BY Parts, <2>1, <2>2 DEF Loaded, TypeInv
  <2>4. Holders(sma[q])' = Holders(b)'
    BY <2>1, <2>2 DEF Holders
  <2>5. Cardinality(Holders(b)') = Cardinality(Holders(b)) \/ Cardinality(Holders(b)') = Cardinality(Holders(b)) - 1
    BY <1>H
  <2>6. Cardinality(Holders(b)) \in Nat
    BY HoldersFinite
  <2> QED BY <2>1, <2>3, <2>4, <2>5, <2>6
<1>KeptSets. KeptSets'
  BY Parts, Sites, <1>u, <1>e_put, <1>e_pc, <1>g, <1>a DEF KeptSets, Kept
<1>KeptUndo. KeptUndo'
  BY Parts, Undos, <1>u, <1>e_pc, <1>g, <1>a DEF KeptUndo, Kept
<1>ExitList. ExitList'
  BY Parts, Kinds, Calls, <1>u, <1>e_pc, <1>g, <1>a DEF ExitList, Users
<1>OwnList. OwnList'
  BY Parts, Kinds, Calls, <1>u, <1>e_pc, <1>g, <1>a DEF OwnList
<1>OneList. OneList'
  BY Parts, Kinds, <1>u, <1>e_pc, <1>g, <1>a DEF OneList
<1>Unlinked. Unlinked'
  BY Parts, Undos, <1>u, <1>e_pc, <1>g, <1>a DEF Unlinked
<1>OwnUndo. OwnUndo'
  BY Parts, Undos, Sites, <1>u, <1>e_pc, <1>g, <1>a DEF OwnUndo
<1>UsedSems. UsedSems'
  BY Parts, <1>O, <1>u, <1>e_put, <1>e_pc DEF UsedSems
<1> QED BY <1>T, <1>c, <1>f, <1>SetLocks, <1>ListLocks, <1>Unlinking, <1>Removing, <1>SetLife,
  <1>InTable, <1>HasUndos, <1>TableSets, <1>HeldSets, <1>GoneSets, <1>ReferencesCovered, <1>RefNat,
  <1>Loaded, <1>KeptSets, <1>KeptUndo, <1>ExitList, <1>OwnList, <1>OneList, <1>Unlinked,
  <1>OwnUndo, <1>UsedSems DEF IInv, LockInv, SetInv, RefInv, RcuInv, ListInv, LinkInv

(* SETALL finds the set removed.                                           *)
LEMMA IInv_setall_gone ==
    ASSUME IInv, NEW p \in Procs, setall(p), deleted[sma[p]]
    PROVE  IInv'
<1> USE DEF Holding, Waiting, Referring, WakingUp
<1>t. /\ mem \in [Arrays -> Mems] /\ refcount \in [Arrays -> Int]
      /\ grace \in [Arrays -> SUBSET Procs] /\ lock \in [Arrays -> Procs \cup {NoProc}]
      /\ idr \in [Slots -> Arrays \cup {NoArr}] /\ pc \in [Procs -> Labels]
      /\ cmd \in [Procs -> Cmds \cup {"none", "SEMOP", "EXIT"}]
      /\ sma \in [Procs -> Arrays \cup {NoArr}]
      /\ undo \in [Procs -> [list : Tasks \cup {NoProc}, set : Arrays \cup {NoArr}]]
      /\ sig \subseteq Tasks
  BY Parts, UnType DEF TypeInv
<1>c. CallInv'
  <2>1. Next
    BY Kinds DEF Next, Step
  <2> QED BY Parts, <2>1, CallStep
<1>g. pc[p] = "copyin"
  BY DEF setall
<1>a. PICK a \in Arrays : a = sma[p]
  BY Parts, <1>g, Locals
<1>u. /\ UNCHANGED <<semval, sem_pending, complex_count, deleted, lock, idr, used_sems, rw_mutex,
                     list_id, list_proc, readers, undo_list, ulp, refcnt, ulp_lock, un, cmd, sops,
                     semid, sma, undo, status, outcome, state, timedout, tasks, idx, semnum, walk,
                     ref>>
  BY <1>t, <1>g, <1>a DEF setall, Return, Goto, args, lists, ns, queue, ulpv
<1>e_put. /\ mem' \in [Arrays -> Mems] /\ refcount' \in [Arrays -> Int]
          /\ grace' \in [Arrays -> SUBSET Procs]
          /\ \A b \in Arrays : b # a =>
               mem'[b] = mem[b] /\ refcount'[b] = refcount[b] /\ grace'[b] = grace[b]
          /\ mem[a] = "live" /\ refcount[a] >= 1 /\ refcount'[a] = refcount[a] - 1
          /\ Counted(a) => mem'[a] = "live"
          /\ (mem'[a] = "live" /\ grace'[a] = grace[a]) \/ (mem'[a] = "rcu" /\ grace'[a] = readers)
          /\ mem'[a] = "rcu" => ~Counted(a) /\ Holders(a) \ {p} = {}
          /\ refcount[a] >= Cardinality(Holders(a)) + (IF Counted(a) THEN 1 ELSE 0)
  <2>1. p \in Holders(a)
    BY <1>a, <1>g DEF Holders
  <2>2. Putref(a, refcount[a])
    BY <1>a DEF setall
  <2>3. /\ mem' \in [Arrays -> Mems] /\ refcount' \in [Arrays -> Int]
        /\ grace' \in [Arrays -> SUBSET Procs]
        /\ \A b \in Arrays : b # a =>
             mem'[b] = mem[b] /\ refcount'[b] = refcount[b] /\ grace'[b] = grace[b]
        /\ mem[a] = "live" /\ refcount[a] >= 1 /\ refcount'[a] = refcount[a] - 1
        /\ refcount[a] >= Cardinality(Holders(a)) + (IF Counted(a) THEN 1 ELSE 0)
        /\ Cardinality(Holders(a)) >= 1
        /\ \/ refcount[a] > 1 /\ mem'[a] = mem[a] /\ grace'[a] = grace[a]
           \/ /\ refcount[a] = 1 /\ mem'[a] = "rcu" /\ grace'[a] = readers
              /\ ~Counted(a) /\ Holders(a) \ {p} = {}
    BY Parts, <2>1, <2>2, PutEffect
  <2> QED BY <2>3
<1>e_pc. /\ pc' \in [Procs -> Labels] /\ pc'[p] = "ret" /\ \A q \in Procs : q # p => pc'[q] = pc[q]
  BY Parts, <1>t, Kinds, <1>g, <1>a DEF setall, Return, Goto, Labels
<1>e_sig. sig' = (sig \ {p}) /\ sig' \subseteq Tasks
  BY Parts, <1>t, Kinds, <1>g, <1>a DEF setall, Return, Goto
<1>T. TypeInv'
  BY Parts, <1>u, <1>e_put, <1>e_pc, <1>e_sig DEF TypeInv, Uns, UnRecs
<1>f. /\ UserCount' /\ FreshList' /\ OnceLinked' /\ LinkedLive' /\ BothLists'
  BY Parts, <1>u, Frames
<1>H. /\ Holders(a)' = Holders(a) \ {p} /\ Cardinality(Holders(a)') = Cardinality(Holders(a)) - 1
      /\ \A b \in Arrays : b # a => Holders(b)' = Holders(b)
  BY <1>a, <1>g, <1>u, <1>e_pc, HoldersDrop
<1>O. \A b \in Arrays : Counted(b)' = Counted(b)
  BY Kinds, Calls, <1>a, <1>g, <1>u, <1>e_pc, <1>e_put, CountedMem
<1>SetLocks. SetLocks'
  BY Parts, Kinds, <1>u, <1>e_pc, <1>g, <1>a DEF SetLocks
<1>ListLocks. ListLocks'
  BY Parts, Kinds, <1>u, <1>e_pc, <1>g, <1>a DEF ListLocks
<1>Unlinking. Unlinking'
  BY Parts, <1>u, <1>e_pc, <1>g, <1>a DEF Unlinking
<1>Removing. Removing'
  BY Parts, Calls, Kinds, <1>u, <1>e_pc, <1>g, <1>a DEF Removing
<1>SetLife. SetLife'
  BY Parts, <1>a, Kinds, <1>u, <1>e_put, <1>g DEF SetLife, Counted
<1>InTable. InTable'
  BY Parts, <1>u, <1>e_put, <1>g, <1>a DEF InTable
<1>HasUndos. HasUndos'
  BY Parts, <1>u, <1>e_put, <1>g, <1>a DEF HasUndos, Counted
<1>TableSets. TableSets'
  BY Parts, <1>t, <1>u, <1>e_put, <1>g, <1>a DEF TableSets, Counted
<1>HeldSets. HeldSets'
  BY Parts, Sites, <1>u, <1>e_pc, <1>g, <1>a DEF HeldSets
<1>GoneSets. GoneSets'
  BY Parts, Sites, Calls, Kinds, <1>u, <1>e_put, <1>e_pc, <1>g, <1>a DEF GoneSets, Counted
<1>ReferencesCovered. ReferencesCovered'
  <2>1. \A b \in Arrays : b # a /\ (Holders(b)' # {} \/ Counted(b)') =>
          mem'[b] = "live" /\ refcount'[b] >= Cardinality(Holders(b)') + (IF Counted(b)' THEN 1 ELSE 0)
    BY Parts, <1>H, <1>O, <1>e_put DEF ReferencesCovered
  <2>2. Holders(a)' # {} \/ Counted(a)' => mem'[a] = "live"
    BY <1>H, <1>O, <1>e_put
  <2>3. refcount[a] \in Int /\ Cardinality(Holders(a)) \in Nat
    BY <1>t, HoldersFinite
  <2>4. refcount'[a] >= Cardinality(Holders(a)') + (IF Counted(a)' THEN 1 ELSE 0)
    BY <1>H, <1>O, <1>e_put, <2>3
  <2> QED BY <2>1, <2>2, <2>4 DEF ReferencesCovered
<1>RefNat. RefNat'
  BY Parts, <1>t, <1>u, <1>e_put, <1>g, <1>a DEF RefNat
<1>Loaded. Loaded'
  <2> SUFFICES ASSUME NEW q \in Procs, pc'[q] = "put" PROVE (ref[q] >= Cardinality(Holders(sma[q])))'
    BY DEF Loaded
  <2>1. q # p /\ pc[q] = "put" /\ sma'[q] = sma[q] /\ ref'[q] = ref[q] /\ sma[q] \in Arrays
    BY <1>u, Sites, <1>e_pc
  <2>2. PICK b \in Arrays : b = sma[q]
    BY <2>1
  <2>3. ref[q] >= Cardinality(Holders(b)) /\ ref[q] \in Int
    BY Parts, <2>1, <2>2 DEF Loaded, TypeInv
  <2>4. Holders(sma[q])' = Holders(b)'
    BY <2>1, <2>2 DEF Holders
  <2>5. Cardinality(Holders(b)') = Cardinality(Holders(b)) \/ Cardinality(Holders(b)') = Cardinality(Holders(b)) - 1
    BY <1>H
  <2>6. Cardinality(Holders(b)) \in Nat
    BY HoldersFinite
  <2> QED BY <2>1, <2>3, <2>4, <2>5, <2>6
<1>KeptSets. KeptSets'
  BY Parts, Sites, <1>u, <1>e_put, <1>e_pc, <1>g, <1>a DEF KeptSets, Kept
<1>KeptUndo. KeptUndo'
  BY Parts, Undos, <1>u, <1>e_pc, <1>g, <1>a DEF KeptUndo, Kept
<1>ExitList. ExitList'
  BY Parts, Kinds, Calls, <1>u, <1>e_pc, <1>g, <1>a DEF ExitList, Users
<1>OwnList. OwnList'
  BY Parts, Kinds, Calls, <1>u, <1>e_pc, <1>g, <1>a DEF OwnList
<1>OneList. OneList'
  BY Parts, Kinds, <1>u, <1>e_pc, <1>g, <1>a DEF OneList
<1>Unlinked. Unlinked'
  BY Parts, Undos, <1>u, <1>e_pc, <1>g, <1>a DEF Unlinked
<1>OwnUndo. OwnUndo'
  BY Parts, Undos, Sites, <1>u, <1>e_pc, <1>g, <1>a DEF OwnUndo
<1>UsedSems. UsedSems'
  BY Parts, <1>O, <1>u, <1>e_put, <1>e_pc DEF UsedSems
<1> QED BY <1>T, <1>c, <1>f, <1>SetLocks, <1>ListLocks, <1>Unlinking, <1>Removing, <1>SetLife,
  <1>InTable, <1>HasUndos, <1>TableSets, <1>HeldSets, <1>GoneSets, <1>ReferencesCovered, <1>RefNat,
  <1>Loaded, <1>KeptSets, <1>KeptUndo, <1>ExitList, <1>OwnList, <1>OneList, <1>Unlinked,
  <1>OwnUndo, <1>UsedSems DEF IInv, LockInv, SetInv, RefInv, RcuInv, ListInv, LinkInv

-----------------------------------------------------------------------------
(* semtimedop(), update_queue() and the wakeup.                            *)

(* find_alloc_undo() links the new structure on both lists.                *)
LEMMA IInv_undo_link_new ==
    ASSUME IInv, NEW p \in Procs, undo_link(p), ~deleted[sma[p]], lookup_undo(undo_list[p], semid[p]) = {}
    PROVE  IInv'
<1> USE DEF Holding, Waiting, Referring, WakingUp
<1>t. /\ mem \in [Arrays -> Mems] /\ refcount \in [Arrays -> Int]
      /\ grace \in [Arrays -> SUBSET Procs] /\ lock \in [Arrays -> Procs \cup {NoProc}]
      /\ idr \in [Slots -> Arrays \cup {NoArr}] /\ list_id \in [Arrays -> SUBSET Tasks]
      /\ list_proc \in [Tasks -> Seq(Arrays)] /\ readers \subseteq Procs
      /\ undo_list \in [Tasks -> Tasks \cup {NoProc}] /\ un \in Uns /\ pc \in [Procs -> Labels]
      /\ cmd \in [Procs -> Cmds \cup {"none", "SEMOP", "EXIT"}]
      /\ sma \in [Procs -> Arrays \cup {NoArr}]
      /\ undo \in [Procs -> [list : Tasks \cup {NoProc}, set : Arrays \cup {NoArr}]]
  BY Parts, UnType DEF TypeInv
<1>c. CallInv'
  <2>1. Next
    BY Kinds DEF Next, Step
  <2> QED BY Parts, <2>1, CallStep
<1>g. pc[p] = "ualloc"
  BY DEF undo_link
<1>a. PICK a \in Arrays : a = sma[p]
  BY Parts, <1>g, Locals
<1>z. p \in Tasks /\ cmd[p] = "SEMOP"
  BY Parts, <1>g, Locals DEF QueuePcs
<1>b. PICK u \in Tasks : u = undo_list[p]
  BY Parts, <1>t, <1>g, <1>z DEF OwnList
<1>e. Counted(a) /\ mem[a] = "live" /\ ulp_lock[u] = NoProc /\ p \in Users(u)
  <2>1. p \in Holders(a)
    BY <1>g, <1>a DEF Holders
  <2>2. mem[a] = "live"
    BY Parts, <2>1 DEF ReferencesCovered
  <2> QED BY <1>a, <1>b, <1>z, <2>2 DEF Counted, undo_link, Users
<1>x. \A q \in Procs : cmd[q] = "EXIT" /\ pc[q] # "dead" => undo[q].list # u
  BY Parts, <1>e, Locals DEF ExitList
<1>y. \A q \in Procs : pc[q] = "funlink" => undo[q].list # u
  BY Parts, Kinds, <1>b, <1>e DEF ListLocks
<1>d. /\ ToFront(u, a) /\ list_id' = [list_id EXCEPT ![a] = @ \cup {u}]
      /\ un' = [un EXCEPT ![u][a] = [mem |-> "live", valid |-> TRUE, semadj |-> NoAdj, grace |-> {}]]
      /\ undo' = [undo EXCEPT ![p] = [list |-> u, set |-> a]]
      /\ readers' = readers \cup {p} /\ Goto(p, "find") /\ UNCHANGED <<res, sig>>
  BY <1>a, <1>b DEF undo_link
<1>j. IdOf[a] = semid[p]
  BY Parts, <1>g, <1>a DEF OwnUndo
<1>u. /\ UNCHANGED <<semval, sem_pending, complex_count, deleted, lock, idr, used_sems, rw_mutex,
                     undo_list, ulp, refcnt, ulp_lock, cmd, sops, semid, sma, status, outcome, state,
                     sig, timedout, tasks, idx, semnum, walk, ref, res>>
  BY <1>t, <1>g, <1>a, <1>z, <1>b, <1>e, <1>x, <1>y, <1>d, <1>j DEF undo_link, Return, Goto, args,
    arrayv, lists, ns, queue, scanv, ulpv
<1>e_put. /\ mem' \in [Arrays -> Mems] /\ refcount' \in [Arrays -> Int]
          /\ grace' \in [Arrays -> SUBSET Procs]
          /\ \A b \in Arrays : b # a =>
               mem'[b] = mem[b] /\ refcount'[b] = refcount[b] /\ grace'[b] = grace[b]
          /\ mem[a] = "live" /\ refcount[a] >= 1 /\ refcount'[a] = refcount[a] - 1
          /\ Counted(a) => mem'[a] = "live"
          /\ (mem'[a] = "live" /\ grace'[a] = grace[a]) \/ (mem'[a] = "rcu" /\ grace'[a] = readers)
          /\ mem'[a] = "rcu" => ~Counted(a) /\ Holders(a) \ {p} = {}
          /\ refcount[a] >= Cardinality(Holders(a)) + (IF Counted(a) THEN 1 ELSE 0)
  <2>1. p \in Holders(a)
    BY <1>a, <1>g DEF Holders
  <2>2. Putref(a, refcount[a])
    BY <1>a DEF undo_link
  <2>3. /\ mem' \in [Arrays -> Mems] /\ refcount' \in [Arrays -> Int]
        /\ grace' \in [Arrays -> SUBSET Procs]
        /\ \A b \in Arrays : b # a =>
             mem'[b] = mem[b] /\ refcount'[b] = refcount[b] /\ grace'[b] = grace[b]
        /\ mem[a] = "live" /\ refcount[a] >= 1 /\ refcount'[a] = refcount[a] - 1
        /\ refcount[a] >= Cardinality(Holders(a)) + (IF Counted(a) THEN 1 ELSE 0)
        /\ Cardinality(Holders(a)) >= 1
        /\ \/ refcount[a] > 1 /\ mem'[a] = mem[a] /\ grace'[a] = grace[a]
           \/ /\ refcount[a] = 1 /\ mem'[a] = "rcu" /\ grace'[a] = readers
              /\ ~Counted(a) /\ Holders(a) \ {p} = {}
    BY Parts, <2>1, <2>2, PutEffect
  <2> QED BY <2>3
<1>e_pc. /\ pc' \in [Procs -> Labels] /\ pc'[p] = "find" /\ \A q \in Procs : q # p => pc'[q] = pc[q]
  BY Parts, <1>t, Kinds, <1>g, <1>a, <1>z, <1>b, <1>e, <1>x, <1>y, <1>d, <1>j DEF undo_link,
    Return, Goto, Labels
<1>e_undo. /\ undo' \in [Procs -> [list : Tasks \cup {NoProc}, set : Arrays \cup {NoArr}]] /\ undo'[p] = [list |-> u, set |-> a] /\ \A q \in Procs : q # p => undo'[q] = undo[q]
  BY Parts, <1>t, Kinds, <1>g, <1>a, <1>z, <1>b, <1>e, <1>x, <1>y, <1>d, <1>j DEF undo_link,
    Return, Goto
<1>e_readers. readers' = (readers \cup {p}) /\ readers' \subseteq Procs
  BY Parts, <1>t, Kinds, <1>g, <1>a, <1>z, <1>b, <1>e, <1>x, <1>y, <1>d, <1>j DEF undo_link,
    Return, Goto
<1>e_list_id. /\ list_id' \in [Arrays -> SUBSET Tasks] /\ list_id'[a] = list_id[a] \cup {u} /\ \A b \in Arrays : b # a => list_id'[b] = list_id[b]
  BY Parts, <1>t, Kinds, <1>g, <1>a, <1>z, <1>b, <1>e, <1>x, <1>y, <1>d, <1>j DEF undo_link,
    Return, Goto
<1>e_un. /\ un' \in Uns /\ un'[u][a].mem = "live" /\ un'[u][a].valid = TRUE /\ un'[u][a].grace = {}
         /\ \A v \in Tasks, b \in Arrays : v # u \/ b # a => un'[v][b] = un[v][b]
  BY Parts, <1>d, FreshEffect
<1>e_list_proc. /\ list_proc' \in [Tasks -> Seq(Arrays)] /\ IsInjective(list_proc'[u])
                /\ \A v \in Tasks : v # u => list_proc'[v] = list_proc[v]
                /\ ToSet(list_proc'[u]) = ToSet(list_proc[u]) \cup {a}
  BY Parts, <1>d, FrontEffect
<1>T. TypeInv'
  BY Parts, <1>u, <1>e_put, <1>e_pc, <1>e_undo, <1>e_readers, <1>e_list_id, <1>e_un, <1>e_list_proc
    DEF TypeInv, Uns, UnRecs
<1>f. /\ UserCount'
  BY Parts, <1>u, Frames
<1>H. /\ Holders(a)' = Holders(a) \ {p} /\ Cardinality(Holders(a)') = Cardinality(Holders(a)) - 1
      /\ \A b \in Arrays : b # a => Holders(b)' = Holders(b)
  BY <1>a, <1>g, <1>u, <1>e_pc, HoldersDrop
<1>O. \A b \in Arrays : Counted(b)' = Counted(b)
  BY Kinds, Calls, <1>a, <1>g, <1>u, <1>e_pc, <1>e_put, CountedMem
<1>SetLocks. SetLocks'
  BY Parts, Kinds, <1>u, <1>e_pc, <1>g, <1>a, <1>z, <1>b, <1>e, <1>x, <1>y, <1>j DEF SetLocks
<1>ListLocks. ListLocks'
  BY Parts, Kinds, <1>u, <1>e_pc, <1>e_undo, <1>g, <1>a, <1>z, <1>b, <1>e, <1>x, <1>y, <1>j DEF
    ListLocks
<1>Unlinking. Unlinking'
  BY Parts, <1>u, <1>e_pc, <1>e_undo, <1>g, <1>a, <1>z, <1>b, <1>e, <1>x, <1>y, <1>j DEF Unlinking
<1>Removing. Removing'
  BY Parts, Calls, Kinds, <1>u, <1>e_pc, <1>g, <1>a, <1>z, <1>b, <1>e, <1>x, <1>y, <1>j DEF Removing
<1>SetLife. SetLife'
  BY Parts, <1>a, Kinds, <1>u, <1>e_put, <1>g, <1>z, <1>b, <1>e, <1>x, <1>y, <1>j DEF SetLife,
    Counted
<1>InTable. InTable'
  BY Parts, <1>u, <1>e_put, <1>g, <1>a, <1>z, <1>b, <1>e, <1>x, <1>y, <1>j DEF InTable
<1>HasUndos. HasUndos'
  BY Parts, <1>u, <1>e_put, <1>e_list_id, <1>g, <1>a, <1>z, <1>b, <1>e, <1>x, <1>y, <1>j DEF
    HasUndos, Counted
<1>TableSets. TableSets'
  BY Parts, <1>t, <1>u, <1>e_put, <1>g, <1>a, <1>z, <1>b, <1>e, <1>x, <1>y, <1>j DEF TableSets,
    Counted
<1>HeldSets. HeldSets'
  BY Parts, Sites, <1>u, <1>e_pc, <1>g, <1>a, <1>z, <1>b, <1>e, <1>x, <1>y, <1>j DEF HeldSets
<1>GoneSets. GoneSets'
  BY Parts, Sites, Calls, Kinds, <1>u, <1>e_put, <1>e_pc, <1>g, <1>a, <1>z, <1>b, <1>e, <1>x, <1>y,
    <1>j DEF GoneSets, Counted
<1>ReferencesCovered. ReferencesCovered'
  <2>1. \A b \in Arrays : b # a /\ (Holders(b)' # {} \/ Counted(b)') =>
          mem'[b] = "live" /\ refcount'[b] >= Cardinality(Holders(b)') + (IF Counted(b)' THEN 1 ELSE 0)
    BY Parts, <1>H, <1>O, <1>e_put DEF ReferencesCovered
  <2>2. Holders(a)' # {} \/ Counted(a)' => mem'[a] = "live"
    BY <1>H, <1>O, <1>e_put
  <2>3. refcount[a] \in Int /\ Cardinality(Holders(a)) \in Nat
    BY <1>t, HoldersFinite
  <2>4. refcount'[a] >= Cardinality(Holders(a)') + (IF Counted(a)' THEN 1 ELSE 0)
    BY <1>H, <1>O, <1>e_put, <2>3
  <2> QED BY <2>1, <2>2, <2>4 DEF ReferencesCovered
<1>RefNat. RefNat'
  <2>1. refcount \in [Arrays -> Int] /\ \A b \in Arrays : refcount[b] >= 0
    BY Parts, <1>t DEF RefNat
  <2> QED BY <1>e_put, <2>1 DEF RefNat
<1>Loaded. Loaded'
  <2> SUFFICES ASSUME NEW q \in Procs, pc'[q] = "put" PROVE (ref[q] >= Cardinality(Holders(sma[q])))'
    BY DEF Loaded
  <2>1. q # p /\ pc[q] = "put" /\ sma'[q] = sma[q] /\ ref'[q] = ref[q] /\ sma[q] \in Arrays
    BY <1>u, Sites, <1>e_pc
  <2>2. PICK b \in Arrays : b = sma[q]
    BY <2>1
  <2>3. ref[q] >= Cardinality(Holders(b)) /\ ref[q] \in Int
    BY Parts, <2>1, <2>2 DEF Loaded, TypeInv
  <2>4. Holders(sma[q])' = Holders(b)'
    BY <2>1, <2>2 DEF Holders
  <2>5. Cardinality(Holders(b)') = Cardinality(Holders(b)) \/ Cardinality(Holders(b)') = Cardinality(Holders(b)) - 1
    BY <1>H
  <2>6. Cardinality(Holders(b)) \in Nat
    BY HoldersFinite
  <2> QED BY <2>1, <2>3, <2>4, <2>5, <2>6
<1>KeptSets. KeptSets'
  BY Parts, Sites, <1>u, <1>e_put, <1>e_readers, <1>e_pc, <1>g, <1>a, <1>z, <1>b, <1>e, <1>x, <1>y,
    <1>j DEF KeptSets, Kept
<1>KeptUndo. KeptUndo'
  BY Parts, Undos, <1>u, <1>e_readers, <1>e_un, <1>e_pc, <1>e_undo, <1>g, <1>a, <1>z, <1>b, <1>e,
    <1>x, <1>y, <1>j DEF KeptUndo, Kept
<1>ExitList. ExitList'
  BY Parts, Kinds, Calls, <1>u, <1>e_pc, <1>e_undo, <1>g, <1>a, <1>z, <1>b, <1>e, <1>x, <1>y, <1>j
    DEF ExitList, Users
<1>FreshList. FreshList'
  BY Parts, Kinds, Calls, <1>u, <1>e_undo, <1>g, <1>a, <1>z, <1>b, <1>e, <1>x, <1>y, <1>j DEF
    FreshList, Users
<1>OwnList. OwnList'
  BY Parts, Kinds, Calls, <1>u, <1>e_pc, <1>e_undo, <1>g, <1>a, <1>z, <1>b, <1>e, <1>x, <1>y, <1>j
    DEF OwnList
<1>OnceLinked. OnceLinked'
  BY Parts, <1>u, <1>e_list_proc, <1>g, <1>a, <1>z, <1>b, <1>e, <1>x, <1>y, <1>j DEF OnceLinked
<1>LinkedLive. LinkedLive'
  BY Parts, <1>u, <1>e_list_proc, <1>e_un, <1>g, <1>a, <1>z, <1>b, <1>e, <1>x, <1>y, <1>j DEF
    LinkedLive
<1>BothLists. BothLists'
  BY Parts, <1>u, <1>e_list_id, <1>e_list_proc, <1>e_un, <1>g, <1>a, <1>z, <1>b, <1>e, <1>x, <1>y,
    <1>j DEF BothLists
<1>OneList. OneList'
  <2> SUFFICES ASSUME NEW v \in Tasks, NEW b \in Arrays, b \in ToSet(list_proc'[v]), v \notin list_id'[b]
               PROVE  (\E c \in Ctls : pc[c] = "funlink" /\ undo[c] = [list |-> v, set |-> b])'
    BY DEF OneList
  <2>1. b \in ToSet(list_proc[v]) /\ v \notin list_id[b]
    BY <1>u, <1>e_list_proc, <1>e_list_id
  <2>2. PICK c \in Ctls : pc[c] = "funlink" /\ undo[c] = [list |-> v, set |-> b]
    BY Parts, <2>1 DEF OneList
  <2>3. pc'[c] = pc[c] /\ undo'[c] = undo[c]
    BY Kinds, <2>2, <1>g, <1>z, <1>e_pc, <1>e_undo
  <2> QED BY <2>2, <2>3
<1>Unlinked. Unlinked'
  <2> SUFFICES ASSUME NEW q \in Procs
               PROVE  /\ (pc[q] = "funlink" => undo[q].list \notin list_id[undo[q].set] /\ ~un[undo[q].list][undo[q].set].valid)'
                      /\ (cmd[q] = "EXIT" /\ pc[q] \in {"smart", "scan"} \cup WakingUp =>
                            undo[q].set \in Arrays /\ undo[q].set \notin ToSet(list_proc[undo[q].list]))'
    BY DEF Unlinked
  <2>1. CASE q = p
    BY <1>u, <1>z, <1>e_pc, <2>1
  <2>2. CASE q # p
    <3>1. pc'[q] = pc[q] /\ cmd'[q] = cmd[q] /\ undo'[q] = undo[q]
        BY <1>u, <1>e_pc, <1>e_undo, <2>2
    <3>2. /\ pc[q] = "funlink" => undo[q].list \notin list_id[undo[q].set] /\ ~un[undo[q].list][undo[q].set].valid
          /\ cmd[q] = "EXIT" /\ pc[q] \in {"smart", "scan"} \cup WakingUp =>
                undo[q].set \in Arrays /\ undo[q].set \notin ToSet(list_proc[undo[q].list])
        BY Parts DEF Unlinked
    <3>3. PICK r, y : r = undo[q].list /\ y = undo[q].set
        OBVIOUS
    <3>4. CASE pc[q] = "funlink"
      <4>1. r \in Tasks /\ y \in Arrays /\ r # u
        BY Undos, <1>y, <3>3, <3>4
      <4>2. un'[r][y] = un[r][y] /\ (r \in list_id'[y] <=> r \in list_id[y])
        BY <1>e_un, <1>e_list_id, <4>1
      <4> QED BY <3>1, <3>2, <3>3, <3>4, <4>2
    <3>5. CASE cmd[q] = "EXIT" /\ pc[q] \in {"smart", "scan"} \cup WakingUp
      <4>1. r \in Tasks /\ y \in Arrays /\ r # u
        BY Undos, <1>x, <3>3, <3>5
      <4>2. list_proc'[r] = list_proc[r]
        BY <1>e_list_proc, <4>1
      <4> QED BY <3>1, <3>2, <3>3, <3>5, <4>1, <4>2
    <3> QED BY <3>1, <3>4, <3>5
  <2> QED BY <2>1, <2>2
<1>OwnUndo. OwnUndo'
  BY Parts, Undos, Sites, <1>u, <1>e_list_id, <1>e_un, <1>e_pc, <1>e_undo, <1>g, <1>a, <1>z, <1>b,
    <1>e, <1>x, <1>y, <1>j DEF OwnUndo
<1>UsedSems. UsedSems'
  BY Parts, <1>O, <1>u, <1>e_put, <1>e_pc DEF UsedSems
<1> QED BY <1>T, <1>c, <1>f, <1>SetLocks, <1>ListLocks, <1>Unlinking, <1>Removing, <1>SetLife,
  <1>InTable, <1>HasUndos, <1>TableSets, <1>HeldSets, <1>GoneSets, <1>ReferencesCovered, <1>RefNat,
  <1>Loaded, <1>KeptSets, <1>KeptUndo, <1>ExitList, <1>FreshList, <1>OwnList, <1>OnceLinked,
  <1>LinkedLive, <1>BothLists, <1>OneList, <1>Unlinked, <1>OwnUndo, <1>UsedSems DEF IInv, LockInv,
  SetInv, RefInv, RcuInv, ListInv, LinkInv

(* find_alloc_undo() uses the structure that appeared meanwhile.           *)
LEMMA IInv_undo_link_old ==
    ASSUME IInv, NEW p \in Procs, undo_link(p), ~deleted[sma[p]], lookup_undo(undo_list[p], semid[p]) # {}
    PROVE  IInv'
<1> USE DEF Holding, Waiting, Referring, WakingUp
<1>t. /\ mem \in [Arrays -> Mems] /\ refcount \in [Arrays -> Int]
      /\ grace \in [Arrays -> SUBSET Procs] /\ lock \in [Arrays -> Procs \cup {NoProc}]
      /\ idr \in [Slots -> Arrays \cup {NoArr}] /\ list_proc \in [Tasks -> Seq(Arrays)]
      /\ readers \subseteq Procs /\ undo_list \in [Tasks -> Tasks \cup {NoProc}]
      /\ pc \in [Procs -> Labels] /\ cmd \in [Procs -> Cmds \cup {"none", "SEMOP", "EXIT"}]
      /\ sma \in [Procs -> Arrays \cup {NoArr}]
      /\ undo \in [Procs -> [list : Tasks \cup {NoProc}, set : Arrays \cup {NoArr}]]
  BY Parts, UnType DEF TypeInv
<1>c. CallInv'
  <2>1. Next
    BY Kinds DEF Next, Step
  <2> QED BY Parts, <2>1, CallStep
<1>g. pc[p] = "ualloc"
  BY DEF undo_link
<1>a. PICK a \in Arrays : a = sma[p]
  BY Parts, <1>g, Locals
<1>z. p \in Tasks /\ cmd[p] = "SEMOP"
  BY Parts, <1>g, Locals DEF QueuePcs
<1>b. PICK u \in Tasks : u = undo_list[p]
  BY Parts, <1>t, <1>g, <1>z DEF OwnList
<1>e. Counted(a) /\ mem[a] = "live" /\ ulp_lock[u] = NoProc /\ p \in Users(u)
  <2>1. p \in Holders(a)
    BY <1>g, <1>a DEF Holders
  <2>2. mem[a] = "live"
    BY Parts, <2>1 DEF ReferencesCovered
  <2> QED BY <1>a, <1>b, <1>z, <2>2 DEF Counted, undo_link, Users
<1>x. \A q \in Procs : cmd[q] = "EXIT" /\ pc[q] # "dead" => undo[q].list # u
  BY Parts, <1>e, Locals DEF ExitList
<1>y. \A q \in Procs : pc[q] = "funlink" => undo[q].list # u
  BY Parts, Kinds, <1>b, <1>e DEF ListLocks
<1>d. PICK c \in lookup_undo(u, semid[p]) :
        /\ ToFront(u, c) /\ undo' = [undo EXCEPT ![p] = [list |-> u, set |-> c]]
        /\ readers' = readers \cup {p} /\ Goto(p, "find") /\ UNCHANGED <<list_id, un, res, sig>>
  BY <1>a, <1>b DEF undo_link
<1>j. /\ c \in Arrays /\ c \in ToSet(list_proc[u]) /\ un[u][c].valid /\ IdOf[c] = semid[p]
  BY <1>b, <1>d, <1>t DEF lookup_undo, ToSet
<1>m. un[u][c].mem = "live" /\ u \in list_id[c]
  <2>1. un[u][c].mem = "live"
    BY Parts, <1>b, <1>j DEF LinkedLive
  <2>2. SUFFICES ASSUME u \notin list_id[c] PROVE FALSE
    BY <2>1
  <2>3. PICK d \in Ctls : pc[d] = "funlink" /\ undo[d] = [list |-> u, set |-> c]
    BY Parts, <1>b, <1>j, <2>2 DEF OneList
  <2> QED BY Kinds, <1>y, <2>3
<1>u. /\ UNCHANGED <<semval, sem_pending, complex_count, deleted, lock, idr, used_sems, rw_mutex,
                     list_id, undo_list, ulp, refcnt, ulp_lock, un, cmd, sops, semid, sma, status,
                     outcome, state, sig, timedout, tasks, idx, semnum, walk, ref, res>>
  BY <1>t, <1>g, <1>a, <1>z, <1>b, <1>e, <1>x, <1>y, <1>d, <1>j, <1>m DEF undo_link, Return, Goto,
    args, arrayv, lists, ns, queue, scanv, ulpv
<1>e_put. /\ mem' \in [Arrays -> Mems] /\ refcount' \in [Arrays -> Int]
          /\ grace' \in [Arrays -> SUBSET Procs]
          /\ \A b \in Arrays : b # a =>
               mem'[b] = mem[b] /\ refcount'[b] = refcount[b] /\ grace'[b] = grace[b]
          /\ mem[a] = "live" /\ refcount[a] >= 1 /\ refcount'[a] = refcount[a] - 1
          /\ Counted(a) => mem'[a] = "live"
          /\ (mem'[a] = "live" /\ grace'[a] = grace[a]) \/ (mem'[a] = "rcu" /\ grace'[a] = readers)
          /\ mem'[a] = "rcu" => ~Counted(a) /\ Holders(a) \ {p} = {}
          /\ refcount[a] >= Cardinality(Holders(a)) + (IF Counted(a) THEN 1 ELSE 0)
  <2>1. p \in Holders(a)
    BY <1>a, <1>g DEF Holders
  <2>2. Putref(a, refcount[a])
    BY <1>a DEF undo_link
  <2>3. /\ mem' \in [Arrays -> Mems] /\ refcount' \in [Arrays -> Int]
        /\ grace' \in [Arrays -> SUBSET Procs]
        /\ \A b \in Arrays : b # a =>
             mem'[b] = mem[b] /\ refcount'[b] = refcount[b] /\ grace'[b] = grace[b]
        /\ mem[a] = "live" /\ refcount[a] >= 1 /\ refcount'[a] = refcount[a] - 1
        /\ refcount[a] >= Cardinality(Holders(a)) + (IF Counted(a) THEN 1 ELSE 0)
        /\ Cardinality(Holders(a)) >= 1
        /\ \/ refcount[a] > 1 /\ mem'[a] = mem[a] /\ grace'[a] = grace[a]
           \/ /\ refcount[a] = 1 /\ mem'[a] = "rcu" /\ grace'[a] = readers
              /\ ~Counted(a) /\ Holders(a) \ {p} = {}
    BY Parts, <2>1, <2>2, PutEffect
  <2> QED BY <2>3
<1>e_pc. /\ pc' \in [Procs -> Labels] /\ pc'[p] = "find" /\ \A q \in Procs : q # p => pc'[q] = pc[q]
  BY Parts, <1>t, Kinds, <1>g, <1>a, <1>z, <1>b, <1>e, <1>x, <1>y, <1>d, <1>j, <1>m DEF undo_link,
    Return, Goto, Labels
<1>e_undo. /\ undo' \in [Procs -> [list : Tasks \cup {NoProc}, set : Arrays \cup {NoArr}]] /\ undo'[p] = [list |-> u, set |-> c] /\ \A q \in Procs : q # p => undo'[q] = undo[q]
  BY Parts, <1>t, Kinds, <1>g, <1>a, <1>z, <1>b, <1>e, <1>x, <1>y, <1>d, <1>j, <1>m DEF undo_link,
    Return, Goto
<1>e_readers. readers' = (readers \cup {p}) /\ readers' \subseteq Procs
  BY Parts, <1>t, Kinds, <1>g, <1>a, <1>z, <1>b, <1>e, <1>x, <1>y, <1>d, <1>j, <1>m DEF undo_link,
    Return, Goto
<1>e_list_proc. /\ list_proc' \in [Tasks -> Seq(Arrays)] /\ IsInjective(list_proc'[u])
                /\ \A v \in Tasks : v # u => list_proc'[v] = list_proc[v]
                /\ ToSet(list_proc'[u]) = ToSet(list_proc[u])
  <2>1. /\ list_proc' \in [Tasks -> Seq(Arrays)] /\ IsInjective(list_proc'[u])
        /\ \A v \in Tasks : v # u => list_proc'[v] = list_proc[v]
        /\ ToSet(list_proc'[u]) = ToSet(list_proc[u]) \cup {c}
    BY Parts, <1>d, <1>j, FrontEffect
  <2> QED BY <1>j, <2>1
<1>T. TypeInv'
  BY Parts, <1>u, <1>e_put, <1>e_pc, <1>e_undo, <1>e_readers, <1>e_list_proc DEF TypeInv, Uns,
    UnRecs
<1>f. /\ UserCount'
  BY Parts, <1>u, Frames
<1>H. /\ Holders(a)' = Holders(a) \ {p} /\ Cardinality(Holders(a)') = Cardinality(Holders(a)) - 1
      /\ \A b \in Arrays : b # a => Holders(b)' = Holders(b)
  BY <1>a, <1>g, <1>u, <1>e_pc, HoldersDrop
<1>O. \A b \in Arrays : Counted(b)' = Counted(b)
  BY Kinds, Calls, <1>a, <1>g, <1>u, <1>e_pc, <1>e_put, CountedMem
<1>SetLocks. SetLocks'
  BY Parts, Kinds, <1>u, <1>e_pc, <1>g, <1>a, <1>z, <1>b, <1>e, <1>x, <1>y, <1>j, <1>m DEF SetLocks
<1>ListLocks. ListLocks'
  BY Parts, Kinds, <1>u, <1>e_pc, <1>e_undo, <1>g, <1>a, <1>z, <1>b, <1>e, <1>x, <1>y, <1>j, <1>m
    DEF ListLocks
<1>Unlinking. Unlinking'
  BY Parts, <1>u, <1>e_pc, <1>e_undo, <1>g, <1>a, <1>z, <1>b, <1>e, <1>x, <1>y, <1>j, <1>m DEF
    Unlinking
<1>Removing. Removing'
  BY Parts, Calls, Kinds, <1>u, <1>e_pc, <1>g, <1>a, <1>z, <1>b, <1>e, <1>x, <1>y, <1>j, <1>m DEF
    Removing
<1>SetLife. SetLife'
  BY Parts, <1>a, Kinds, <1>u, <1>e_put, <1>g, <1>z, <1>b, <1>e, <1>x, <1>y, <1>j, <1>m DEF
    SetLife, Counted
<1>InTable. InTable'
  BY Parts, <1>u, <1>e_put, <1>g, <1>a, <1>z, <1>b, <1>e, <1>x, <1>y, <1>j, <1>m DEF InTable
<1>HasUndos. HasUndos'
  BY Parts, <1>u, <1>e_put, <1>g, <1>a, <1>z, <1>b, <1>e, <1>x, <1>y, <1>j, <1>m DEF HasUndos,
    Counted
<1>TableSets. TableSets'
  BY Parts, <1>t, <1>u, <1>e_put, <1>g, <1>a, <1>z, <1>b, <1>e, <1>x, <1>y, <1>j, <1>m DEF
    TableSets, Counted
<1>HeldSets. HeldSets'
  BY Parts, Sites, <1>u, <1>e_pc, <1>g, <1>a, <1>z, <1>b, <1>e, <1>x, <1>y, <1>j, <1>m DEF HeldSets
<1>GoneSets. GoneSets'
  BY Parts, Sites, Calls, Kinds, <1>u, <1>e_put, <1>e_pc, <1>g, <1>a, <1>z, <1>b, <1>e, <1>x, <1>y,
    <1>j, <1>m DEF GoneSets, Counted
<1>ReferencesCovered. ReferencesCovered'
  <2>1. \A b \in Arrays : b # a /\ (Holders(b)' # {} \/ Counted(b)') =>
          mem'[b] = "live" /\ refcount'[b] >= Cardinality(Holders(b)') + (IF Counted(b)' THEN 1 ELSE 0)
    BY Parts, <1>H, <1>O, <1>e_put DEF ReferencesCovered
  <2>2. Holders(a)' # {} \/ Counted(a)' => mem'[a] = "live"
    BY <1>H, <1>O, <1>e_put
  <2>3. refcount[a] \in Int /\ Cardinality(Holders(a)) \in Nat
    BY <1>t, HoldersFinite
  <2>4. refcount'[a] >= Cardinality(Holders(a)') + (IF Counted(a)' THEN 1 ELSE 0)
    BY <1>H, <1>O, <1>e_put, <2>3
  <2> QED BY <2>1, <2>2, <2>4 DEF ReferencesCovered
<1>RefNat. RefNat'
  <2>1. refcount \in [Arrays -> Int] /\ \A b \in Arrays : refcount[b] >= 0
    BY Parts, <1>t DEF RefNat
  <2> QED BY <1>e_put, <2>1 DEF RefNat
<1>Loaded. Loaded'
  <2> SUFFICES ASSUME NEW q \in Procs, pc'[q] = "put" PROVE (ref[q] >= Cardinality(Holders(sma[q])))'
    BY DEF Loaded
  <2>1. q # p /\ pc[q] = "put" /\ sma'[q] = sma[q] /\ ref'[q] = ref[q] /\ sma[q] \in Arrays
    BY <1>u, Sites, <1>e_pc
  <2>2. PICK b \in Arrays : b = sma[q]
    BY <2>1
  <2>3. ref[q] >= Cardinality(Holders(b)) /\ ref[q] \in Int
    BY Parts, <2>1, <2>2 DEF Loaded, TypeInv
  <2>4. Holders(sma[q])' = Holders(b)'
    BY <2>1, <2>2 DEF Holders
  <2>5. Cardinality(Holders(b)') = Cardinality(Holders(b)) \/ Cardinality(Holders(b)') = Cardinality(Holders(b)) - 1
    BY <1>H
  <2>6. Cardinality(Holders(b)) \in Nat
    BY HoldersFinite
  <2> QED BY <2>1, <2>3, <2>4, <2>5, <2>6
<1>KeptSets. KeptSets'
  BY Parts, Sites, <1>u, <1>e_put, <1>e_readers, <1>e_pc, <1>g, <1>a, <1>z, <1>b, <1>e, <1>x, <1>y,
    <1>j, <1>m DEF KeptSets, Kept
<1>KeptUndo. KeptUndo'
  BY Parts, Undos, <1>u, <1>e_readers, <1>e_pc, <1>e_undo, <1>g, <1>a, <1>z, <1>b, <1>e, <1>x,
    <1>y, <1>j, <1>m DEF KeptUndo, Kept
<1>ExitList. ExitList'
  BY Parts, Kinds, Calls, <1>u, <1>e_pc, <1>e_undo, <1>g, <1>a, <1>z, <1>b, <1>e, <1>x, <1>y, <1>j,
    <1>m DEF ExitList, Users
<1>FreshList. FreshList'
  BY Parts, Kinds, Calls, <1>u, <1>e_undo, <1>g, <1>a, <1>z, <1>b, <1>e, <1>x, <1>y, <1>j, <1>m DEF
    FreshList, Users
<1>OwnList. OwnList'
  BY Parts, Kinds, Calls, <1>u, <1>e_pc, <1>e_undo, <1>g, <1>a, <1>z, <1>b, <1>e, <1>x, <1>y, <1>j,
    <1>m DEF OwnList
<1>OnceLinked. OnceLinked'
  BY Parts, <1>u, <1>e_list_proc, <1>g, <1>a, <1>z, <1>b, <1>e, <1>x, <1>y, <1>j, <1>m DEF
    OnceLinked
<1>LinkedLive. LinkedLive'
  BY Parts, <1>u, <1>e_list_proc, <1>g, <1>a, <1>z, <1>b, <1>e, <1>x, <1>y, <1>j, <1>m DEF
    LinkedLive
<1>BothLists. BothLists'
  BY Parts, <1>u, <1>e_list_proc, <1>g, <1>a, <1>z, <1>b, <1>e, <1>x, <1>y, <1>j, <1>m DEF
    BothLists
<1>OneList. OneList'
  <2> SUFFICES ASSUME NEW v \in Tasks, NEW b \in Arrays, b \in ToSet(list_proc'[v]), v \notin list_id'[b]
               PROVE  (\E d \in Ctls : pc[d] = "funlink" /\ undo[d] = [list |-> v, set |-> b])'
    BY DEF OneList
  <2>1. b \in ToSet(list_proc[v]) /\ v \notin list_id[b]
    BY <1>u, <1>e_list_proc
  <2>2. PICK d \in Ctls : pc[d] = "funlink" /\ undo[d] = [list |-> v, set |-> b]
    BY Parts, <2>1 DEF OneList
  <2>3. pc'[d] = pc[d] /\ undo'[d] = undo[d]
    BY Kinds, <2>2, <1>g, <1>z, <1>e_pc, <1>e_undo
  <2> QED BY <2>2, <2>3
<1>Unlinked. Unlinked'
  BY Parts, Undos, <1>u, <1>e_list_proc, <1>e_pc, <1>e_undo, <1>g, <1>a, <1>z, <1>b, <1>e, <1>x,
    <1>y, <1>j, <1>m DEF Unlinked
<1>OwnUndo. OwnUndo'
  BY Parts, Undos, Sites, <1>u, <1>e_pc, <1>e_undo, <1>g, <1>a, <1>z, <1>b, <1>e, <1>x, <1>y, <1>j,
    <1>m DEF OwnUndo
<1>UsedSems. UsedSems'
  BY Parts, <1>O, <1>u, <1>e_put, <1>e_pc DEF UsedSems
<1> QED BY <1>T, <1>c, <1>f, <1>SetLocks, <1>ListLocks, <1>Unlinking, <1>Removing, <1>SetLife,
  <1>InTable, <1>HasUndos, <1>TableSets, <1>HeldSets, <1>GoneSets, <1>ReferencesCovered, <1>RefNat,
  <1>Loaded, <1>KeptSets, <1>KeptUndo, <1>ExitList, <1>FreshList, <1>OwnList, <1>OnceLinked,
  <1>LinkedLive, <1>BothLists, <1>OneList, <1>Unlinked, <1>OwnUndo, <1>UsedSems DEF IInv, LockInv,
  SetInv, RefInv, RcuInv, ListInv, LinkInv

(* An operation that fails or changes nothing.                             *)
LEMMA IInv_semop_return ==
    ASSUME IInv, NEW p \in Procs, semop_return(p)
    PROVE  IInv'
<1> USE DEF Holding, Waiting, Referring, WakingUp
<1>t. /\ grace \in [Arrays -> SUBSET Procs] /\ lock \in [Arrays -> Procs \cup {NoProc}]
      /\ readers \subseteq Procs /\ un \in Uns /\ pc \in [Procs -> Labels]
      /\ cmd \in [Procs -> Cmds \cup {"none", "SEMOP", "EXIT"}]
      /\ sma \in [Procs -> Arrays \cup {NoArr}]
      /\ undo \in [Procs -> [list : Tasks \cup {NoProc}, set : Arrays \cup {NoArr}]]
      /\ sig \subseteq Tasks
  BY Parts, UnType DEF TypeInv
<1>c. CallInv'
  <2>1. Next
    BY Kinds DEF Next, Step
  <2> QED BY Parts, <2>1, CallStep
<1>g. /\ pc[p] = "lock" /\ sma[p] \in Arrays /\ lock[sma[p]] = NoProc /\ p \in readers
      /\ ~deleted[sma[p]] /\ mem[sma[p]] = "live" /\ Counted(sma[p]) /\ IdOf[sma[p]] = semid[p]
  <2>1. Found(p, "lock")
    BY DEF semop_return
  <2> QED BY Parts, <2>1, FoundSet
<1>a. PICK a \in Arrays : a = sma[p]
  BY Parts, <1>g, Locals
<1>u. /\ UNCHANGED <<semval, sem_pending, complex_count, mem, refcount, deleted, lock, idr, used_sems,
                     rw_mutex, list_id, list_proc, undo_list, ulp, refcnt, ulp_lock, cmd, sops, semid,
                     sma, undo, status, outcome, state, timedout, tasks, idx, semnum, walk, ref>>
  BY <1>t, <1>g, <1>a DEF semop_return, Return, Goto, args, arrayv, lists, ns, queue, scanv, ulpv
<1>e_pc. /\ pc' \in [Procs -> Labels] /\ pc'[p] = "ret" /\ \A q \in Procs : q # p => pc'[q] = pc[q]
  BY Parts, <1>t, Kinds, <1>g, <1>a DEF semop_return, Return, Goto, Labels
<1>e_leave. /\ readers' = readers \ {p} /\ readers' \subseteq Procs
            /\ grace' \in [Arrays -> SUBSET Procs] /\ un' \in Uns
            /\ \A b \in Arrays : grace'[b] = grace[b] \ {p}
            /\ \A v \in Tasks, b \in Arrays :
                 /\ un'[v][b].mem = un[v][b].mem /\ un'[v][b].valid = un[v][b].valid
                 /\ un'[v][b].grace = un[v][b].grace \ {p}
  <2>1. Leave(p)
    BY <1>t, <1>g, <1>a DEF semop_return
  <2> QED BY Parts, <2>1, LeaveEffect
<1>e_sig. sig' = (sig \ {p}) /\ sig' \subseteq Tasks
  BY Parts, <1>t, Kinds, <1>g, <1>a DEF semop_return, Return, Goto
<1>T. TypeInv'
  BY Parts, <1>u, <1>e_pc, <1>e_leave, <1>e_sig DEF TypeInv, Uns, UnRecs
<1>f. /\ SetLife' /\ InTable' /\ HasUndos' /\ TableSets' /\ RefNat' /\ UserCount' /\ FreshList'
      /\ OnceLinked'
  BY Parts, <1>u, Frames
<1>H. \A b \in Arrays : Holders(b)' = Holders(b)
  BY Kinds, <1>u, <1>e_pc, <1>g, <1>a, HoldersSame
<1>O. \A b \in Arrays : Counted(b)' = Counted(b)
  BY Kinds, Calls, <1>u, <1>e_pc, <1>g, <1>a, CountedSame
<1>SetLocks. SetLocks'
  BY Parts, Kinds, <1>u, <1>e_pc, <1>g, <1>a DEF SetLocks
<1>ListLocks. ListLocks'
  BY Parts, Kinds, <1>u, <1>e_pc, <1>g, <1>a DEF ListLocks
<1>Unlinking. Unlinking'
  BY Parts, <1>u, <1>e_pc, <1>g, <1>a DEF Unlinking
<1>Removing. Removing'
  BY Parts, Calls, Kinds, <1>u, <1>e_pc, <1>g, <1>a DEF Removing
<1>HeldSets. HeldSets'
  BY Parts, Sites, <1>u, <1>e_pc, <1>g, <1>a DEF HeldSets
<1>GoneSets. GoneSets'
  BY Parts, Sites, Calls, <1>u, <1>e_pc, <1>g, <1>a DEF GoneSets
<1>ReferencesCovered. ReferencesCovered'
  BY Parts, <1>H, <1>O, <1>t, <1>u, <1>e_pc, <1>g, <1>a, HoldersFinite DEF ReferencesCovered
<1>Loaded. Loaded'
  BY Parts, Sites, <1>H, Calls, <1>t, <1>u, <1>e_pc, <1>g, <1>a, HoldersFinite DEF Loaded
<1>KeptSets. KeptSets'
  BY Parts, Sites, <1>u, <1>e_leave, <1>e_pc, <1>g, <1>a DEF KeptSets, Kept
<1>KeptUndo. KeptUndo'
  BY Parts, Undos, <1>u, <1>e_leave, <1>e_pc, <1>g, <1>a DEF KeptUndo, Kept
<1>ExitList. ExitList'
  BY Parts, Kinds, Calls, <1>u, <1>e_pc, <1>g, <1>a DEF ExitList, Users
<1>OwnList. OwnList'
  BY Parts, Kinds, Calls, <1>u, <1>e_pc, <1>g, <1>a DEF OwnList
<1>LinkedLive. LinkedLive'
  BY Parts, <1>u, <1>e_leave, <1>g, <1>a DEF LinkedLive
<1>BothLists. BothLists'
  BY Parts, <1>u, <1>e_leave, <1>g, <1>a DEF BothLists
<1>OneList. OneList'
  BY Parts, Kinds, <1>u, <1>e_pc, <1>g, <1>a DEF OneList
<1>Unlinked. Unlinked'
  BY Parts, Undos, <1>u, <1>e_leave, <1>e_pc, <1>g, <1>a DEF Unlinked
<1>OwnUndo. OwnUndo'
  BY Parts, Undos, Sites, <1>u, <1>e_leave, <1>e_pc, <1>g, <1>a DEF OwnUndo
<1>UsedSems. UsedSems'
  BY Parts, <1>O, <1>u, <1>e_pc DEF UsedSems
<1> QED BY <1>T, <1>c, <1>f, <1>SetLocks, <1>ListLocks, <1>Unlinking, <1>Removing, <1>HeldSets,
  <1>GoneSets, <1>ReferencesCovered, <1>Loaded, <1>KeptSets, <1>KeptUndo, <1>ExitList, <1>OwnList,
  <1>LinkedLive, <1>BothLists, <1>OneList, <1>Unlinked, <1>OwnUndo, <1>UsedSems DEF IInv, LockInv,
  SetInv, RefInv, RcuInv, ListInv, LinkInv

(* An operation is performed.                                              *)
LEMMA IInv_semop_alter ==
    ASSUME IInv, NEW p \in Procs, semop_alter(p)
    PROVE  IInv'
<1> USE DEF Holding, Waiting, Referring, WakingUp
<1>t. /\ semval \in [Arrays -> Values] /\ lock \in [Arrays -> Procs \cup {NoProc}] /\ un \in Uns
      /\ pc \in [Procs -> Labels] /\ cmd \in [Procs -> Cmds \cup {"none", "SEMOP", "EXIT"}]
      /\ sma \in [Procs -> Arrays \cup {NoArr}]
      /\ undo \in [Procs -> [list : Tasks \cup {NoProc}, set : Arrays \cup {NoArr}]]
      /\ idx \in [Procs -> Nat]
  BY Parts, UnType DEF TypeInv
<1>c. CallInv'
  <2>1. Next
    BY Kinds DEF Next, Step
  <2> QED BY Parts, <2>1, CallStep
<1>g. /\ pc[p] = "lock" /\ sma[p] \in Arrays /\ lock[sma[p]] = NoProc /\ p \in readers
      /\ ~deleted[sma[p]] /\ mem[sma[p]] = "live" /\ Counted(sma[p]) /\ IdOf[sma[p]] = semid[p]
  <2>1. Found(p, "lock")
    BY DEF semop_alter
  <2> QED BY Parts, <2>1, FoundSet
<1>a. PICK a \in Arrays : a = sma[p]
  BY Parts, <1>g, Locals
<1>z. p \in Tasks /\ cmd[p] = "SEMOP"
  BY Parts, <1>g, Locals DEF QueuePcs
<1>d. undo[p].set # NoArr => undo[p].set = a /\ un[undo[p].list][undo[p].set].valid
  <2> SUFFICES ASSUME undo[p].set # NoArr
               PROVE  undo[p].set = a /\ un[undo[p].list][undo[p].set].valid
    OBVIOUS
  <2>1. un[undo[p].list][undo[p].set].valid
    BY DEF semop_alter, Stale
  <2>2. PICK c \in Arrays : c = undo[p].set
    BY <1>g, Undos
  <2>3. undo[p].list \in list_id[c] /\ IdOf[c] = semid[p]
    BY Parts, <1>z, <2>1, <2>2 DEF OwnUndo
  <2>4. mem[c] = "live" /\ ~deleted[c]
    BY Parts, <2>3 DEF HasUndos
  <2>5. idr[IdOf[c][1]] = c /\ idr[IdOf[a][1]] = a
    BY Parts, <1>a, <1>g, <2>4 DEF InTable
  <2> QED BY <1>a, <1>g, <2>1, <2>2, <2>3, <2>5
<1>u. /\ UNCHANGED <<sem_pending, complex_count, mem, refcount, deleted, grace, idr, used_sems,
                     rw_mutex, list_id, list_proc, readers, undo_list, ulp, refcnt, ulp_lock, cmd,
                     sops, semid, sma, undo, status, outcome, state, sig, timedout, tasks, semnum,
                     walk, ref, res>>
  BY <1>t, <1>g, <1>a, <1>z, <1>d DEF semop_alter, Store, Goto, args, life, lists, ns, queue,
    sched, ulpv
<1>e_store. /\ semval' \in [Arrays -> Values] /\ un' \in Uns
            /\ \A v \in Tasks, b \in Arrays :
                 /\ un'[v][b].mem = un[v][b].mem /\ un'[v][b].valid = un[v][b].valid
                 /\ un'[v][b].grace = un[v][b].grace
  <2>1. undo[p].set # NoArr => undo[p].list \in Tasks
    BY Undos, <1>g
  <2>2. Store(a, p, try_atomic_semop(semval[a], AdjOf(p), sops[p]).val,
                    try_atomic_semop(semval[a], AdjOf(p), sops[p]).adj)
    BY <1>a DEF semop_alter, Attempt
  <2> QED BY Parts, <2>1, <2>2, StoreAttempt
<1>e_lock. /\ lock' \in [Arrays -> Procs \cup {NoProc}] /\ lock'[a] = p /\ \A b \in Arrays : b # a => lock'[b] = lock[b]
  BY Parts, <1>t, Kinds, <1>g, <1>a, <1>z, <1>d DEF semop_alter, Goto
<1>e_idx. /\ idx' \in [Procs -> Nat] /\ idx'[p] = 1 /\ \A q \in Procs : q # p => idx'[q] = idx[q]
  BY Parts, <1>t, Kinds, <1>g, <1>a, <1>z, <1>d DEF semop_alter, Goto
<1>e_pc. /\ pc' \in [Procs -> Labels] /\ pc'[p] = "smart" /\ \A q \in Procs : q # p => pc'[q] = pc[q]
  BY Parts, <1>t, Kinds, <1>g, <1>a, <1>z, <1>d DEF semop_alter, Goto, Labels
<1>T. TypeInv'
  BY Parts, <1>u, <1>e_store, <1>e_lock, <1>e_idx, <1>e_pc DEF TypeInv, Uns, UnRecs
<1>f. /\ SetLife' /\ InTable' /\ HasUndos' /\ TableSets' /\ RefNat' /\ UserCount' /\ FreshList'
      /\ OnceLinked'
  BY Parts, <1>u, Frames
<1>H. \A b \in Arrays : Holders(b)' = Holders(b)
  BY Kinds, <1>u, <1>e_pc, <1>g, <1>a, <1>z, <1>d, HoldersSame
<1>O. \A b \in Arrays : Counted(b)' = Counted(b)
  BY Kinds, Calls, <1>u, <1>e_pc, <1>g, <1>a, <1>z, <1>d, CountedSame
<1>SetLocks. SetLocks'
  BY Parts, Kinds, <1>u, <1>e_lock, <1>e_pc, <1>g, <1>a, <1>z, <1>d DEF SetLocks
<1>ListLocks. ListLocks'
  BY Parts, Kinds, <1>u, <1>e_pc, <1>g, <1>a, <1>z, <1>d DEF ListLocks
<1>Unlinking. Unlinking'
  BY Parts, <1>u, <1>e_pc, <1>g, <1>a, <1>z, <1>d DEF Unlinking
<1>Removing. Removing'
  BY Parts, Calls, Kinds, <1>u, <1>e_pc, <1>g, <1>a, <1>z, <1>d DEF Removing
<1>HeldSets. HeldSets'
  BY Parts, Sites, <1>u, <1>e_pc, <1>g, <1>a, <1>z, <1>d DEF HeldSets
<1>GoneSets. GoneSets'
  BY Parts, Sites, Calls, <1>u, <1>e_pc, <1>g, <1>a, <1>z, <1>d DEF GoneSets
<1>ReferencesCovered. ReferencesCovered'
  BY Parts, <1>H, <1>O, <1>t, <1>u, <1>e_pc, <1>g, <1>a, <1>z, <1>d, HoldersFinite DEF
    ReferencesCovered
<1>Loaded. Loaded'
  BY Parts, Sites, <1>H, Calls, <1>t, <1>u, <1>e_pc, <1>g, <1>a, <1>z, <1>d, HoldersFinite DEF Loaded
<1>KeptSets. KeptSets'
  BY Parts, Sites, <1>u, <1>e_pc, <1>g, <1>a, <1>z, <1>d DEF KeptSets, Kept
<1>KeptUndo. KeptUndo'
  BY Parts, Undos, <1>u, <1>e_store, <1>e_pc, <1>g, <1>a, <1>z, <1>d DEF KeptUndo, Kept
<1>ExitList. ExitList'
  BY Parts, Kinds, Calls, <1>u, <1>e_pc, <1>g, <1>a, <1>z, <1>d DEF ExitList, Users
<1>OwnList. OwnList'
  BY Parts, Kinds, Calls, <1>u, <1>e_pc, <1>g, <1>a, <1>z, <1>d DEF OwnList
<1>LinkedLive. LinkedLive'
  BY Parts, <1>u, <1>e_store, <1>g, <1>a, <1>z, <1>d DEF LinkedLive
<1>BothLists. BothLists'
  BY Parts, <1>u, <1>e_store, <1>g, <1>a, <1>z, <1>d DEF BothLists
<1>OneList. OneList'
  BY Parts, Kinds, <1>u, <1>e_pc, <1>g, <1>a, <1>z, <1>d DEF OneList
<1>Unlinked. Unlinked'
  BY Parts, Undos, <1>u, <1>e_store, <1>e_pc, <1>g, <1>a, <1>z, <1>d DEF Unlinked
<1>OwnUndo. OwnUndo'
  BY Parts, Undos, Sites, <1>u, <1>e_store, <1>e_pc, <1>g, <1>a, <1>z, <1>d DEF OwnUndo
<1>UsedSems. UsedSems'
  BY Parts, <1>O, <1>u, <1>e_pc DEF UsedSems
<1> QED BY <1>T, <1>c, <1>f, <1>SetLocks, <1>ListLocks, <1>Unlinking, <1>Removing, <1>HeldSets,
  <1>GoneSets, <1>ReferencesCovered, <1>Loaded, <1>KeptSets, <1>KeptUndo, <1>ExitList, <1>OwnList,
  <1>LinkedLive, <1>BothLists, <1>OneList, <1>Unlinked, <1>OwnUndo, <1>UsedSems DEF IInv, LockInv,
  SetInv, RefInv, RcuInv, ListInv, LinkInv

(* An operation is queued and its task sleeps.                             *)
LEMMA IInv_semop_sleep ==
    ASSUME IInv, NEW p \in Procs, semop_sleep(p)
    PROVE  IInv'
<1> USE DEF Holding, Waiting, Referring, WakingUp
<1>t. /\ sem_pending \in [Arrays -> Seq(Tasks)] /\ complex_count \in [Arrays -> Int]
      /\ grace \in [Arrays -> SUBSET Procs] /\ lock \in [Arrays -> Procs \cup {NoProc}]
      /\ readers \subseteq Procs /\ un \in Uns /\ pc \in [Procs -> Labels]
      /\ cmd \in [Procs -> Cmds \cup {"none", "SEMOP", "EXIT"}]
      /\ sma \in [Procs -> Arrays \cup {NoArr}]
      /\ undo \in [Procs -> [list : Tasks \cup {NoProc}, set : Arrays \cup {NoArr}]]
      /\ status \in [Procs -> Errors \cup {"IN_WAKEUP"}] /\ state \in [Procs -> {"RUN", "INT"}]
  BY Parts, UnType DEF TypeInv
<1>c. CallInv'
  <2>1. Next
    BY Kinds DEF Next, Step
  <2> QED BY Parts, <2>1, CallStep
<1>g. /\ pc[p] = "lock" /\ sma[p] \in Arrays /\ lock[sma[p]] = NoProc /\ p \in readers
      /\ ~deleted[sma[p]] /\ mem[sma[p]] = "live" /\ Counted(sma[p]) /\ IdOf[sma[p]] = semid[p]
  <2>1. Found(p, "lock")
    BY DEF semop_sleep
  <2> QED BY Parts, <2>1, FoundSet
<1>a. PICK a \in Arrays : a = sma[p]
  BY Parts, <1>g, Locals
<1>z. p \in Tasks /\ cmd[p] = "SEMOP"
  BY Parts, <1>g, Locals DEF QueuePcs
<1>u. /\ UNCHANGED <<semval, mem, refcount, deleted, lock, idr, used_sems, rw_mutex, list_id,
                     list_proc, undo_list, ulp, refcnt, ulp_lock, cmd, sops, semid, sma, undo, outcome,
                     sig, timedout, tasks, idx, semnum, walk, ref, res>>
  BY <1>t, <1>g, <1>a, <1>z DEF semop_sleep, Goto, args, lists, ns, scanv, ulpv
<1>e_sem_pending. /\ sem_pending' \in [Arrays -> Seq(Tasks)] /\ \A b \in Arrays : b # a => sem_pending'[b] = sem_pending[b] 
  <2>1. sem_pending[a] \in Seq(Tasks)
    BY <1>t
  <2>2. Enqueue(a, p) \in Seq(Tasks)
    <3>1. PICK s \in Seq(Tasks) : s = sem_pending[a]
        BY <2>1
    <3>2. Append(s, p) \in Seq(Tasks) /\ <<p>> \o s \in Seq(Tasks)
        BY <1>z, ConsEntries, AppendEntries
    <3> QED BY <3>1, <3>2 DEF Enqueue
  <2> QED BY <1>t, <1>a, <2>2 DEF semop_sleep
<1>e_complex_count. /\ complex_count' \in [Arrays -> Int] /\ \A b \in Arrays : b # a => complex_count'[b] = complex_count[b]
  BY Parts, <1>t, Kinds, <1>g, <1>a, <1>z DEF semop_sleep, Goto
<1>e_status. /\ status' \in [Procs -> Errors \cup {"IN_WAKEUP"}] /\ status'[p] = "EINTR" /\ \A q \in Procs : q # p => status'[q] = status[q]
  BY Parts, <1>t, Kinds, <1>g, <1>a, <1>z DEF semop_sleep, Goto, Errors
<1>e_state. /\ state' \in [Procs -> {"RUN", "INT"}] /\ state'[p] = "INT" /\ \A q \in Procs : q # p => state'[q] = state[q]
  BY Parts, <1>t, Kinds, <1>g, <1>a, <1>z DEF semop_sleep, Goto
<1>e_leave. /\ readers' = readers \ {p} /\ readers' \subseteq Procs
            /\ grace' \in [Arrays -> SUBSET Procs] /\ un' \in Uns
            /\ \A b \in Arrays : grace'[b] = grace[b] \ {p}
            /\ \A v \in Tasks, b \in Arrays :
                 /\ un'[v][b].mem = un[v][b].mem /\ un'[v][b].valid = un[v][b].valid
                 /\ un'[v][b].grace = un[v][b].grace \ {p}
  <2>1. Leave(p)
    BY <1>t, <1>g, <1>a, <1>z DEF semop_sleep
  <2> QED BY Parts, <2>1, LeaveEffect
<1>e_pc. /\ pc' \in [Procs -> Labels] /\ pc'[p] = "sleep" /\ \A q \in Procs : q # p => pc'[q] = pc[q]
  BY Parts, <1>t, Kinds, <1>g, <1>a, <1>z DEF semop_sleep, Goto, Labels
<1>T. TypeInv'
  BY Parts, <1>u, <1>e_sem_pending, <1>e_complex_count, <1>e_status, <1>e_state, <1>e_leave,
    <1>e_pc DEF TypeInv, Uns, UnRecs
<1>f. /\ SetLife' /\ InTable' /\ HasUndos' /\ TableSets' /\ RefNat' /\ UserCount' /\ FreshList'
      /\ OnceLinked'
  BY Parts, <1>u, Frames
<1>H. \A b \in Arrays : Holders(b)' = Holders(b)
  BY Kinds, <1>u, <1>e_pc, <1>g, <1>a, <1>z, HoldersSame
<1>O. \A b \in Arrays : Counted(b)' = Counted(b)
  BY Kinds, Calls, <1>u, <1>e_pc, <1>g, <1>a, <1>z, CountedSame
<1>SetLocks. SetLocks'
  BY Parts, Kinds, <1>u, <1>e_pc, <1>g, <1>a, <1>z DEF SetLocks
<1>ListLocks. ListLocks'
  BY Parts, Kinds, <1>u, <1>e_pc, <1>g, <1>a, <1>z DEF ListLocks
<1>Unlinking. Unlinking'
  BY Parts, <1>u, <1>e_pc, <1>g, <1>a, <1>z DEF Unlinking
<1>Removing. Removing'
  BY Parts, Calls, Kinds, <1>u, <1>e_pc, <1>g, <1>a, <1>z DEF Removing
<1>HeldSets. HeldSets'
  BY Parts, Sites, <1>u, <1>e_pc, <1>g, <1>a, <1>z DEF HeldSets
<1>GoneSets. GoneSets'
  BY Parts, Sites, Calls, <1>u, <1>e_pc, <1>g, <1>a, <1>z DEF GoneSets
<1>ReferencesCovered. ReferencesCovered'
  BY Parts, <1>H, <1>O, <1>t, <1>u, <1>e_pc, <1>g, <1>a, <1>z, HoldersFinite DEF ReferencesCovered
<1>Loaded. Loaded'
  <2> SUFFICES ASSUME NEW q \in Procs, pc'[q] = "put" PROVE (ref[q] >= Cardinality(Holders(sma[q])))'
    BY DEF Loaded
  <2>1. q # p /\ pc[q] = "put" /\ sma'[q] = sma[q] /\ ref'[q] = ref[q] /\ sma[q] \in Arrays
    BY <1>u, Sites, <1>e_pc
  <2>2. PICK b \in Arrays : b = sma[q]
    BY <2>1
  <2>3. ref[q] >= Cardinality(Holders(b)) /\ ref[q] \in Int
    BY Parts, <2>1, <2>2 DEF Loaded, TypeInv
  <2>4. Holders(sma[q])' = Holders(b)'
    BY <2>1, <2>2 DEF Holders
  <2>5. Cardinality(Holders(b)') = Cardinality(Holders(b)) \/ Cardinality(Holders(b)') = Cardinality(Holders(b)) - 1
    BY <1>H
  <2>6. Cardinality(Holders(b)) \in Nat
    BY HoldersFinite
  <2> QED BY <2>1, <2>3, <2>4, <2>5, <2>6
<1>KeptSets. KeptSets'
  BY Parts, Sites, <1>u, <1>e_leave, <1>e_pc, <1>g, <1>a, <1>z DEF KeptSets, Kept
<1>KeptUndo. KeptUndo'
  BY Parts, Undos, <1>u, <1>e_leave, <1>e_pc, <1>g, <1>a, <1>z DEF KeptUndo, Kept
<1>ExitList. ExitList'
  BY Parts, Kinds, Calls, <1>u, <1>e_pc, <1>g, <1>a, <1>z DEF ExitList, Users
<1>OwnList. OwnList'
  BY Parts, Kinds, Calls, <1>u, <1>e_pc, <1>g, <1>a, <1>z DEF OwnList
<1>LinkedLive. LinkedLive'
  BY Parts, <1>u, <1>e_leave, <1>g, <1>a, <1>z DEF LinkedLive
<1>BothLists. BothLists'
  BY Parts, <1>u, <1>e_leave, <1>g, <1>a, <1>z DEF BothLists
<1>OneList. OneList'
  BY Parts, Kinds, <1>u, <1>e_pc, <1>g, <1>a, <1>z DEF OneList
<1>Unlinked. Unlinked'
  BY Parts, Undos, <1>u, <1>e_leave, <1>e_pc, <1>g, <1>a, <1>z DEF Unlinked
<1>OwnUndo. OwnUndo'
  BY Parts, Undos, Sites, <1>u, <1>e_leave, <1>e_pc, <1>g, <1>a, <1>z DEF OwnUndo
<1>UsedSems. UsedSems'
  BY Parts, <1>O, <1>u, <1>e_pc DEF UsedSems
<1> QED BY <1>T, <1>c, <1>f, <1>SetLocks, <1>ListLocks, <1>Unlinking, <1>Removing, <1>HeldSets,
  <1>GoneSets, <1>ReferencesCovered, <1>Loaded, <1>KeptSets, <1>KeptUndo, <1>ExitList, <1>OwnList,
  <1>LinkedLive, <1>BothLists, <1>OneList, <1>Unlinked, <1>OwnUndo, <1>UsedSems DEF IInv, LockInv,
  SetInv, RefInv, RcuInv, ListInv, LinkInv

(* schedule() returns.                                                     *)
LEMMA IInv_semop_wake ==
    ASSUME IInv, NEW p \in Procs, semop_wake(p)
    PROVE  IInv'
<1> USE DEF Holding, Waiting, Referring, WakingUp
<1>t. /\ lock \in [Arrays -> Procs \cup {NoProc}] /\ pc \in [Procs -> Labels]
      /\ cmd \in [Procs -> Cmds \cup {"none", "SEMOP", "EXIT"}]
      /\ sma \in [Procs -> Arrays \cup {NoArr}]
      /\ undo \in [Procs -> [list : Tasks \cup {NoProc}, set : Arrays \cup {NoArr}]]
      /\ state \in [Procs -> {"RUN", "INT"}] /\ timedout \subseteq Tasks
  BY Parts, UnType DEF TypeInv
<1>c. CallInv'
  <2>1. Next
    BY Kinds DEF Next, Step
  <2> QED BY Parts, <2>1, CallStep
<1>g. pc[p] = "sleep"
  BY DEF semop_wake
<1>z. p \in Tasks /\ cmd[p] = "SEMOP"
  BY Parts, <1>g, Locals DEF QueuePcs
<1>u. /\ UNCHANGED <<semval, sem_pending, complex_count, mem, refcount, deleted, grace, lock, idr,
                     used_sems, rw_mutex, list_id, list_proc, readers, undo_list, ulp, refcnt,
                     ulp_lock, un, cmd, sops, semid, sma, undo, status, outcome, sig, tasks, idx,
                     semnum, walk, ref, res>>
  BY <1>t, <1>g, <1>z DEF semop_wake, Goto, args, arrayv, life, lists, ns, queue, scanv, ulpv
<1>e_state. /\ state' \in [Procs -> {"RUN", "INT"}] /\ state'[p] = "RUN" /\ \A q \in Procs : q # p => state'[q] = state[q]
  BY Parts, <1>t, Kinds, <1>g, <1>z DEF semop_wake, Goto
<1>e_pc. /\ pc' \in [Procs -> Labels] /\ pc'[p] = "result" /\ \A q \in Procs : q # p => pc'[q] = pc[q]
  BY Parts, <1>t, Kinds, <1>g, <1>z DEF semop_wake, Goto, Labels
<1>e_timedout. timedout' \subseteq Tasks
  BY <1>t, <1>z DEF semop_wake
<1>T. TypeInv'
  BY Parts, <1>u, <1>e_state, <1>e_pc, <1>e_timedout DEF TypeInv, Uns, UnRecs
<1>f. /\ SetLife' /\ InTable' /\ HasUndos' /\ TableSets' /\ RefNat' /\ UserCount' /\ FreshList'
      /\ OnceLinked' /\ LinkedLive' /\ BothLists'
  BY Parts, <1>u, Frames
<1>H. \A b \in Arrays : Holders(b)' = Holders(b)
  BY Kinds, <1>u, <1>e_pc, <1>g, <1>z, HoldersSame
<1>O. \A b \in Arrays : Counted(b)' = Counted(b)
  BY Kinds, Calls, <1>u, <1>e_pc, <1>g, <1>z, CountedSame
<1>SetLocks. SetLocks'
  BY Parts, Kinds, <1>u, <1>e_pc, <1>g, <1>z DEF SetLocks
<1>ListLocks. ListLocks'
  BY Parts, Kinds, <1>u, <1>e_pc, <1>g, <1>z DEF ListLocks
<1>Unlinking. Unlinking'
  BY Parts, <1>u, <1>e_pc, <1>g, <1>z DEF Unlinking
<1>Removing. Removing'
  BY Parts, Calls, Kinds, <1>u, <1>e_pc, <1>g, <1>z DEF Removing
<1>HeldSets. HeldSets'
  BY Parts, Sites, <1>u, <1>e_pc, <1>g, <1>z DEF HeldSets
<1>GoneSets. GoneSets'
  BY Parts, Sites, Calls, <1>u, <1>e_pc, <1>g, <1>z DEF GoneSets
<1>ReferencesCovered. ReferencesCovered'
  BY Parts, <1>H, <1>O, <1>t, <1>u, <1>e_pc, <1>g, <1>z, HoldersFinite DEF ReferencesCovered
<1>Loaded. Loaded'
  BY Parts, Sites, <1>H, Calls, <1>t, <1>u, <1>e_pc, <1>g, <1>z, HoldersFinite DEF Loaded
<1>KeptSets. KeptSets'
  BY Parts, Sites, <1>u, <1>e_pc, <1>g, <1>z DEF KeptSets, Kept
<1>KeptUndo. KeptUndo'
  BY Parts, Undos, <1>u, <1>e_pc, <1>g, <1>z DEF KeptUndo, Kept
<1>ExitList. ExitList'
  BY Parts, Kinds, Calls, <1>u, <1>e_pc, <1>g, <1>z DEF ExitList, Users
<1>OwnList. OwnList'
  BY Parts, Kinds, Calls, <1>u, <1>e_pc, <1>g, <1>z DEF OwnList
<1>OneList. OneList'
  BY Parts, Kinds, <1>u, <1>e_pc, <1>g, <1>z DEF OneList
<1>Unlinked. Unlinked'
  BY Parts, Undos, <1>u, <1>e_pc, <1>g, <1>z DEF Unlinked
<1>OwnUndo. OwnUndo'
  BY Parts, Undos, Sites, <1>u, <1>e_pc, <1>g, <1>z DEF OwnUndo
<1>UsedSems. UsedSems'
  BY Parts, <1>O, <1>u, <1>e_pc DEF UsedSems
<1> QED BY <1>T, <1>c, <1>f, <1>SetLocks, <1>ListLocks, <1>Unlinking, <1>Removing, <1>HeldSets,
  <1>GoneSets, <1>ReferencesCovered, <1>Loaded, <1>KeptSets, <1>KeptUndo, <1>ExitList, <1>OwnList,
  <1>OneList, <1>Unlinked, <1>OwnUndo, <1>UsedSems DEF IInv, LockInv, SetInv, RefInv, RcuInv,
  ListInv, LinkInv

(* get_queue_result() without the lock has a result.                       *)
LEMMA IInv_semop_result_done ==
    ASSUME IInv, NEW p \in Procs, semop_result(p), status[p] # "EINTR"
    PROVE  IInv'
<1> USE DEF Holding, Waiting, Referring, WakingUp
<1>t. /\ lock \in [Arrays -> Procs \cup {NoProc}] /\ pc \in [Procs -> Labels]
      /\ cmd \in [Procs -> Cmds \cup {"none", "SEMOP", "EXIT"}]
      /\ sma \in [Procs -> Arrays \cup {NoArr}]
      /\ undo \in [Procs -> [list : Tasks \cup {NoProc}, set : Arrays \cup {NoArr}]]
      /\ sig \subseteq Tasks
  BY Parts, UnType DEF TypeInv
<1>c. CallInv'
  <2>1. Next
    BY Kinds DEF Next, Step
  <2> QED BY Parts, <2>1, CallStep
<1>g. pc[p] = "result"
  BY DEF semop_result
<1>u. /\ UNCHANGED <<semval, sem_pending, complex_count, mem, refcount, deleted, grace, lock, idr,
                     used_sems, rw_mutex, list_id, list_proc, readers, undo_list, ulp, refcnt,
                     ulp_lock, un, cmd, sops, semid, sma, undo, status, outcome, state, timedout,
                     tasks, idx, semnum, walk, ref>>
  BY <1>t, <1>g DEF semop_result, Return, Goto, args, arrayv, life, lists, ns, queue, scanv, ulpv
<1>e_pc. /\ pc' \in [Procs -> Labels] /\ pc'[p] = "ret" /\ \A q \in Procs : q # p => pc'[q] = pc[q]
  BY Parts, <1>t, Kinds, <1>g DEF semop_result, Return, Goto, Labels
<1>e_sig. sig' = (sig \ {p}) /\ sig' \subseteq Tasks
  BY Parts, <1>t, Kinds, <1>g DEF semop_result, Return, Goto
<1>T. TypeInv'
  BY Parts, <1>u, <1>e_pc, <1>e_sig DEF TypeInv, Uns, UnRecs
<1>f. /\ SetLife' /\ InTable' /\ HasUndos' /\ TableSets' /\ RefNat' /\ UserCount' /\ FreshList'
      /\ OnceLinked' /\ LinkedLive' /\ BothLists'
  BY Parts, <1>u, Frames
<1>H. \A b \in Arrays : Holders(b)' = Holders(b)
  BY Kinds, <1>u, <1>e_pc, <1>g, HoldersSame
<1>O. \A b \in Arrays : Counted(b)' = Counted(b)
  BY Kinds, Calls, <1>u, <1>e_pc, <1>g, CountedSame
<1>SetLocks. SetLocks'
  BY Parts, Kinds, <1>u, <1>e_pc, <1>g DEF SetLocks
<1>ListLocks. ListLocks'
  BY Parts, Kinds, <1>u, <1>e_pc, <1>g DEF ListLocks
<1>Unlinking. Unlinking'
  BY Parts, <1>u, <1>e_pc, <1>g DEF Unlinking
<1>Removing. Removing'
  BY Parts, Calls, Kinds, <1>u, <1>e_pc, <1>g DEF Removing
<1>HeldSets. HeldSets'
  BY Parts, Sites, <1>u, <1>e_pc, <1>g DEF HeldSets
<1>GoneSets. GoneSets'
  BY Parts, Sites, Calls, <1>u, <1>e_pc, <1>g DEF GoneSets
<1>ReferencesCovered. ReferencesCovered'
  BY Parts, <1>H, <1>O, <1>t, <1>u, <1>e_pc, <1>g, HoldersFinite DEF ReferencesCovered
<1>Loaded. Loaded'
  BY Parts, Sites, <1>H, Calls, <1>t, <1>u, <1>e_pc, <1>g, HoldersFinite DEF Loaded
<1>KeptSets. KeptSets'
  BY Parts, Sites, <1>u, <1>e_pc, <1>g DEF KeptSets, Kept
<1>KeptUndo. KeptUndo'
  BY Parts, Undos, <1>u, <1>e_pc, <1>g DEF KeptUndo, Kept
<1>ExitList. ExitList'
  BY Parts, Kinds, Calls, <1>u, <1>e_pc, <1>g DEF ExitList, Users
<1>OwnList. OwnList'
  BY Parts, Kinds, Calls, <1>u, <1>e_pc, <1>g DEF OwnList
<1>OneList. OneList'
  BY Parts, Kinds, <1>u, <1>e_pc, <1>g DEF OneList
<1>Unlinked. Unlinked'
  BY Parts, Undos, <1>u, <1>e_pc, <1>g DEF Unlinked
<1>OwnUndo. OwnUndo'
  BY Parts, Undos, Sites, <1>u, <1>e_pc, <1>g DEF OwnUndo
<1>UsedSems. UsedSems'
  BY Parts, <1>O, <1>u, <1>e_pc DEF UsedSems
<1> QED BY <1>T, <1>c, <1>f, <1>SetLocks, <1>ListLocks, <1>Unlinking, <1>Removing, <1>HeldSets,
  <1>GoneSets, <1>ReferencesCovered, <1>Loaded, <1>KeptSets, <1>KeptUndo, <1>ExitList, <1>OwnList,
  <1>OneList, <1>Unlinked, <1>OwnUndo, <1>UsedSems DEF IInv, LockInv, SetInv, RefInv, RcuInv,
  ListInv, LinkInv

(* Without a result the task goes back to the lock.                        *)
LEMMA IInv_semop_result_look ==
    ASSUME IInv, NEW p \in Procs, semop_result(p), status[p] = "EINTR"
    PROVE  IInv'
<1> USE DEF Holding, Waiting, Referring, WakingUp
<1>t. /\ lock \in [Arrays -> Procs \cup {NoProc}] /\ pc \in [Procs -> Labels]
      /\ cmd \in [Procs -> Cmds \cup {"none", "SEMOP", "EXIT"}]
      /\ sma \in [Procs -> Arrays \cup {NoArr}]
      /\ undo \in [Procs -> [list : Tasks \cup {NoProc}, set : Arrays \cup {NoArr}]]
  BY Parts, UnType DEF TypeInv
<1>c. CallInv'
  <2>1. Next
    BY Kinds DEF Next, Step
  <2> QED BY Parts, <2>1, CallStep
<1>g. pc[p] = "result"
  BY DEF semop_result
<1>u. /\ UNCHANGED <<semval, sem_pending, complex_count, mem, refcount, deleted, grace, lock, idr,
                     used_sems, rw_mutex, list_id, list_proc, readers, undo_list, ulp, refcnt,
                     ulp_lock, un, cmd, sops, semid, sma, undo, status, outcome, state, sig, timedout,
                     tasks, idx, semnum, walk, ref>>
  BY <1>t, <1>g DEF semop_result, Return, Goto, args, arrayv, life, lists, ns, queue, scanv, ulpv
<1>e_pc. /\ pc' \in [Procs -> Labels] /\ pc'[p] = "rfind" /\ \A q \in Procs : q # p => pc'[q] = pc[q]
  BY Parts, <1>t, Kinds, <1>g DEF semop_result, Return, Goto, Labels
<1>T. TypeInv'
  BY Parts, <1>u, <1>e_pc DEF TypeInv, Uns, UnRecs
<1>f. /\ SetLife' /\ InTable' /\ HasUndos' /\ TableSets' /\ RefNat' /\ UserCount' /\ FreshList'
      /\ OnceLinked' /\ LinkedLive' /\ BothLists'
  BY Parts, <1>u, Frames
<1>H. \A b \in Arrays : Holders(b)' = Holders(b)
  BY Kinds, <1>u, <1>e_pc, <1>g, HoldersSame
<1>O. \A b \in Arrays : Counted(b)' = Counted(b)
  BY Kinds, Calls, <1>u, <1>e_pc, <1>g, CountedSame
<1>SetLocks. SetLocks'
  BY Parts, Kinds, <1>u, <1>e_pc, <1>g DEF SetLocks
<1>ListLocks. ListLocks'
  BY Parts, Kinds, <1>u, <1>e_pc, <1>g DEF ListLocks
<1>Unlinking. Unlinking'
  BY Parts, <1>u, <1>e_pc, <1>g DEF Unlinking
<1>Removing. Removing'
  BY Parts, Calls, Kinds, <1>u, <1>e_pc, <1>g DEF Removing
<1>HeldSets. HeldSets'
  BY Parts, Sites, <1>u, <1>e_pc, <1>g DEF HeldSets
<1>GoneSets. GoneSets'
  BY Parts, Sites, Calls, <1>u, <1>e_pc, <1>g DEF GoneSets
<1>ReferencesCovered. ReferencesCovered'
  BY Parts, <1>H, <1>O, <1>t, <1>u, <1>e_pc, <1>g, HoldersFinite DEF ReferencesCovered
<1>Loaded. Loaded'
  BY Parts, Sites, <1>H, Calls, <1>t, <1>u, <1>e_pc, <1>g, HoldersFinite DEF Loaded
<1>KeptSets. KeptSets'
  BY Parts, Sites, <1>u, <1>e_pc, <1>g DEF KeptSets, Kept
<1>KeptUndo. KeptUndo'
  BY Parts, Undos, <1>u, <1>e_pc, <1>g DEF KeptUndo, Kept
<1>ExitList. ExitList'
  BY Parts, Kinds, Calls, <1>u, <1>e_pc, <1>g DEF ExitList, Users
<1>OwnList. OwnList'
  BY Parts, Kinds, Calls, <1>u, <1>e_pc, <1>g DEF OwnList
<1>OneList. OneList'
  BY Parts, Kinds, <1>u, <1>e_pc, <1>g DEF OneList
<1>Unlinked. Unlinked'
  BY Parts, Undos, <1>u, <1>e_pc, <1>g DEF Unlinked
<1>OwnUndo. OwnUndo'
  BY Parts, Undos, Sites, <1>u, <1>e_pc, <1>g DEF OwnUndo
<1>UsedSems. UsedSems'
  BY Parts, <1>O, <1>u, <1>e_pc DEF UsedSems
<1> QED BY <1>T, <1>c, <1>f, <1>SetLocks, <1>ListLocks, <1>Unlinking, <1>Removing, <1>HeldSets,
  <1>GoneSets, <1>ReferencesCovered, <1>Loaded, <1>KeptSets, <1>KeptUndo, <1>ExitList, <1>OwnList,
  <1>OneList, <1>Unlinked, <1>OwnUndo, <1>UsedSems DEF IInv, LockInv, SetInv, RefInv, RcuInv,
  ListInv, LinkInv

(* The task has the lock again.                                            *)
LEMMA IInv_semop_relock ==
    ASSUME IInv, NEW p \in Procs, semop_relock(p)
    PROVE  IInv'
<1> USE DEF Holding, Waiting, Referring, WakingUp
<1>t. /\ lock \in [Arrays -> Procs \cup {NoProc}] /\ pc \in [Procs -> Labels]
      /\ cmd \in [Procs -> Cmds \cup {"none", "SEMOP", "EXIT"}]
      /\ sma \in [Procs -> Arrays \cup {NoArr}]
      /\ undo \in [Procs -> [list : Tasks \cup {NoProc}, set : Arrays \cup {NoArr}]]
  BY Parts, UnType DEF TypeInv
<1>c. CallInv'
  <2>1. Next
    BY Kinds DEF Next, Step
  <2> QED BY Parts, <2>1, CallStep
<1>g. /\ pc[p] = "relock" /\ sma[p] \in Arrays /\ lock[sma[p]] = NoProc /\ p \in readers
      /\ ~deleted[sma[p]] /\ mem[sma[p]] = "live" /\ Counted(sma[p])
  <2>1. Found(p, "relock")
    BY DEF semop_relock
  <2> QED BY Parts, <2>1, FoundSet
<1>a. PICK a \in Arrays : a = sma[p]
  BY Parts, <1>g, Locals
<1>u. /\ UNCHANGED <<semval, sem_pending, complex_count, mem, refcount, deleted, grace, idr, used_sems,
                     rw_mutex, list_id, list_proc, readers, undo_list, ulp, refcnt, ulp_lock, un, cmd,
                     sops, semid, sma, undo, status, outcome, state, sig, timedout, tasks, idx, semnum,
                     walk, ref, res>>
  BY <1>t, <1>g, <1>a DEF semop_relock, Goto, args, arrayv, life, lists, ns, queue, scanv, sched,
    ulpv
<1>e_lock. /\ lock' \in [Arrays -> Procs \cup {NoProc}] /\ lock'[a] = p /\ \A b \in Arrays : b # a => lock'[b] = lock[b]
  BY Parts, <1>t, Kinds, <1>g, <1>a DEF semop_relock, Goto
<1>e_pc. /\ pc' \in [Procs -> Labels] /\ pc'[p] = "recheck" /\ \A q \in Procs : q # p => pc'[q] = pc[q]
  BY Parts, <1>t, Kinds, <1>g, <1>a DEF semop_relock, Goto, Labels
<1>T. TypeInv'
  BY Parts, <1>u, <1>e_lock, <1>e_pc DEF TypeInv, Uns, UnRecs
<1>f. /\ SetLife' /\ InTable' /\ HasUndos' /\ TableSets' /\ RefNat' /\ UserCount' /\ FreshList'
      /\ OnceLinked' /\ LinkedLive' /\ BothLists'
  BY Parts, <1>u, Frames
<1>H. \A b \in Arrays : Holders(b)' = Holders(b)
  BY Kinds, <1>u, <1>e_pc, <1>g, <1>a, HoldersSame
<1>O. \A b \in Arrays : Counted(b)' = Counted(b)
  BY Kinds, Calls, <1>u, <1>e_pc, <1>g, <1>a, CountedSame
<1>SetLocks. SetLocks'
  BY Parts, Kinds, <1>u, <1>e_lock, <1>e_pc, <1>g, <1>a DEF SetLocks
<1>ListLocks. ListLocks'
  BY Parts, Kinds, <1>u, <1>e_pc, <1>g, <1>a DEF ListLocks
<1>Unlinking. Unlinking'
  BY Parts, <1>u, <1>e_pc, <1>g, <1>a DEF Unlinking
<1>Removing. Removing'
  BY Parts, Calls, Kinds, <1>u, <1>e_pc, <1>g, <1>a DEF Removing
<1>HeldSets. HeldSets'
  BY Parts, Sites, <1>u, <1>e_pc, <1>g, <1>a DEF HeldSets
<1>GoneSets. GoneSets'
  BY Parts, Sites, Calls, <1>u, <1>e_pc, <1>g, <1>a DEF GoneSets
<1>ReferencesCovered. ReferencesCovered'
  BY Parts, <1>H, <1>O, <1>t, <1>u, <1>e_pc, <1>g, <1>a, HoldersFinite DEF ReferencesCovered
<1>Loaded. Loaded'
  BY Parts, Sites, <1>H, Calls, <1>t, <1>u, <1>e_pc, <1>g, <1>a, HoldersFinite DEF Loaded
<1>KeptSets. KeptSets'
  BY Parts, Sites, <1>u, <1>e_pc, <1>g, <1>a DEF KeptSets, Kept
<1>KeptUndo. KeptUndo'
  BY Parts, Undos, <1>u, <1>e_pc, <1>g, <1>a DEF KeptUndo, Kept
<1>ExitList. ExitList'
  BY Parts, Kinds, Calls, <1>u, <1>e_pc, <1>g, <1>a DEF ExitList, Users
<1>OwnList. OwnList'
  BY Parts, Kinds, Calls, <1>u, <1>e_pc, <1>g, <1>a DEF OwnList
<1>OneList. OneList'
  BY Parts, Kinds, <1>u, <1>e_pc, <1>g, <1>a DEF OneList
<1>Unlinked. Unlinked'
  BY Parts, Undos, <1>u, <1>e_pc, <1>g, <1>a DEF Unlinked
<1>OwnUndo. OwnUndo'
  BY Parts, Undos, Sites, <1>u, <1>e_pc, <1>g, <1>a DEF OwnUndo
<1>UsedSems. UsedSems'
  BY Parts, <1>O, <1>u, <1>e_pc DEF UsedSems
<1> QED BY <1>T, <1>c, <1>f, <1>SetLocks, <1>ListLocks, <1>Unlinking, <1>Removing, <1>HeldSets,
  <1>GoneSets, <1>ReferencesCovered, <1>Loaded, <1>KeptSets, <1>KeptUndo, <1>ExitList, <1>OwnList,
  <1>OneList, <1>Unlinked, <1>OwnUndo, <1>UsedSems DEF IInv, LockInv, SetInv, RefInv, RcuInv,
  ListInv, LinkInv

(* The result has come before the lock.                                    *)
LEMMA IInv_semop_recheck_done ==
    ASSUME IInv, NEW p \in Procs, semop_recheck(p), status[p] # "EINTR"
    PROVE  IInv'
<1> USE DEF Holding, Waiting, Referring, WakingUp
<1>t. /\ grace \in [Arrays -> SUBSET Procs] /\ lock \in [Arrays -> Procs \cup {NoProc}]
      /\ readers \subseteq Procs /\ un \in Uns /\ pc \in [Procs -> Labels]
      /\ cmd \in [Procs -> Cmds \cup {"none", "SEMOP", "EXIT"}]
      /\ sma \in [Procs -> Arrays \cup {NoArr}]
      /\ undo \in [Procs -> [list : Tasks \cup {NoProc}, set : Arrays \cup {NoArr}]]
      /\ sig \subseteq Tasks
  BY Parts, UnType DEF TypeInv
<1>c. CallInv'
  <2>1. Next
    BY Kinds DEF Next, Step
  <2> QED BY Parts, <2>1, CallStep
<1>g. pc[p] = "recheck"
  BY DEF semop_recheck
<1>a. PICK a \in Arrays : a = sma[p]
  BY Parts, <1>g, Locals
<1>u. /\ UNCHANGED <<semval, sem_pending, complex_count, mem, refcount, deleted, idr, used_sems,
                     rw_mutex, list_id, list_proc, undo_list, ulp, refcnt, ulp_lock, cmd, sops, semid,
                     sma, undo, status, outcome, state, timedout, tasks, idx, semnum, walk, ref>>
  BY <1>t, <1>g, <1>a DEF semop_recheck, Return, Goto, unlink_queue, args, lists, ns, queue, scanv,
    ulpv
<1>e_pc. /\ pc' \in [Procs -> Labels] /\ pc'[p] = "ret" /\ \A q \in Procs : q # p => pc'[q] = pc[q]
  BY Parts, <1>t, Kinds, <1>g, <1>a DEF semop_recheck, Return, Goto, Labels
<1>e_sig. sig' = (sig \ {p}) /\ sig' \subseteq Tasks
  BY Parts, <1>t, Kinds, <1>g, <1>a DEF semop_recheck, Return, Goto
<1>e_leave. /\ readers' = readers \ {p} /\ readers' \subseteq Procs
            /\ grace' \in [Arrays -> SUBSET Procs] /\ un' \in Uns
            /\ \A b \in Arrays : grace'[b] = grace[b] \ {p}
            /\ \A v \in Tasks, b \in Arrays :
                 /\ un'[v][b].mem = un[v][b].mem /\ un'[v][b].valid = un[v][b].valid
                 /\ un'[v][b].grace = un[v][b].grace \ {p}
  <2>1. Leave(p)
    BY <1>t, <1>g, <1>a DEF semop_recheck
  <2> QED BY Parts, <2>1, LeaveEffect
<1>e_lock. /\ lock' \in [Arrays -> Procs \cup {NoProc}] /\ lock'[a] = NoProc /\ \A b \in Arrays : b # a => lock'[b] = lock[b]
  BY Parts, <1>t, Kinds, <1>g, <1>a DEF semop_recheck, Return, Goto
<1>T. TypeInv'
  BY Parts, <1>u, <1>e_pc, <1>e_sig, <1>e_leave, <1>e_lock DEF TypeInv, Uns, UnRecs
<1>f. /\ SetLife' /\ InTable' /\ HasUndos' /\ TableSets' /\ RefNat' /\ UserCount' /\ FreshList'
      /\ OnceLinked'
  BY Parts, <1>u, Frames
<1>H. \A b \in Arrays : Holders(b)' = Holders(b)
  BY Kinds, <1>u, <1>e_pc, <1>g, <1>a, HoldersSame
<1>O. \A b \in Arrays : Counted(b)' = Counted(b)
  BY Kinds, Calls, <1>u, <1>e_pc, <1>g, <1>a, CountedSame
<1>SetLocks. SetLocks'
  BY Parts, Kinds, <1>u, <1>e_lock, <1>e_pc, <1>g, <1>a DEF SetLocks
<1>ListLocks. ListLocks'
  BY Parts, Kinds, <1>u, <1>e_pc, <1>g, <1>a DEF ListLocks
<1>Unlinking. Unlinking'
  BY Parts, <1>u, <1>e_pc, <1>g, <1>a DEF Unlinking
<1>Removing. Removing'
  BY Parts, Calls, Kinds, <1>u, <1>e_pc, <1>g, <1>a DEF Removing
<1>HeldSets. HeldSets'
  BY Parts, Sites, <1>u, <1>e_pc, <1>g, <1>a DEF HeldSets
<1>GoneSets. GoneSets'
  BY Parts, Sites, Calls, <1>u, <1>e_pc, <1>g, <1>a DEF GoneSets
<1>ReferencesCovered. ReferencesCovered'
  BY Parts, <1>H, <1>O, <1>t, <1>u, <1>e_pc, <1>g, <1>a, HoldersFinite DEF ReferencesCovered
<1>Loaded. Loaded'
  BY Parts, Sites, <1>H, Calls, <1>t, <1>u, <1>e_pc, <1>g, <1>a, HoldersFinite DEF Loaded
<1>KeptSets. KeptSets'
  BY Parts, Sites, <1>u, <1>e_leave, <1>e_pc, <1>g, <1>a DEF KeptSets, Kept
<1>KeptUndo. KeptUndo'
  BY Parts, Undos, <1>u, <1>e_leave, <1>e_pc, <1>g, <1>a DEF KeptUndo, Kept
<1>ExitList. ExitList'
  BY Parts, Kinds, Calls, <1>u, <1>e_pc, <1>g, <1>a DEF ExitList, Users
<1>OwnList. OwnList'
  BY Parts, Kinds, Calls, <1>u, <1>e_pc, <1>g, <1>a DEF OwnList
<1>LinkedLive. LinkedLive'
  BY Parts, <1>u, <1>e_leave, <1>g, <1>a DEF LinkedLive
<1>BothLists. BothLists'
  BY Parts, <1>u, <1>e_leave, <1>g, <1>a DEF BothLists
<1>OneList. OneList'
  BY Parts, Kinds, <1>u, <1>e_pc, <1>g, <1>a DEF OneList
<1>Unlinked. Unlinked'
  BY Parts, Undos, <1>u, <1>e_leave, <1>e_pc, <1>g, <1>a DEF Unlinked
<1>OwnUndo. OwnUndo'
  BY Parts, Undos, Sites, <1>u, <1>e_leave, <1>e_pc, <1>g, <1>a DEF OwnUndo
<1>UsedSems. UsedSems'
  BY Parts, <1>O, <1>u, <1>e_pc DEF UsedSems
<1> QED BY <1>T, <1>c, <1>f, <1>SetLocks, <1>ListLocks, <1>Unlinking, <1>Removing, <1>HeldSets,
  <1>GoneSets, <1>ReferencesCovered, <1>Loaded, <1>KeptSets, <1>KeptUndo, <1>ExitList, <1>OwnList,
  <1>LinkedLive, <1>BothLists, <1>OneList, <1>Unlinked, <1>OwnUndo, <1>UsedSems DEF IInv, LockInv,
  SetInv, RefInv, RcuInv, ListInv, LinkInv

(* The task unlinks its own operation.                                     *)
LEMMA IInv_semop_recheck_unlink ==
    ASSUME IInv, NEW p \in Procs, semop_recheck(p), status[p] = "EINTR"
    PROVE  IInv'
<1> USE DEF Holding, Waiting, Referring, WakingUp
<1>t. /\ sem_pending \in [Arrays -> Seq(Tasks)] /\ complex_count \in [Arrays -> Int]
      /\ grace \in [Arrays -> SUBSET Procs] /\ lock \in [Arrays -> Procs \cup {NoProc}]
      /\ readers \subseteq Procs /\ un \in Uns /\ pc \in [Procs -> Labels]
      /\ cmd \in [Procs -> Cmds \cup {"none", "SEMOP", "EXIT"}]
      /\ sma \in [Procs -> Arrays \cup {NoArr}]
      /\ undo \in [Procs -> [list : Tasks \cup {NoProc}, set : Arrays \cup {NoArr}]]
      /\ sig \subseteq Tasks
  BY Parts, UnType DEF TypeInv
<1>c. CallInv'
  <2>1. Next
    BY Kinds DEF Next, Step
  <2> QED BY Parts, <2>1, CallStep
<1>g. pc[p] = "recheck"
  BY DEF semop_recheck
<1>a. PICK a \in Arrays : a = sma[p]
  BY Parts, <1>g, Locals
<1>u. /\ UNCHANGED <<semval, mem, refcount, deleted, idr, used_sems, rw_mutex, list_id, list_proc,
                     undo_list, ulp, refcnt, ulp_lock, cmd, sops, semid, sma, undo, status, outcome,
                     state, timedout, tasks, idx, semnum, walk, ref>>
  BY <1>t, <1>g, <1>a DEF semop_recheck, Return, Goto, unlink_queue, args, lists, ns, queue, scanv,
    ulpv
<1>e_pc. /\ pc' \in [Procs -> Labels] /\ pc'[p] = "ret" /\ \A q \in Procs : q # p => pc'[q] = pc[q]
  BY Parts, <1>t, Kinds, <1>g, <1>a DEF semop_recheck, Return, Goto, Labels
<1>e_sig. sig' = (sig \ {p}) /\ sig' \subseteq Tasks
  BY Parts, <1>t, Kinds, <1>g, <1>a DEF semop_recheck, Return, Goto
<1>e_leave. /\ readers' = readers \ {p} /\ readers' \subseteq Procs
            /\ grace' \in [Arrays -> SUBSET Procs] /\ un' \in Uns
            /\ \A b \in Arrays : grace'[b] = grace[b] \ {p}
            /\ \A v \in Tasks, b \in Arrays :
                 /\ un'[v][b].mem = un[v][b].mem /\ un'[v][b].valid = un[v][b].valid
                 /\ un'[v][b].grace = un[v][b].grace \ {p}
  <2>1. Leave(p)
    BY <1>t, <1>g, <1>a DEF semop_recheck
  <2> QED BY Parts, <2>1, LeaveEffect
<1>e_lock. /\ lock' \in [Arrays -> Procs \cup {NoProc}] /\ lock'[a] = NoProc /\ \A b \in Arrays : b # a => lock'[b] = lock[b]
  BY Parts, <1>t, Kinds, <1>g, <1>a DEF semop_recheck, Return, Goto
<1>e_queue. sem_pending' \in [Arrays -> Seq(Tasks)] /\ complex_count' \in [Arrays -> Int]
  <2>1. unlink_queue(a, p)
    BY <1>a DEF semop_recheck
  <2>2. sem_pending \in [Arrays -> Seq(Tasks)] /\ complex_count \in [Arrays -> Int]
    BY <1>t
  <2>3. PICK s \in Seq(Tasks) : s = sem_pending[a]
    BY <2>2
  <2>4. PICK w \in Seq(Tasks) : w = RemoveFirst(s, p)
    BY RemoveFirstType
  <2> QED BY <1>a, <2>1, <2>2, <2>3, <2>4 DEF unlink_queue
<1>T. TypeInv'
  BY Parts, <1>u, <1>e_pc, <1>e_sig, <1>e_leave, <1>e_lock, <1>e_queue DEF TypeInv, Uns, UnRecs
<1>f. /\ SetLife' /\ InTable' /\ HasUndos' /\ TableSets' /\ RefNat' /\ UserCount' /\ FreshList'
      /\ OnceLinked'
  BY Parts, <1>u, Frames
<1>H. \A b \in Arrays : Holders(b)' = Holders(b)
  BY Kinds, <1>u, <1>e_pc, <1>g, <1>a, HoldersSame
<1>O. \A b \in Arrays : Counted(b)' = Counted(b)
  BY Kinds, Calls, <1>u, <1>e_pc, <1>g, <1>a, CountedSame
<1>SetLocks. SetLocks'
  BY Parts, Kinds, <1>u, <1>e_lock, <1>e_pc, <1>g, <1>a DEF SetLocks
<1>ListLocks. ListLocks'
  BY Parts, Kinds, <1>u, <1>e_pc, <1>g, <1>a DEF ListLocks
<1>Unlinking. Unlinking'
  BY Parts, <1>u, <1>e_pc, <1>g, <1>a DEF Unlinking
<1>Removing. Removing'
  BY Parts, Calls, Kinds, <1>u, <1>e_pc, <1>g, <1>a DEF Removing
<1>HeldSets. HeldSets'
  BY Parts, Sites, <1>u, <1>e_pc, <1>g, <1>a DEF HeldSets
<1>GoneSets. GoneSets'
  BY Parts, Sites, Calls, <1>u, <1>e_pc, <1>g, <1>a DEF GoneSets
<1>ReferencesCovered. ReferencesCovered'
  BY Parts, <1>H, <1>O, <1>t, <1>u, <1>e_pc, <1>g, <1>a, HoldersFinite DEF ReferencesCovered
<1>Loaded. Loaded'
  BY Parts, Sites, <1>H, Calls, <1>t, <1>u, <1>e_pc, <1>g, <1>a, HoldersFinite DEF Loaded
<1>KeptSets. KeptSets'
  BY Parts, Sites, <1>u, <1>e_leave, <1>e_pc, <1>g, <1>a DEF KeptSets, Kept
<1>KeptUndo. KeptUndo'
  BY Parts, Undos, <1>u, <1>e_leave, <1>e_pc, <1>g, <1>a DEF KeptUndo, Kept
<1>ExitList. ExitList'
  BY Parts, Kinds, Calls, <1>u, <1>e_pc, <1>g, <1>a DEF ExitList, Users
<1>OwnList. OwnList'
  BY Parts, Kinds, Calls, <1>u, <1>e_pc, <1>g, <1>a DEF OwnList
<1>LinkedLive. LinkedLive'
  BY Parts, <1>u, <1>e_leave, <1>g, <1>a DEF LinkedLive
<1>BothLists. BothLists'
  BY Parts, <1>u, <1>e_leave, <1>g, <1>a DEF BothLists
<1>OneList. OneList'
  BY Parts, Kinds, <1>u, <1>e_pc, <1>g, <1>a DEF OneList
<1>Unlinked. Unlinked'
  BY Parts, Undos, <1>u, <1>e_leave, <1>e_pc, <1>g, <1>a DEF Unlinked
<1>OwnUndo. OwnUndo'
  BY Parts, Undos, Sites, <1>u, <1>e_leave, <1>e_pc, <1>g, <1>a DEF OwnUndo
<1>UsedSems. UsedSems'
  BY Parts, <1>O, <1>u, <1>e_pc DEF UsedSems
<1> QED BY <1>T, <1>c, <1>f, <1>SetLocks, <1>ListLocks, <1>Unlinking, <1>Removing, <1>HeldSets,
  <1>GoneSets, <1>ReferencesCovered, <1>Loaded, <1>KeptSets, <1>KeptUndo, <1>ExitList, <1>OwnList,
  <1>LinkedLive, <1>BothLists, <1>OneList, <1>Unlinked, <1>OwnUndo, <1>UsedSems DEF IInv, LockInv,
  SetInv, RefInv, RcuInv, ListInv, LinkInv

(* do_smart_update() starts a walk of update_queue().                      *)
LEMMA IInv_smart_scan ==
    ASSUME IInv, NEW p \in Procs, do_smart_update(p), pc'[p] = "scan"
    PROVE  IInv'
<1> USE DEF Holding, Waiting, Referring, WakingUp
<1>t. /\ lock \in [Arrays -> Procs \cup {NoProc}] /\ pc \in [Procs -> Labels]
      /\ cmd \in [Procs -> Cmds \cup {"none", "SEMOP", "EXIT"}]
      /\ sma \in [Procs -> Arrays \cup {NoArr}]
      /\ undo \in [Procs -> [list : Tasks \cup {NoProc}, set : Arrays \cup {NoArr}]]
      /\ idx \in [Procs -> Nat] /\ semnum \in [Procs -> Sems \cup {-1}] /\ walk \in [Procs -> Nat]
  BY Parts, UnType DEF TypeInv
<1>c. CallInv'
  <2>1. Next
    BY Kinds DEF Next, Step
  <2> QED BY Parts, <2>1, CallStep
<1>g. pc[p] = "smart"
  BY DEF do_smart_update
<1>a. PICK a \in Arrays : a = sma[p]
  BY Parts, <1>g, Locals
<1>d. PICK n \in Sems \cup {-1}, i \in Nat : Scan(p, n, i)
  <2>0. PICK T : T = {j \in DOMAIN sops[p] : j >= idx[p] /\ MayHelp(a, sops[p][j])}
    OBVIOUS
  <2>1. \/ Scan(p, -1, 0)
        \/ T # {} /\ Scan(p, sops[p][Min(T)].num, Min(T) + 1)
    BY <1>t, <1>a, <2>0 DEF do_smart_update, Goto
  <2>2. sops[p] \in Seq(SopSet)
    <3>1. sops[p] \in SopSeqs \cup {<<>>}
        BY Parts DEF TypeInv
    <3>2. SopSeqs \subseteq Seq(SopSet) /\ <<>> \in Seq(SopSet)
        BY SemConstants
    <3> QED BY <3>1, <3>2
  <2>3. ASSUME T # {} PROVE sops[p][Min(T)].num \in Sems /\ Min(T) + 1 \in Nat
    <3>1. T \subseteq Nat /\ T \subseteq DOMAIN sops[p]
        BY <2>0, <2>2
    <3>2. Min(T) \in T
        BY <2>3, <3>1, MinOfNats
    <3>3. sops[p][Min(T)] \in SopSet
      <4>1. \A j \in DOMAIN sops[p] : sops[p][j] \in SopSet
        BY <2>2
      <4> QED BY <3>1, <3>2, <4>1
    <3>4. Min(T) \in Nat
        BY <3>1, <3>2
    <3> QED BY <3>3, <3>4 DEF SopSet
  <2> QED BY <2>1, <2>3
<1>u. /\ UNCHANGED <<semval, sem_pending, complex_count, mem, refcount, deleted, grace, lock, idr,
                     used_sems, rw_mutex, list_id, list_proc, readers, undo_list, ulp, refcnt,
                     ulp_lock, un, cmd, sops, semid, sma, undo, status, outcome, state, sig, timedout,
                     tasks, ref, res>>
  BY <1>t, <1>d DEF do_smart_update, Scan, Goto, args, arrayv, lists, ns, queue, sched, ulpv
<1>e_pc. /\ pc' \in [Procs -> Labels] /\ pc'[p] = "scan" /\ \A q \in Procs : q # p => pc'[q] = pc[q] 
  BY <1>t, <1>d DEF Scan, Goto, Labels
<1>e_idx. /\ idx' \in [Procs -> Nat] /\ idx'[p] = i /\ \A q \in Procs : q # p => idx'[q] = idx[q] 
  BY <1>t, <1>d DEF Scan
<1>e_walk. /\ walk' \in [Procs -> Nat] /\ walk'[p] = 1 /\ \A q \in Procs : q # p => walk'[q] = walk[q] 
  BY <1>t, <1>d DEF Scan
<1>e_semnum. /\ semnum' \in [Procs -> Sems \cup {-1}] /\ \A q \in Procs : q # p => semnum'[q] = semnum[q] 
  BY <1>t, <1>d DEF Scan
<1>T. TypeInv'
  BY Parts, <1>u, <1>e_pc, <1>e_idx, <1>e_walk, <1>e_semnum DEF TypeInv, Uns, UnRecs
<1>f. /\ SetLife' /\ InTable' /\ HasUndos' /\ TableSets' /\ RefNat' /\ UserCount' /\ FreshList'
      /\ OnceLinked' /\ LinkedLive' /\ BothLists'
  BY Parts, <1>u, Frames
<1>H. \A b \in Arrays : Holders(b)' = Holders(b)
  BY Kinds, <1>u, <1>e_pc, <1>g, <1>a, HoldersSame
<1>O. \A b \in Arrays : Counted(b)' = Counted(b)
  BY Kinds, Calls, <1>u, <1>e_pc, <1>g, <1>a, CountedSame
<1>SetLocks. SetLocks'
  BY Parts, Kinds, <1>u, <1>e_pc, <1>g, <1>a DEF SetLocks
<1>ListLocks. ListLocks'
  BY Parts, Kinds, <1>u, <1>e_pc, <1>g, <1>a DEF ListLocks
<1>Unlinking. Unlinking'
  BY Parts, <1>u, <1>e_pc, <1>g, <1>a DEF Unlinking
<1>Removing. Removing'
  BY Parts, Calls, Kinds, <1>u, <1>e_pc, <1>g, <1>a DEF Removing
<1>HeldSets. HeldSets'
  BY Parts, Sites, <1>u, <1>e_pc, <1>g, <1>a DEF HeldSets
<1>GoneSets. GoneSets'
  BY Parts, Sites, Calls, <1>u, <1>e_pc, <1>g, <1>a DEF GoneSets
<1>ReferencesCovered. ReferencesCovered'
  BY Parts, <1>H, <1>O, <1>t, <1>u, <1>e_pc, <1>g, <1>a, HoldersFinite DEF ReferencesCovered
<1>Loaded. Loaded'
  BY Parts, Sites, <1>H, Calls, <1>t, <1>u, <1>e_pc, <1>g, <1>a, HoldersFinite DEF Loaded
<1>KeptSets. KeptSets'
  BY Parts, Sites, <1>u, <1>e_pc, <1>g, <1>a DEF KeptSets, Kept
<1>KeptUndo. KeptUndo'
  BY Parts, Undos, <1>u, <1>e_pc, <1>g, <1>a DEF KeptUndo, Kept
<1>ExitList. ExitList'
  BY Parts, Kinds, Calls, <1>u, <1>e_pc, <1>g, <1>a DEF ExitList, Users
<1>OwnList. OwnList'
  BY Parts, Kinds, Calls, <1>u, <1>e_pc, <1>g, <1>a DEF OwnList
<1>OneList. OneList'
  BY Parts, Kinds, <1>u, <1>e_pc, <1>g, <1>a DEF OneList
<1>Unlinked. Unlinked'
  BY Parts, Undos, <1>u, <1>e_pc, <1>g, <1>a DEF Unlinked
<1>OwnUndo. OwnUndo'
  BY Parts, Undos, Sites, <1>u, <1>e_pc, <1>g, <1>a DEF OwnUndo
<1>UsedSems. UsedSems'
  BY Parts, <1>O, <1>u, <1>e_pc DEF UsedSems
<1> QED BY <1>T, <1>c, <1>f, <1>SetLocks, <1>ListLocks, <1>Unlinking, <1>Removing, <1>HeldSets,
  <1>GoneSets, <1>ReferencesCovered, <1>Loaded, <1>KeptSets, <1>KeptUndo, <1>ExitList, <1>OwnList,
  <1>OneList, <1>Unlinked, <1>OwnUndo, <1>UsedSems DEF IInv, LockInv, SetInv, RefInv, RcuInv,
  ListInv, LinkInv

(* do_smart_update() unlocks.                                              *)
LEMMA IInv_smart_end ==
    ASSUME IInv, NEW p \in Procs, do_smart_update(p), pc'[p] # "scan"
    PROVE  IInv'
<1> USE DEF Holding, Waiting, Referring, WakingUp
<1>t. /\ grace \in [Arrays -> SUBSET Procs] /\ lock \in [Arrays -> Procs \cup {NoProc}]
      /\ readers \subseteq Procs /\ un \in Uns /\ pc \in [Procs -> Labels]
      /\ cmd \in [Procs -> Cmds \cup {"none", "SEMOP", "EXIT"}]
      /\ sma \in [Procs -> Arrays \cup {NoArr}]
      /\ undo \in [Procs -> [list : Tasks \cup {NoProc}, set : Arrays \cup {NoArr}]]
  BY Parts, UnType DEF TypeInv
<1>c. CallInv'
  <2>1. Next
    BY Kinds DEF Next, Step
  <2> QED BY Parts, <2>1, CallStep
<1>g. pc[p] = "smart"
  BY DEF do_smart_update
<1>a. PICK a \in Arrays : a = sma[p]
  BY Parts, <1>g, Locals
<1>d. lock' = [lock EXCEPT ![a] = NoProc] /\ Leave(p) /\ Goto(p, "wake") /\ UNCHANGED <<semnum, walk, idx>>
  BY <1>t, <1>a DEF do_smart_update, Scan, Goto
<1>u. /\ UNCHANGED <<semval, sem_pending, complex_count, mem, refcount, deleted, idr, used_sems,
                     rw_mutex, list_id, list_proc, undo_list, ulp, refcnt, ulp_lock, cmd, sops, semid,
                     sma, undo, status, outcome, state, sig, timedout, tasks, idx, semnum, walk, ref,
                     res>>
  BY <1>d DEF do_smart_update, Scan, Goto, args, arrayv, lists, ns, queue, sched, ulpv
<1>e_lock. /\ lock' \in [Arrays -> Procs \cup {NoProc}] /\ lock'[a] = NoProc /\ \A b \in Arrays : b # a => lock'[b] = lock[b]
  BY Parts, <1>t, Kinds, <1>g, <1>a, <1>d DEF do_smart_update, Scan, Goto
<1>e_pc. /\ pc' \in [Procs -> Labels] /\ pc'[p] = "wake" /\ \A q \in Procs : q # p => pc'[q] = pc[q]
  BY Parts, <1>t, Kinds, <1>g, <1>a, <1>d DEF do_smart_update, Scan, Goto, Labels
<1>e_leave. /\ readers' = readers \ {p} /\ readers' \subseteq Procs
            /\ grace' \in [Arrays -> SUBSET Procs] /\ un' \in Uns
            /\ \A b \in Arrays : grace'[b] = grace[b] \ {p}
            /\ \A v \in Tasks, b \in Arrays :
                 /\ un'[v][b].mem = un[v][b].mem /\ un'[v][b].valid = un[v][b].valid
                 /\ un'[v][b].grace = un[v][b].grace \ {p}
  <2>1. Leave(p)
    BY <1>t, <1>g, <1>a, <1>d DEF do_smart_update
  <2> QED BY Parts, <2>1, LeaveEffect
<1>T. TypeInv'
  BY Parts, <1>u, <1>e_lock, <1>e_pc, <1>e_leave DEF TypeInv, Uns, UnRecs
<1>f. /\ SetLife' /\ InTable' /\ HasUndos' /\ TableSets' /\ RefNat' /\ UserCount' /\ FreshList'
      /\ OnceLinked'
  BY Parts, <1>u, Frames
<1>H. \A b \in Arrays : Holders(b)' = Holders(b)
  BY Kinds, <1>u, <1>e_pc, <1>g, <1>a, HoldersSame
<1>O. \A b \in Arrays : Counted(b)' = Counted(b)
  BY Kinds, Calls, <1>u, <1>e_pc, <1>g, <1>a, CountedSame
<1>SetLocks. SetLocks'
  BY Parts, Kinds, <1>u, <1>e_lock, <1>e_pc, <1>g, <1>a DEF SetLocks
<1>ListLocks. ListLocks'
  BY Parts, Kinds, <1>u, <1>e_pc, <1>g, <1>a DEF ListLocks
<1>Unlinking. Unlinking'
  BY Parts, <1>u, <1>e_pc, <1>g, <1>a DEF Unlinking
<1>Removing. Removing'
  BY Parts, Calls, Kinds, <1>u, <1>e_pc, <1>g, <1>a DEF Removing
<1>HeldSets. HeldSets'
  BY Parts, Sites, <1>u, <1>e_pc, <1>g, <1>a DEF HeldSets
<1>GoneSets. GoneSets'
  BY Parts, Sites, Calls, <1>u, <1>e_pc, <1>g, <1>a DEF GoneSets
<1>ReferencesCovered. ReferencesCovered'
  BY Parts, <1>H, <1>O, <1>t, <1>u, <1>e_pc, <1>g, <1>a, HoldersFinite DEF ReferencesCovered
<1>Loaded. Loaded'
  BY Parts, Sites, <1>H, Calls, <1>t, <1>u, <1>e_pc, <1>g, <1>a, HoldersFinite DEF Loaded
<1>KeptSets. KeptSets'
  BY Parts, Sites, <1>u, <1>e_leave, <1>e_pc, <1>g, <1>a DEF KeptSets, Kept
<1>KeptUndo. KeptUndo'
  BY Parts, Undos, <1>u, <1>e_leave, <1>e_pc, <1>g, <1>a DEF KeptUndo, Kept
<1>ExitList. ExitList'
  BY Parts, Kinds, Calls, <1>u, <1>e_pc, <1>g, <1>a DEF ExitList, Users
<1>OwnList. OwnList'
  BY Parts, Kinds, Calls, <1>u, <1>e_pc, <1>g, <1>a DEF OwnList
<1>LinkedLive. LinkedLive'
  BY Parts, <1>u, <1>e_leave, <1>g, <1>a DEF LinkedLive
<1>BothLists. BothLists'
  BY Parts, <1>u, <1>e_leave, <1>g, <1>a DEF BothLists
<1>OneList. OneList'
  BY Parts, Kinds, <1>u, <1>e_pc, <1>g, <1>a DEF OneList
<1>Unlinked. Unlinked'
  BY Parts, Undos, <1>u, <1>e_leave, <1>e_pc, <1>g, <1>a DEF Unlinked
<1>OwnUndo. OwnUndo'
  BY Parts, Undos, Sites, <1>u, <1>e_leave, <1>e_pc, <1>g, <1>a DEF OwnUndo
<1>UsedSems. UsedSems'
  BY Parts, <1>O, <1>u, <1>e_pc DEF UsedSems
<1> QED BY <1>T, <1>c, <1>f, <1>SetLocks, <1>ListLocks, <1>Unlinking, <1>Removing, <1>HeldSets,
  <1>GoneSets, <1>ReferencesCovered, <1>Loaded, <1>KeptSets, <1>KeptUndo, <1>ExitList, <1>OwnList,
  <1>LinkedLive, <1>BothLists, <1>OneList, <1>Unlinked, <1>OwnUndo, <1>UsedSems DEF IInv, LockInv,
  SetInv, RefInv, RcuInv, ListInv, LinkInv

(* The walk of update_queue() ends.                                        *)
LEMMA IInv_update_end ==
    ASSUME IInv, NEW p \in Procs, update_end(p)
    PROVE  IInv'
<1> USE DEF Holding, Waiting, Referring, WakingUp
<1>t. /\ lock \in [Arrays -> Procs \cup {NoProc}] /\ pc \in [Procs -> Labels]
      /\ cmd \in [Procs -> Cmds \cup {"none", "SEMOP", "EXIT"}]
      /\ sma \in [Procs -> Arrays \cup {NoArr}]
      /\ undo \in [Procs -> [list : Tasks \cup {NoProc}, set : Arrays \cup {NoArr}]]
  BY Parts, UnType DEF TypeInv
<1>c. CallInv'
  <2>1. Next
    BY Kinds DEF Next, Step
  <2> QED BY Parts, <2>1, CallStep
<1>g. pc[p] = "scan"
  BY DEF update_end
<1>a. PICK a \in Arrays : a = sma[p]
  BY Parts, <1>g, Locals
<1>u. /\ UNCHANGED <<semval, sem_pending, complex_count, mem, refcount, deleted, grace, lock, idr,
                     used_sems, rw_mutex, list_id, list_proc, readers, undo_list, ulp, refcnt,
                     ulp_lock, un, cmd, sops, semid, sma, undo, status, outcome, state, sig, timedout,
                     tasks, idx, semnum, walk, ref, res>>
  BY <1>t, <1>g, <1>a DEF update_end, Goto, args, arrayv, life, lists, ns, queue, scanv, sched,
    ulpv
<1>e_pc. /\ pc' \in [Procs -> Labels] /\ pc'[p] = "smart" /\ \A q \in Procs : q # p => pc'[q] = pc[q]
  BY Parts, <1>t, Kinds, <1>g, <1>a DEF update_end, Goto, Labels
<1>T. TypeInv'
  BY Parts, <1>u, <1>e_pc DEF TypeInv, Uns, UnRecs
<1>f. /\ SetLife' /\ InTable' /\ HasUndos' /\ TableSets' /\ RefNat' /\ UserCount' /\ FreshList'
      /\ OnceLinked' /\ LinkedLive' /\ BothLists'
  BY Parts, <1>u, Frames
<1>H. \A b \in Arrays : Holders(b)' = Holders(b)
  BY Kinds, <1>u, <1>e_pc, <1>g, <1>a, HoldersSame
<1>O. \A b \in Arrays : Counted(b)' = Counted(b)
  BY Kinds, Calls, <1>u, <1>e_pc, <1>g, <1>a, CountedSame
<1>SetLocks. SetLocks'
  BY Parts, Kinds, <1>u, <1>e_pc, <1>g, <1>a DEF SetLocks
<1>ListLocks. ListLocks'
  BY Parts, Kinds, <1>u, <1>e_pc, <1>g, <1>a DEF ListLocks
<1>Unlinking. Unlinking'
  BY Parts, <1>u, <1>e_pc, <1>g, <1>a DEF Unlinking
<1>Removing. Removing'
  BY Parts, Calls, Kinds, <1>u, <1>e_pc, <1>g, <1>a DEF Removing
<1>HeldSets. HeldSets'
  BY Parts, Sites, <1>u, <1>e_pc, <1>g, <1>a DEF HeldSets
<1>GoneSets. GoneSets'
  BY Parts, Sites, Calls, <1>u, <1>e_pc, <1>g, <1>a DEF GoneSets
<1>ReferencesCovered. ReferencesCovered'
  BY Parts, <1>H, <1>O, <1>t, <1>u, <1>e_pc, <1>g, <1>a, HoldersFinite DEF ReferencesCovered
<1>Loaded. Loaded'
  BY Parts, Sites, <1>H, Calls, <1>t, <1>u, <1>e_pc, <1>g, <1>a, HoldersFinite DEF Loaded
<1>KeptSets. KeptSets'
  BY Parts, Sites, <1>u, <1>e_pc, <1>g, <1>a DEF KeptSets, Kept
<1>KeptUndo. KeptUndo'
  BY Parts, Undos, <1>u, <1>e_pc, <1>g, <1>a DEF KeptUndo, Kept
<1>ExitList. ExitList'
  BY Parts, Kinds, Calls, <1>u, <1>e_pc, <1>g, <1>a DEF ExitList, Users
<1>OwnList. OwnList'
  BY Parts, Kinds, Calls, <1>u, <1>e_pc, <1>g, <1>a DEF OwnList
<1>OneList. OneList'
  BY Parts, Kinds, <1>u, <1>e_pc, <1>g, <1>a DEF OneList
<1>Unlinked. Unlinked'
  BY Parts, Undos, <1>u, <1>e_pc, <1>g, <1>a DEF Unlinked
<1>OwnUndo. OwnUndo'
  BY Parts, Undos, Sites, <1>u, <1>e_pc, <1>g, <1>a DEF OwnUndo
<1>UsedSems. UsedSems'
  BY Parts, <1>O, <1>u, <1>e_pc DEF UsedSems
<1> QED BY <1>T, <1>c, <1>f, <1>SetLocks, <1>ListLocks, <1>Unlinking, <1>Removing, <1>HeldSets,
  <1>GoneSets, <1>ReferencesCovered, <1>Loaded, <1>KeptSets, <1>KeptUndo, <1>ExitList, <1>OwnList,
  <1>OneList, <1>Unlinked, <1>OwnUndo, <1>UsedSems DEF IInv, LockInv, SetInv, RefInv, RcuInv,
  ListInv, LinkInv

(* update_queue() goes past an operation that has to wait.                 *)
LEMMA IInv_update_skip ==
    ASSUME IInv, NEW p \in Procs, update_skip(p)
    PROVE  IInv'
<1> USE DEF Holding, Waiting, Referring, WakingUp
<1>t. /\ lock \in [Arrays -> Procs \cup {NoProc}] /\ pc \in [Procs -> Labels]
      /\ cmd \in [Procs -> Cmds \cup {"none", "SEMOP", "EXIT"}]
      /\ sma \in [Procs -> Arrays \cup {NoArr}]
      /\ undo \in [Procs -> [list : Tasks \cup {NoProc}, set : Arrays \cup {NoArr}]]
      /\ walk \in [Procs -> Nat]
  BY Parts, UnType DEF TypeInv
<1>c. CallInv'
  <2>1. Next
    BY Kinds DEF Next, Step
  <2> QED BY Parts, <2>1, CallStep
<1>g. pc[p] = "scan"
  BY DEF update_skip
<1>a. PICK a \in Arrays : a = sma[p]
  BY Parts, <1>g, Locals
<1>u. /\ UNCHANGED <<semval, sem_pending, complex_count, mem, refcount, deleted, grace, lock, idr,
                     used_sems, rw_mutex, list_id, list_proc, readers, undo_list, ulp, refcnt,
                     ulp_lock, un, pc, cmd, sops, semid, sma, undo, status, outcome, state, sig,
                     timedout, tasks, idx, semnum, ref, res>>
  BY <1>t, <1>g, <1>a DEF update_skip, args, arrayv, life, lists, ns, queue, sched, ulpv
<1>e_walk. /\ walk' \in [Procs -> Nat] /\ walk'[p] = walk[p] + 1 /\ \A q \in Procs : q # p => walk'[q] = walk[q]
  BY Parts, <1>t, Kinds, <1>g, <1>a DEF update_skip
<1>T. TypeInv'
  BY Parts, <1>u, <1>e_walk DEF TypeInv, Uns, UnRecs
<1>f. /\ SetLocks' /\ ListLocks' /\ Unlinking' /\ Removing' /\ SetLife' /\ InTable' /\ HasUndos'
      /\ TableSets' /\ HeldSets' /\ GoneSets' /\ ReferencesCovered' /\ RefNat' /\ Loaded'
      /\ KeptSets' /\ KeptUndo' /\ UserCount' /\ ExitList' /\ FreshList' /\ OwnList' /\ OnceLinked'
      /\ LinkedLive' /\ BothLists' /\ OneList' /\ Unlinked' /\ OwnUndo' /\ UsedSems'
  BY Parts, <1>u, Frames
<1> QED BY <1>T, <1>c, <1>f DEF IInv, LockInv, SetInv, RefInv, RcuInv, ListInv, LinkInv

(* update_queue() completes a pending operation.                           *)
LEMMA IInv_update_complete ==
    ASSUME IInv, NEW p \in Procs, update_complete(p)
    PROVE  IInv'
<1> USE DEF Holding, Waiting, Referring, WakingUp
<1>t. /\ semval \in [Arrays -> Values] /\ sem_pending \in [Arrays -> Seq(Tasks)]
      /\ complex_count \in [Arrays -> Int] /\ lock \in [Arrays -> Procs \cup {NoProc}] /\ un \in Uns
      /\ pc \in [Procs -> Labels] /\ cmd \in [Procs -> Cmds \cup {"none", "SEMOP", "EXIT"}]
      /\ sma \in [Procs -> Arrays \cup {NoArr}]
      /\ undo \in [Procs -> [list : Tasks \cup {NoProc}, set : Arrays \cup {NoArr}]]
      /\ status \in [Procs -> Errors \cup {"IN_WAKEUP"}] /\ outcome \in [Procs -> Errors]
      /\ tasks \in [Procs -> Seq(Tasks)] /\ walk \in [Procs -> Nat]
  BY Parts, UnType DEF TypeInv
<1>c. CallInv'
  <2>1. Next
    BY Kinds DEF Next, Step
  <2> QED BY Parts, <2>1, CallStep
<1>g. pc[p] = "scan"
  BY DEF update_complete
<1>a. PICK a \in Arrays : a = sma[p]
  BY Parts, <1>g, Locals
<1>d. PICK x \in Tasks : x = Next_q(p)
  BY Parts, <1>g, ReachedTask DEF update_complete
<1>e. undo[x].set # NoArr => undo[x].list \in Tasks
  BY Parts, <1>d DEF OwnList
<1>h. PICK z : z = try_atomic_semop(semval[a], AdjOf(x), sops[x])
  OBVIOUS
<1>j. z.res \in {"ok", "block", "EAGAIN", "ERANGE"} /\ z.res # "block"
  <2>1. z.res # "block"
    BY <1>a, <1>d, <1>h DEF update_complete, Retry
  <2> QED BY Parts, Kinds, <1>e, <1>h, <2>1, AttemptType
<1>m. /\ Store(a, x, z.val, z.adj) /\ unlink_queue(a, x)
      /\ status' = [status EXCEPT ![x] = "IN_WAKEUP"]
      /\ outcome' = [outcome EXCEPT ![x] = z.res]
      /\ tasks' = [tasks EXCEPT ![p] = Append(@, x)]
      /\ \E y \in {1, walk[p]} : walk' = [walk EXCEPT ![p] = y]
  BY <1>a, <1>d, <1>h DEF update_complete, Retry
<1>u. /\ UNCHANGED <<mem, refcount, deleted, grace, lock, idr, used_sems, rw_mutex, list_id, list_proc,
                     readers, undo_list, ulp, refcnt, ulp_lock, pc, cmd, sops, semid, sma, undo, state,
                     sig, timedout, idx, semnum, ref, res>>
  BY <1>m DEF update_complete, Store, unlink_queue, args, life, lists, ns, sched, ulpv
<1>e_store. /\ semval' \in [Arrays -> Values] /\ un' \in Uns
            /\ \A v \in Tasks, b \in Arrays :
                 /\ un'[v][b].mem = un[v][b].mem /\ un'[v][b].valid = un[v][b].valid
                 /\ un'[v][b].grace = un[v][b].grace
  <2>1. Store(a, x, try_atomic_semop(semval[a], AdjOf(x), sops[x]).val,
                    try_atomic_semop(semval[a], AdjOf(x), sops[x]).adj)
    BY <1>m, <1>h
  <2>2. x \in Procs
    BY Kinds
  <2> QED BY Parts, <1>e, <2>1, <2>2, StoreAttempt
<1>e_queue. sem_pending' \in [Arrays -> Seq(Tasks)] /\ complex_count' \in [Arrays -> Int]
  <2>1. unlink_queue(a, x)
    BY <1>m DEF update_complete
  <2>2. sem_pending \in [Arrays -> Seq(Tasks)] /\ complex_count \in [Arrays -> Int]
    BY <1>t
  <2>3. PICK s \in Seq(Tasks) : s = sem_pending[a]
    BY <2>2
  <2>4. PICK w \in Seq(Tasks) : w = RemoveFirst(s, x)
    BY RemoveFirstType
  <2> QED BY <1>a, <2>1, <2>2, <2>3, <2>4 DEF unlink_queue
<1>e_status. /\ status' \in [Procs -> Errors \cup {"IN_WAKEUP"}] /\ status'[x] = "IN_WAKEUP" /\ \A q \in Procs : q # x => status'[q] = status[q] 
  BY <1>t, Kinds, <1>m DEF Errors
<1>e_outcome. /\ outcome' \in [Procs -> Errors] /\ outcome'[x] = z.res /\ \A q \in Procs : q # x => outcome'[q] = outcome[q] 
  BY <1>t, Kinds, <1>m, <1>j DEF Errors
<1>e_tasks. /\ tasks' \in [Procs -> Seq(Tasks)] /\ tasks'[p] = Append(tasks[p], x) /\ \A q \in Procs : q # p => tasks'[q] = tasks[q] 
  BY <1>t, <1>m
<1>e_walk. /\ walk' \in [Procs -> Nat] /\ \A q \in Procs : q # p => walk'[q] = walk[q] 
  BY <1>t, <1>m
<1>T. TypeInv'
  BY Parts, <1>u, <1>e_store, <1>e_queue, <1>e_status, <1>e_outcome, <1>e_tasks, <1>e_walk DEF
    TypeInv, Uns, UnRecs
<1>f. /\ SetLocks' /\ ListLocks' /\ Unlinking' /\ Removing' /\ SetLife' /\ InTable' /\ HasUndos'
      /\ TableSets' /\ HeldSets' /\ GoneSets' /\ ReferencesCovered' /\ RefNat' /\ Loaded'
      /\ KeptSets' /\ UserCount' /\ ExitList' /\ FreshList' /\ OwnList' /\ OnceLinked' /\ OneList'
      /\ UsedSems'
  BY Parts, <1>u, Frames
<1>KeptUndo. KeptUndo'
  BY Parts, Undos, <1>u, <1>e_store, <1>g, <1>a, <1>d, <1>e, <1>j DEF KeptUndo, Kept
<1>LinkedLive. LinkedLive'
  BY Parts, <1>u, <1>e_store, <1>g, <1>a, <1>d, <1>e, <1>j DEF LinkedLive
<1>BothLists. BothLists'
  BY Parts, <1>u, <1>e_store, <1>g, <1>a, <1>d, <1>e, <1>j DEF BothLists
<1>Unlinked. Unlinked'
  BY Parts, Undos, <1>u, <1>e_store, <1>g, <1>a, <1>d, <1>e, <1>j DEF Unlinked
<1>OwnUndo. OwnUndo'
  BY Parts, Undos, Sites, <1>u, <1>e_store, <1>g, <1>a, <1>d, <1>e, <1>j DEF OwnUndo
<1> QED BY <1>T, <1>c, <1>f, <1>KeptUndo, <1>LinkedLive, <1>BothLists, <1>Unlinked, <1>OwnUndo DEF
  IInv, LockInv, SetInv, RefInv, RcuInv, ListInv, LinkInv

(* wake_up_process().                                                      *)
LEMMA IInv_wake_next ==
    ASSUME IInv, NEW p \in Procs, wake_next(p)
    PROVE  IInv'
<1> USE DEF Holding, Waiting, Referring, WakingUp
<1>t. /\ lock \in [Arrays -> Procs \cup {NoProc}] /\ pc \in [Procs -> Labels]
      /\ cmd \in [Procs -> Cmds \cup {"none", "SEMOP", "EXIT"}]
      /\ sma \in [Procs -> Arrays \cup {NoArr}]
      /\ undo \in [Procs -> [list : Tasks \cup {NoProc}, set : Arrays \cup {NoArr}]]
      /\ state \in [Procs -> {"RUN", "INT"}]
  BY Parts, UnType DEF TypeInv
<1>c. CallInv'
  <2>1. Next
    BY Kinds DEF Next, Step
  <2> QED BY Parts, <2>1, CallStep
<1>g. pc[p] = "wake"
  BY DEF wake_next
<1>a. PICK a \in Arrays : a = sma[p]
  BY Parts, <1>g, Locals
<1>u. /\ UNCHANGED <<semval, sem_pending, complex_count, mem, refcount, deleted, grace, lock, idr,
                     used_sems, rw_mutex, list_id, list_proc, readers, undo_list, ulp, refcnt,
                     ulp_lock, un, cmd, sops, semid, sma, undo, status, outcome, sig, timedout, tasks,
                     idx, semnum, walk, ref, res>>
  BY <1>t, <1>g, <1>a DEF wake_next, Goto, args, arrayv, life, lists, ns, queue, scanv, ulpv
<1>e_state. state' \in [Procs -> {"RUN", "INT"}]
  BY <1>t DEF wake_next, Woken
<1>e_pc. /\ pc' \in [Procs -> Labels] /\ pc'[p] = "set" /\ \A q \in Procs : q # p => pc'[q] = pc[q]
  BY Parts, <1>t, Kinds, <1>g, <1>a DEF wake_next, Goto, Labels
<1>T. TypeInv'
  BY Parts, <1>u, <1>e_state, <1>e_pc DEF TypeInv, Uns, UnRecs
<1>f. /\ SetLife' /\ InTable' /\ HasUndos' /\ TableSets' /\ RefNat' /\ UserCount' /\ FreshList'
      /\ OnceLinked' /\ LinkedLive' /\ BothLists'
  BY Parts, <1>u, Frames
<1>H. \A b \in Arrays : Holders(b)' = Holders(b)
  BY Kinds, <1>u, <1>e_pc, <1>g, <1>a, HoldersSame
<1>O. \A b \in Arrays : Counted(b)' = Counted(b)
  BY Kinds, Calls, <1>u, <1>e_pc, <1>g, <1>a, CountedSame
<1>SetLocks. SetLocks'
  BY Parts, Kinds, <1>u, <1>e_pc, <1>g, <1>a DEF SetLocks
<1>ListLocks. ListLocks'
  BY Parts, Kinds, <1>u, <1>e_pc, <1>g, <1>a DEF ListLocks
<1>Unlinking. Unlinking'
  BY Parts, <1>u, <1>e_pc, <1>g, <1>a DEF Unlinking
<1>Removing. Removing'
  BY Parts, Calls, Kinds, <1>u, <1>e_pc, <1>g, <1>a DEF Removing
<1>HeldSets. HeldSets'
  BY Parts, Sites, <1>u, <1>e_pc, <1>g, <1>a DEF HeldSets
<1>GoneSets. GoneSets'
  BY Parts, Sites, Calls, <1>u, <1>e_pc, <1>g, <1>a DEF GoneSets
<1>ReferencesCovered. ReferencesCovered'
  BY Parts, <1>H, <1>O, <1>t, <1>u, <1>e_pc, <1>g, <1>a, HoldersFinite DEF ReferencesCovered
<1>Loaded. Loaded'
  BY Parts, Sites, <1>H, Calls, <1>t, <1>u, <1>e_pc, <1>g, <1>a, HoldersFinite DEF Loaded
<1>KeptSets. KeptSets'
  BY Parts, Sites, <1>u, <1>e_pc, <1>g, <1>a DEF KeptSets, Kept
<1>KeptUndo. KeptUndo'
  BY Parts, Undos, <1>u, <1>e_pc, <1>g, <1>a DEF KeptUndo, Kept
<1>ExitList. ExitList'
  BY Parts, Kinds, Calls, <1>u, <1>e_pc, <1>g, <1>a DEF ExitList, Users
<1>OwnList. OwnList'
  BY Parts, Kinds, Calls, <1>u, <1>e_pc, <1>g, <1>a DEF OwnList
<1>OneList. OneList'
  BY Parts, Kinds, <1>u, <1>e_pc, <1>g, <1>a DEF OneList
<1>Unlinked. Unlinked'
  BY Parts, Undos, <1>u, <1>e_pc, <1>g, <1>a DEF Unlinked
<1>OwnUndo. OwnUndo'
  BY Parts, Undos, Sites, <1>u, <1>e_pc, <1>g, <1>a DEF OwnUndo
<1>UsedSems. UsedSems'
  BY Parts, <1>O, <1>u, <1>e_pc DEF UsedSems
<1> QED BY <1>T, <1>c, <1>f, <1>SetLocks, <1>ListLocks, <1>Unlinking, <1>Removing, <1>HeldSets,
  <1>GoneSets, <1>ReferencesCovered, <1>Loaded, <1>KeptSets, <1>KeptUndo, <1>ExitList, <1>OwnList,
  <1>OneList, <1>Unlinked, <1>OwnUndo, <1>UsedSems DEF IInv, LockInv, SetInv, RefInv, RcuInv,
  ListInv, LinkInv

(* The waker stores the result.                                            *)
LEMMA IInv_wake_set ==
    ASSUME IInv, NEW p \in Procs, wake_set(p)
    PROVE  IInv'
<1> USE DEF Holding, Waiting, Referring, WakingUp
<1>t. /\ lock \in [Arrays -> Procs \cup {NoProc}] /\ pc \in [Procs -> Labels]
      /\ cmd \in [Procs -> Cmds \cup {"none", "SEMOP", "EXIT"}]
      /\ sma \in [Procs -> Arrays \cup {NoArr}]
      /\ undo \in [Procs -> [list : Tasks \cup {NoProc}, set : Arrays \cup {NoArr}]]
      /\ status \in [Procs -> Errors \cup {"IN_WAKEUP"}] /\ outcome \in [Procs -> Errors]
      /\ tasks \in [Procs -> Seq(Tasks)]
  BY Parts, UnType DEF TypeInv
<1>c. CallInv'
  <2>1. Next
    BY Kinds DEF Next, Step
  <2> QED BY Parts, <2>1, CallStep
<1>g. pc[p] = "set"
  BY DEF wake_set
<1>a. PICK a \in Arrays : a = sma[p]
  BY Parts, <1>g, Locals
<1>d. PICK x \in Tasks : x = Head(tasks[p])
  <2>1. tasks[p] # <<>>
    BY Parts, <1>g DEF CallInv, CallAt
  <2> QED BY <1>t, <2>1
<1>u. /\ UNCHANGED <<semval, sem_pending, complex_count, mem, refcount, deleted, grace, lock, idr,
                     used_sems, rw_mutex, list_id, list_proc, readers, undo_list, ulp, refcnt,
                     ulp_lock, un, cmd, sops, semid, sma, undo, outcome, state, sig, timedout, idx,
                     semnum, walk, ref, res>>
  BY <1>t, <1>g, <1>a, <1>d DEF wake_set, Goto, args, arrayv, life, lists, ns, sched, ulpv
<1>e_status. status' \in [Procs -> Errors \cup {"IN_WAKEUP"}]
  BY <1>t, Kinds, <1>d DEF wake_set, Final
<1>e_tasks. /\ tasks' \in [Procs -> Seq(Tasks)] /\ tasks'[p] = Tail(tasks[p]) /\ \A q \in Procs : q # p => tasks'[q] = tasks[q] 
  <2>1. tasks[p] # <<>> /\ tasks[p] \in Seq(Tasks)
    BY <1>t, Parts, <1>g DEF CallInv, CallAt
  <2>2. Tail(tasks[p]) \in Seq(Tasks)
    BY <2>1
  <2> QED BY <1>t, <2>2 DEF wake_set
<1>e_pc. /\ pc' \in [Procs -> Labels] /\ pc'[p] = "wake" /\ \A q \in Procs : q # p => pc'[q] = pc[q]
  BY Parts, <1>t, Kinds, <1>g, <1>a, <1>d DEF wake_set, Goto, Labels
<1>T. TypeInv'
  BY Parts, <1>u, <1>e_status, <1>e_tasks, <1>e_pc DEF TypeInv, Uns, UnRecs
<1>f. /\ SetLife' /\ InTable' /\ HasUndos' /\ TableSets' /\ RefNat' /\ UserCount' /\ FreshList'
      /\ OnceLinked' /\ LinkedLive' /\ BothLists'
  BY Parts, <1>u, Frames
<1>H. \A b \in Arrays : Holders(b)' = Holders(b)
  BY Kinds, <1>u, <1>e_pc, <1>g, <1>a, <1>d, HoldersSame
<1>O. \A b \in Arrays : Counted(b)' = Counted(b)
  BY Kinds, Calls, <1>u, <1>e_pc, <1>g, <1>a, <1>d, CountedSame
<1>SetLocks. SetLocks'
  BY Parts, Kinds, <1>u, <1>e_pc, <1>g, <1>a, <1>d DEF SetLocks
<1>ListLocks. ListLocks'
  BY Parts, Kinds, <1>u, <1>e_pc, <1>g, <1>a, <1>d DEF ListLocks
<1>Unlinking. Unlinking'
  BY Parts, <1>u, <1>e_pc, <1>g, <1>a, <1>d DEF Unlinking
<1>Removing. Removing'
  BY Parts, Calls, Kinds, <1>u, <1>e_pc, <1>g, <1>a, <1>d DEF Removing
<1>HeldSets. HeldSets'
  BY Parts, Sites, <1>u, <1>e_pc, <1>g, <1>a, <1>d DEF HeldSets
<1>GoneSets. GoneSets'
  BY Parts, Sites, Calls, <1>u, <1>e_pc, <1>g, <1>a, <1>d DEF GoneSets
<1>ReferencesCovered. ReferencesCovered'
  BY Parts, <1>H, <1>O, <1>t, <1>u, <1>e_pc, <1>g, <1>a, <1>d, HoldersFinite DEF ReferencesCovered
<1>Loaded. Loaded'
  BY Parts, Sites, <1>H, Calls, <1>t, <1>u, <1>e_pc, <1>g, <1>a, <1>d, HoldersFinite DEF Loaded
<1>KeptSets. KeptSets'
  BY Parts, Sites, <1>u, <1>e_pc, <1>g, <1>a, <1>d DEF KeptSets, Kept
<1>KeptUndo. KeptUndo'
  BY Parts, Undos, <1>u, <1>e_pc, <1>g, <1>a, <1>d DEF KeptUndo, Kept
<1>ExitList. ExitList'
  BY Parts, Kinds, Calls, <1>u, <1>e_pc, <1>g, <1>a, <1>d DEF ExitList, Users
<1>OwnList. OwnList'
  BY Parts, Kinds, Calls, <1>u, <1>e_pc, <1>g, <1>a, <1>d DEF OwnList
<1>OneList. OneList'
  BY Parts, Kinds, <1>u, <1>e_pc, <1>g, <1>a, <1>d DEF OneList
<1>Unlinked. Unlinked'
  BY Parts, Undos, <1>u, <1>e_pc, <1>g, <1>a, <1>d DEF Unlinked
<1>OwnUndo. OwnUndo'
  BY Parts, Undos, Sites, <1>u, <1>e_pc, <1>g, <1>a, <1>d DEF OwnUndo
<1>UsedSems. UsedSems'
  BY Parts, <1>O, <1>u, <1>e_pc DEF UsedSems
<1> QED BY <1>T, <1>c, <1>f, <1>SetLocks, <1>ListLocks, <1>Unlinking, <1>Removing, <1>HeldSets,
  <1>GoneSets, <1>ReferencesCovered, <1>Loaded, <1>KeptSets, <1>KeptUndo, <1>ExitList, <1>OwnList,
  <1>OneList, <1>Unlinked, <1>OwnUndo, <1>UsedSems DEF IInv, LockInv, SetInv, RefInv, RcuInv,
  ListInv, LinkInv

=============================================================================
