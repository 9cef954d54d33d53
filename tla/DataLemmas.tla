----------------------------- MODULE DataLemmas -----------------------------
(***************************************************************************)
(* Lists, folds and sums.  What the operations on the lists of ipc/ do to  *)
(* the entries of a list: list_del(), list_add() before an entry, the ends *)
(* of a list.  And folds over finite sets: the recursion of a fold has     *)
(* exactly one solution, which gives the sums of the models (bytes of a    *)
(* list, attachments, references) their arithmetic.                        *)
(***************************************************************************)
EXTENDS Integers, Sequences, SequencesExt, SequenceTheorems, FiniteSets, FiniteSetsExt,
        Functions, FiniteSetTheorems, WellFoundedInduction, TLAPS

(* A nonempty set of natural numbers has a least one.                      *)
LEMMA LeastNumber ==
    ASSUME NEW T, T \subseteq Nat, T # {}
    PROVE  \E x \in T : \A y \in T : x <= y
<1>1. \E x \in T : \A y \in T : ~ (<<y, x>> \in OpToRel(<, Nat))
  BY WFMin, NatLessThanWellFounded, Zenon
<1>2. PICK x \in T : \A y \in T : ~ (<<y, x>> \in OpToRel(<, Nat))
  BY <1>1
<1>3. \A y \in T : ~ (y < x)
  BY <1>2 DEF OpToRel
<1> QED BY <1>3

(* What Min chooses.                                                      *)
LEMMA MinOfNats ==
    ASSUME NEW T, T \subseteq Nat, T # {}
    PROVE  Min(T) \in T /\ \A y \in T : Min(T) <= y
<1>1. \E x \in T : \A y \in T : x <= y
  BY LeastNumber
<1> QED BY <1>1, Zenon DEF Min

(* What Max chooses of the positions of a list.                            *)
LEMMA MaxOfInterval ==
    ASSUME NEW n \in Nat, NEW T, T \subseteq 1 .. n, T # {}
    PROVE  Max(T) \in T /\ \A y \in T : Max(T) >= y
<1> DEFINE U == {k \in 0 .. n : n - k \in T}
<1>1. U \subseteq Nat /\ U # {}
  <2>1. PICK y \in T : TRUE
    OBVIOUS
  <2>2. n - y \in 0 .. n /\ n - (n - y) = y
    BY <2>1
  <2>3. n - y \in U
    BY <2>2
  <2>4. U # {}
    BY <2>3, Zenon
  <2>5. U \subseteq Nat
    OBVIOUS
  <2> QED BY <2>4, <2>5
<1>2. PICK u \in U : \A v \in U : u <= v
  BY <1>1, LeastNumber
<1>3. \A y \in T : n - y \in U
  <2> TAKE y \in T
  <2>1. n - y \in 0 .. n /\ n - (n - y) = y
    OBVIOUS
  <2> QED BY <2>1
<1>4. n - u \in T /\ \A y \in T : n - u >= y
  BY <1>2, <1>3
<1>5. \E x \in T : \A y \in T : x >= y
  BY <1>4
<1> QED BY <1>5, Zenon DEF Max
(* What RemoveAt does to a list.                                           *)
LEMMA RemoveAtProps ==
    ASSUME NEW S, NEW s \in Seq(S), NEW i \in 1 .. Len(s)
    PROVE  /\ RemoveAt(s, i) \in Seq(S)
           /\ Len(RemoveAt(s, i)) = Len(s) - 1
           /\ \A j \in 1 .. Len(s) - 1 :
                 RemoveAt(s, i)[j] = IF j < i THEN s[j] ELSE s[j + 1]
<1> DEFINE a == SubSeq(s, 1, i - 1)
           b == SubSeq(s, i + 1, Len(s))
<1>1. a \in Seq(S) /\ Len(a) = i - 1
  OBVIOUS
<1>2. b \in Seq(S) /\ Len(b) = Len(s) - i
  OBVIOUS
<1>3. \A j \in 1 .. i - 1 : a[j] = s[j]
  OBVIOUS
<1>4. \A j \in 1 .. Len(s) - i : b[j] = s[j + i]
  OBVIOUS
<1>5. RemoveAt(s, i) = a \o b
  BY DEF RemoveAt
<1> HIDE DEF a, b
<1>6. /\ a \o b \in Seq(S) /\ Len(a \o b) = Len(a) + Len(b)
      /\ \A j \in 1 .. Len(a) + Len(b) :
            (a \o b)[j] = IF j <= Len(a) THEN a[j] ELSE b[j - Len(a)]
  BY <1>1, <1>2, ConcatProperties
<1>7. ASSUME NEW j \in 1 .. Len(s) - 1
      PROVE  (a \o b)[j] = IF j < i THEN s[j] ELSE s[j + 1]
  <2>1. CASE j < i
    BY <2>1, <1>1, <1>2, <1>3, <1>6
  <2>2. CASE ~(j < i)
    <3>1. j - (i - 1) \in 1 .. Len(s) - i /\ (j - (i - 1)) + i = j + 1
        BY <2>2
    <3>2. (a \o b)[j] = b[j - (i - 1)]
        BY <2>2, <1>1, <1>2, <1>6
    <3>3. b[j - (i - 1)] = s[(j - (i - 1)) + i]
        BY <3>1, <1>4
    <3>4. (a \o b)[j] = s[j + 1]
        BY <3>1, <3>2, <3>3
    <3> QED BY <2>2, <3>4
  <2> QED BY <2>1, <2>2
<1> QED BY <1>1, <1>2, <1>5, <1>6, <1>7

(* The entries of a list without repetitions after RemoveAt.               *)
LEMMA RemoveAtEntries ==
    ASSUME NEW S, NEW s \in Seq(S), NEW i \in DOMAIN s,
           \A j, k \in DOMAIN s : s[j] = s[k] => j = k
    PROVE  /\ RemoveAt(s, i) \in Seq(S)
           /\ \A k \in DOMAIN RemoveAt(s, i) :
                 /\ RemoveAt(s, i)[k] # s[i]
                 /\ \E j \in DOMAIN s : RemoveAt(s, i)[k] = s[j]
           /\ \A j \in DOMAIN s : j # i =>
                 \E k \in DOMAIN RemoveAt(s, i) : RemoveAt(s, i)[k] = s[j]
           /\ \A j, k \in DOMAIN RemoveAt(s, i) :
                 RemoveAt(s, i)[j] = RemoveAt(s, i)[k] => j = k
<1> DEFINE t == RemoveAt(s, i)
<1>1. i \in 1 .. Len(s) /\ DOMAIN s = 1 .. Len(s)
  OBVIOUS
<1>2. /\ t \in Seq(S) /\ Len(t) = Len(s) - 1
      /\ \A j \in 1 .. Len(s) - 1 : t[j] = IF j < i THEN s[j] ELSE s[j + 1]
  <2>1. /\ RemoveAt(s, i) \in Seq(S) /\ Len(RemoveAt(s, i)) = Len(s) - 1
        /\ \A j \in 1 .. Len(s) - 1 :
              RemoveAt(s, i)[j] = IF j < i THEN s[j] ELSE s[j + 1]
    <3> HIDE DEF t
    <3>1. \A u \in Seq(S) : \A l \in 1 .. Len(u) :
             /\ RemoveAt(u, l) \in Seq(S) /\ Len(RemoveAt(u, l)) = Len(u) - 1
             /\ \A j \in 1 .. Len(u) - 1 :
                   RemoveAt(u, l)[j] = IF j < l THEN u[j] ELSE u[j + 1]
        BY RemoveAtProps, Zenon
    <3> QED BY <1>1, <3>1, Zenon
  <2> QED BY <2>1 DEF t
<1> HIDE DEF t
<1>3. DOMAIN t = 1 .. Len(s) - 1
  BY <1>2
<1>4. ASSUME NEW k \in DOMAIN t
      PROVE  t[k] # s[i] /\ \E j \in DOMAIN s : t[k] = s[j]
  BY <1>1, <1>2, <1>3
<1>5. ASSUME NEW j \in DOMAIN s, j # i
      PROVE  \E k \in DOMAIN t : t[k] = s[j]
  <2>1. CASE j < i
    <3>1. j \in DOMAIN t
        BY <1>1, <1>3, <2>1
    <3> QED BY <1>2, <1>3, <2>1, <3>1
  <2>2. CASE j > i
    <3>1. j - 1 \in DOMAIN t /\ ~(j - 1 < i) /\ (j - 1) + 1 = j
        BY <1>1, <1>3, <2>2
    <3> QED BY <1>2, <1>3, <3>1
  <2> QED BY <1>1, <1>5, <2>1, <2>2
<1>6. ASSUME NEW j \in DOMAIN t, NEW k \in DOMAIN t, t[j] = t[k]
      PROVE  j = k
  BY <1>1, <1>2, <1>3, <1>6, SMTT(30)
<1> QED BY <1>2, <1>4, <1>5, <1>6 DEF t

(* list_del() of e from a list without repetitions.                        *)
LEMMA RemoveFirstEntries ==
    ASSUME NEW S, NEW s \in Seq(S), IsInjective(s), NEW e
    PROVE  /\ RemoveFirst(s, e) \in Seq(S) /\ IsInjective(RemoveFirst(s, e))
           /\ ToSet(RemoveFirst(s, e)) = ToSet(s) \ {e}
<1>1. DOMAIN s = 1 .. Len(s)
  OBVIOUS
<1>2. CASE \E i \in 1 .. Len(s) : s[i] = e
  <2> DEFINE k == SelectInSeq(s, LAMBDA v : v = e)
  <2>1. PICK i \in 1 .. Len(s) : s[i] = e
    BY <1>2
  <2>2. {j \in 1 .. Len(s) : s[j] = e} = {i}
    BY <1>1, <2>1 DEF IsInjective
  <2>3. k = i
    BY <2>1, <2>2 DEF SelectInSeq, Min
  <2>4. RemoveFirst(s, e) = RemoveAt(s, i)
    BY <1>2, <2>3 DEF RemoveFirst
  <2>5. /\ RemoveAt(s, i) \in Seq(S)
        /\ \A l \in DOMAIN RemoveAt(s, i) :
              RemoveAt(s, i)[l] # s[i] /\ \E j \in DOMAIN s : RemoveAt(s, i)[l] = s[j]
        /\ \A j \in DOMAIN s : j # i =>
              \E l \in DOMAIN RemoveAt(s, i) : RemoveAt(s, i)[l] = s[j]
        /\ \A j, l \in DOMAIN RemoveAt(s, i) :
              RemoveAt(s, i)[j] = RemoveAt(s, i)[l] => j = l
    <3>1. i \in DOMAIN s /\ \A j, l \in DOMAIN s : s[j] = s[l] => j = l
        BY <1>1, <2>1 DEF IsInjective
    <3> QED BY <3>1, RemoveAtEntries, Zenon
  <2>6. ToSet(RemoveAt(s, i)) \subseteq ToSet(s) \ {e}
    <3> SUFFICES ASSUME NEW l \in DOMAIN RemoveAt(s, i)
                 PROVE  RemoveAt(s, i)[l] \in ToSet(s) \ {e}
        BY Zenon DEF ToSet
    <3> QED BY <2>1, <2>5, Zenon DEF ToSet
  <2>7. ToSet(s) \ {e} \subseteq ToSet(RemoveAt(s, i))
    <3> SUFFICES ASSUME NEW j \in DOMAIN s, s[j] # e
                 PROVE  s[j] \in ToSet(RemoveAt(s, i))
        BY Zenon DEF ToSet
    <3>1. PICK l \in DOMAIN RemoveAt(s, i) : RemoveAt(s, i)[l] = s[j]
        BY <2>1, <2>5, Zenon
    <3> QED BY <3>1, Zenon DEF ToSet
  <2>8. IsInjective(RemoveAt(s, i))
    BY <2>5, Zenon DEF IsInjective
  <2> QED BY <2>4, <2>5, <2>6, <2>7, <2>8, Zenon
<1>3. CASE ~ \E i \in 1 .. Len(s) : s[i] = e
  BY <1>1, <1>3 DEF RemoveFirst, ToSet
<1> QED BY <1>2, <1>3

(* list_del() leaves the rest of the list in order.                        *)
LEMMA RemoveFirstOrder ==
    ASSUME NEW S, NEW R, NEW s \in Seq(S), NEW e,
           \A j, k \in 1 .. Len(s) : j < k => <<s[j], s[k]>> \in R
    PROVE  /\ RemoveFirst(s, e) \in Seq(S)
           /\ \A j, k \in 1 .. Len(RemoveFirst(s, e)) :
                 j < k => <<RemoveFirst(s, e)[j], RemoveFirst(s, e)[k]>> \in R
<1>1. CASE \E i \in 1 .. Len(s) : s[i] = e
  <2> DEFINE I == {j \in 1 .. Len(s) : s[j] = e}
             i == SelectInSeq(s, LAMBDA v : v = e)
             r == RemoveAt(s, i)
  <2>1. i = IF I # {} THEN Min(I) ELSE 0
    BY DEF SelectInSeq
  <2>2. RemoveFirst(s, e) = r
    BY <1>1 DEF RemoveFirst
  <2> HIDE DEF i
  <2>3. I \subseteq Nat
    OBVIOUS
  <2>4. I # {}
    BY <1>1
  <2>5. Min(I) \in I
    <3> HIDE DEF I
    <3> QED BY <2>3, <2>4, MinOfNats
  <2>6. i \in 1 .. Len(s)
    BY <2>1, <2>4, <2>5
  <2>7. /\ r \in Seq(S) /\ Len(r) = Len(s) - 1
        /\ \A j \in 1 .. Len(s) - 1 : r[j] = IF j < i THEN s[j] ELSE s[j + 1]
    BY <2>6, RemoveAtProps
  <2> HIDE DEF r
  <2>8. ASSUME NEW j \in 1 .. Len(r), NEW k \in 1 .. Len(r), j < k
        PROVE  <<r[j], r[k]>> \in R
    <3> DEFINE from(x) == IF x < i THEN x ELSE x + 1
    <3>1. \A x \in 1 .. Len(r) : from(x) \in 1 .. Len(s) /\ r[x] = s[from(x)]
        BY <2>6, <2>7
    <3>2. from(j) < from(k)
        BY <2>6, <2>7, <2>8
    <3> HIDE DEF from
    <3> QED BY <3>1, <3>2
  <2> QED BY <2>2, <2>7, <2>8
<1>2. CASE ~ \E i \in 1 .. Len(s) : s[i] = e
  <2>1. RemoveFirst(s, e) = s
    BY <1>2 DEF RemoveFirst
  <2> QED BY <2>1
<1> QED BY <1>1, <1>2

(* What InsertAt does to a list.                                           *)
LEMMA InsertAtProps ==
    ASSUME NEW S, NEW s \in Seq(S), NEW i \in 1 .. Len(s) + 1, NEW e \in S
    PROVE  /\ InsertAt(s, i, e) \in Seq(S)
           /\ Len(InsertAt(s, i, e)) = Len(s) + 1
           /\ \A j \in 1 .. Len(s) + 1 :
                 InsertAt(s, i, e)[j] = IF j < i THEN s[j] ELSE IF j = i THEN e ELSE s[j - 1]
<1> DEFINE a == SubSeq(s, 1, i - 1)
           b == SubSeq(s, i, Len(s))
<1>1. a \in Seq(S) /\ Len(a) = i - 1 /\ \A j \in 1 .. i - 1 : a[j] = s[j]
  OBVIOUS
<1>2. b \in Seq(S) /\ Len(b) = Len(s) - i + 1 /\ \A j \in 1 .. Len(s) - i + 1 : b[j] = s[j + i - 1]
  OBVIOUS
<1>3. InsertAt(s, i, e) = (a \o <<e>>) \o b
  BY DEF InsertAt
<1> HIDE DEF a, b
<1>4. /\ a \o <<e>> \in Seq(S) /\ Len(a \o <<e>>) = i
      /\ \A j \in 1 .. i : (a \o <<e>>)[j] = IF j < i THEN s[j] ELSE e
  BY <1>1
<1> DEFINE c == a \o <<e>>
<1> HIDE DEF c
<1>5. c \in Seq(S) /\ Len(c) = i /\ \A j \in 1 .. i : c[j] = IF j < i THEN s[j] ELSE e
  BY <1>4 DEF c
<1> DEFINE d == c \o b
<1>6. /\ d \in Seq(S) /\ Len(d) = Len(c) + Len(b)
      /\ \A j \in 1 .. Len(c) + Len(b) :
            d[j] = IF j <= Len(c) THEN c[j] ELSE b[j - Len(c)]
  BY <1>2, <1>5, ConcatProperties
<1>7. InsertAt(s, i, e) = d
  BY <1>3 DEF c
<1> HIDE DEF d
<1>8. Len(s) \in Nat /\ Len(d) = Len(s) + 1
  BY <1>2, <1>5, <1>6
<1>9. ASSUME NEW j \in 1 .. Len(s) + 1
      PROVE  d[j] = IF j < i THEN s[j] ELSE IF j = i THEN e ELSE s[j - 1]
  <2>1. CASE j <= i
    BY <2>1, <1>2, <1>5, <1>6
  <2>2. CASE j > i
    <3>1. j - i \in 1 .. Len(s) - i + 1 /\ (j - i) + i - 1 = j - 1
        BY <2>2
    <3>2. d[j] = b[j - i]
        BY <2>2, <1>2, <1>5, <1>6
    <3>3. b[j - i] = s[(j - i) + i - 1]
        BY <3>1, <1>2
    <3> QED BY <2>2, <3>1, <3>2, <3>3
  <2> QED BY <2>1, <2>2, <1>8
<1> QED BY <1>6, <1>7, <1>8, <1>9

(* list_add_tail() of e before the i-th entry.                             *)
LEMMA InsertAtEntries ==
    ASSUME NEW S, NEW s \in Seq(S), NEW i \in 1 .. Len(s) + 1, NEW e \in S
    PROVE  /\ InsertAt(s, i, e) \in Seq(S)
           /\ Len(InsertAt(s, i, e)) = Len(s) + 1
           /\ ToSet(InsertAt(s, i, e)) = ToSet(s) \cup {e}
           /\ (IsInjective(s) /\ e \notin ToSet(s)) => IsInjective(InsertAt(s, i, e))
<1> DEFINE t == InsertAt(s, i, e)
<1>1. /\ t \in Seq(S) /\ Len(t) = Len(s) + 1
      /\ \A j \in 1 .. Len(s) + 1 :
            t[j] = IF j < i THEN s[j] ELSE IF j = i THEN e ELSE s[j - 1]
  BY InsertAtProps
<1> HIDE DEF t
<1>2. DOMAIN s = 1 .. Len(s) /\ DOMAIN t = 1 .. Len(s) + 1
  BY <1>1
<1>3. ToSet(t) \subseteq ToSet(s) \cup {e}
  BY <1>1, <1>2 DEF ToSet
<1>4. e \in ToSet(t)
  BY <1>1, <1>2 DEF ToSet
<1>5. ASSUME NEW j \in 1 .. Len(s)
      PROVE  s[j] \in ToSet(t)
  <2>1. CASE j < i
    BY <2>1, <1>1, <1>2, SMTT(30) DEF ToSet
  <2>2. CASE j >= i
    <3>1. j + 1 \in 1 .. Len(s) + 1 /\ t[j + 1] = s[j]
        BY <2>2, <1>1
    <3> QED BY <3>1, <1>2, Zenon DEF ToSet
  <2> QED BY <2>1, <2>2
<1>6. ASSUME IsInjective(s), e \notin ToSet(s)
      PROVE  IsInjective(t)
  <2> SUFFICES ASSUME NEW j \in 1 .. Len(s) + 1, NEW k \in 1 .. Len(s) + 1, t[j] = t[k]
               PROVE  j = k
    BY <1>2 DEF IsInjective
  <2>1. \A l \in 1 .. Len(s) : s[l] # e
    BY <1>2, <1>6 DEF ToSet
  <2>2. \A l, m \in 1 .. Len(s) : s[l] = s[m] => l = m
    BY <1>2, <1>6 DEF IsInjective
  <2> DEFINE from(x) == IF x < i THEN x ELSE x - 1
  <2>3. Len(s) \in Nat /\ i \in Nat
    OBVIOUS
  <2>4. ASSUME NEW x \in 1 .. Len(s) + 1, x # i
        PROVE  from(x) \in 1 .. Len(s) /\ t[x] = s[from(x)] /\ t[x] # e
    BY <1>1, <2>1, <2>3, <2>4
  <2>5. CASE j = i \/ k = i
    BY <1>1, <2>3, <2>4, <2>5
  <2>6. CASE j # i /\ k # i
    <3>1. from(j) = from(k)
        BY <2>2, <2>4, <2>6
    <3> QED BY <3>1, <2>3, <2>6
  <2> QED BY <2>5, <2>6
<1> QED BY <1>1, <1>2, <1>3, <1>4, <1>5, <1>6, Zenon DEF ToSet, t

(* list_add_tail() before the i-th entry keeps the list in the order R if  *)
(* e comes after all entries before that place and before all others.      *)
LEMMA InsertAtOrder ==
    ASSUME NEW S, NEW R, NEW s \in Seq(S), NEW i \in 1 .. Len(s) + 1, NEW e \in S,
           \A j, k \in 1 .. Len(s) : j < k => <<s[j], s[k]>> \in R,
           \A j \in 1 .. i - 1 : <<s[j], e>> \in R,
           \A j \in i .. Len(s) : <<e, s[j]>> \in R
    PROVE  \A j, k \in 1 .. Len(s) + 1 :
              j < k => <<InsertAt(s, i, e)[j], InsertAt(s, i, e)[k]>> \in R
<1> DEFINE r == InsertAt(s, i, e)
<1>1. /\ r \in Seq(S) /\ Len(r) = Len(s) + 1
      /\ \A j \in 1 .. Len(s) + 1 :
            r[j] = IF j < i THEN s[j] ELSE IF j = i THEN e ELSE s[j - 1]
  BY InsertAtProps
<1> HIDE DEF r
<1> SUFFICES ASSUME NEW j \in 1 .. Len(s) + 1, NEW k \in 1 .. Len(s) + 1, j < k
             PROVE  <<r[j], r[k]>> \in R
  BY DEF r
<1>2. Len(s) \in Nat /\ i \in Nat
  OBVIOUS
<1>3. k > i => k - 1 \in 1 .. Len(s) /\ k - 1 >= i /\ r[k] = s[k - 1]
  BY <1>1, <1>2
<1>4. j > i => j - 1 \in 1 .. Len(s) /\ j - 1 < k - 1 /\ r[j] = s[j - 1]
  BY <1>1, <1>2
<1>5. j < i => j \in 1 .. Len(s) /\ j \in 1 .. i - 1 /\ r[j] = s[j]
  BY <1>1, <1>2
<1>6. k < i => k \in 1 .. Len(s) /\ r[k] = s[k]
  BY <1>1, <1>2
<1>7. (j = i => r[j] = e) /\ (k = i => r[k] = e)
  BY <1>1, <1>2
<1>8. CASE j < i /\ k < i
  BY <1>5, <1>6, <1>8
<1>9. CASE j < i /\ k = i
  BY <1>5, <1>7, <1>9
<1>10. CASE j < i /\ k > i
  BY <1>2, <1>3, <1>5, <1>10
<1>11. CASE j = i
  BY <1>2, <1>3, <1>7, <1>11
<1>12. CASE j > i
  BY <1>2, <1>3, <1>4, <1>12, SMTT(30)
<1> QED BY <1>2, <1>8, <1>9, <1>10, <1>11, <1>12

(* list_add_tail() of e at the end.                                        *)
LEMMA AppendEntries ==
    ASSUME NEW S, NEW s \in Seq(S), NEW e \in S
    PROVE  /\ Append(s, e) \in Seq(S)
           /\ Len(Append(s, e)) = Len(s) + 1
           /\ ToSet(Append(s, e)) = ToSet(s) \cup {e}
           /\ (IsInjective(s) /\ e \notin ToSet(s)) => IsInjective(Append(s, e))
<1> DEFINE t == Append(s, e)
<1>1. /\ t \in Seq(S) /\ Len(t) = Len(s) + 1 /\ t[Len(s) + 1] = e
      /\ \A j \in 1 .. Len(s) : t[j] = s[j]
  OBVIOUS
<1> HIDE DEF t
<1>2. DOMAIN s = 1 .. Len(s) /\ DOMAIN t = 1 .. Len(s) + 1 /\ Len(s) \in Nat
  BY <1>1
<1>3. ToSet(t) = ToSet(s) \cup {e}
  BY <1>1, <1>2 DEF ToSet
<1>4. (IsInjective(s) /\ e \notin ToSet(s)) => IsInjective(t)
  BY <1>1, <1>2 DEF IsInjective, ToSet
<1> QED BY <1>1, <1>3, <1>4 DEF t

(* Only the empty list has no entries.                                     *)
LEMMA EmptyEntries ==
    ASSUME NEW S, NEW s \in Seq(S)
    PROVE  s = <<>> <=> ToSet(s) = {}
<1>1. CASE s = <<>>
  BY <1>1 DEF ToSet
<1>2. CASE s # <<>>
  <2>1. 1 \in DOMAIN s
    BY <1>2
  <2>2. s[1] \in ToSet(s)
    BY <2>1, Zenon DEF ToSet
  <2> QED BY <1>2, <2>2
<1> QED BY <1>1, <1>2

(* The end of a list, and the list without it.                             *)
LEMMA FrontLast ==
    ASSUME NEW S, NEW s \in Seq(S), s # <<>>
    PROVE  /\ Last(s) \in S /\ Last(s) \in ToSet(s)
           /\ Front(s) \in Seq(S) /\ Len(Front(s)) = Len(s) - 1
           /\ \A j \in 1 .. Len(s) - 1 : Front(s)[j] = s[j]
<1>1. Len(s) \in Nat \ {0} /\ DOMAIN s = 1 .. Len(s)
  OBVIOUS
<1> QED BY <1>1 DEF Last, Front, ToSet

-----------------------------------------------------------------------------
(* Induction over the numbers up to n.                                     *)
LEMMA StepInduction ==
    ASSUME NEW n \in Nat, NEW P, 0 \in P,
           \A i \in 0 .. n : (i \in P /\ i + 1 <= n) => i + 1 \in P
    PROVE  \A i \in 0 .. n : i \in P
<1> SUFFICES ASSUME NEW b \in 0 .. n, b \notin P PROVE FALSE
  OBVIOUS
<1> DEFINE B == {i \in 0 .. n : i \notin P}
<1>1. B \subseteq Nat /\ B # {}
  OBVIOUS
<1>2. PICK i \in B : \A j \in B : i <= j
  BY <1>1, LeastNumber
<1>3. i \in Nat /\ i # 0 /\ i - 1 \in 0 .. n /\ i - 1 \notin B
  BY <1>2
<1>4. i - 1 \in P /\ (i - 1) + 1 = i
  BY <1>2, <1>3
<1> QED BY <1>2, <1>4

(* Induction over the subsets of a finite set, by a least counterexample.  *)
LEMMA SubsetInduction ==
    ASSUME NEW S, IsFiniteSet(S), NEW P,
           ASSUME NEW T \in SUBSET S, \A U \in SUBSET T : U # T => U \in P
           PROVE  T \in P
    PROVE  \A T \in SUBSET S : T \in P
<1> SUFFICES ASSUME NEW B \in SUBSET S, B \notin P PROVE FALSE
  OBVIOUS
<1> DEFINE N == {n \in Nat : \E T \in SUBSET S : T \notin P /\ Cardinality(T) = n}
<1>1. \A T \in SUBSET S : IsFiniteSet(T) /\ Cardinality(T) \in Nat
  BY FS_Subset, FS_CardinalityType
<1>2. N # {} /\ N \subseteq Nat
  <2>1. Cardinality(B) \in N
    BY <1>1
  <2> QED BY <2>1
<1>3. PICK n \in N : \A k \in N : n <= k
  BY <1>2, LeastNumber
<1>4. PICK T \in SUBSET S : T \notin P /\ Cardinality(T) = n
  BY <1>3
<1>5. \A U \in SUBSET T : U # T => U \in P
  <2> SUFFICES ASSUME NEW U \in SUBSET T, U # T, U \notin P PROVE FALSE
    OBVIOUS
  <2>1. Cardinality(U) < Cardinality(T)
    BY <1>1, FS_Subset
  <2>2. U \in SUBSET S /\ Cardinality(U) \in N
    BY <1>1
  <2> QED BY <1>1, <1>3, <1>4, <2>1, <2>2
<1> QED BY <1>4, <1>5

(* g follows the recursion of a fold, on the subsets of T: from b, by the  *)
(* step h over the element that c chooses.                                 *)
FollowsFold(g, T, b, c, h) ==
    \A U \in SUBSET T : g[U] = IF U = {} THEN b ELSE h[<<c[U], g[U \ {c[U]}]>>]

(* There is one such function...                                           *)
LEMMA FoldUnique ==
    ASSUME NEW S, IsFiniteSet(S), NEW b, NEW c, NEW h,
           \A T \in SUBSET S : T # {} => c[T] \in T,
           NEW f, NEW g, FollowsFold(f, S, b, c, h), FollowsFold(g, S, b, c, h)
    PROVE  \A T \in SUBSET S : f[T] = g[T]
<1> DEFINE P == {T \in SUBSET S : f[T] = g[T]}
<1>1. ASSUME NEW T \in SUBSET S, \A U \in SUBSET T : U # T => U \in P
      PROVE  T \in P
  <2>1. CASE T = {}
    BY <2>1 DEF FollowsFold
  <2>2. CASE T # {}
    <3>1. c[T] \in T
        BY <2>2
    <3>2. f[T \ {c[T]}] = g[T \ {c[T]}]
        BY <1>1, <3>1
    <3>3. /\ f[T] = h[<<c[T], f[T \ {c[T]}]>>]
          /\ g[T] = h[<<c[T], g[T \ {c[T]}]>>]
        BY <2>2 DEF FollowsFold
    <3> QED BY <3>2, <3>3
  <2> QED BY <2>1, <2>2
<1> HIDE DEF P
<1>2. \A T \in SUBSET S : T \in P
  BY <1>1, SubsetInduction
<1> QED BY <1>2 DEF P

(* ... and it exists.                                                      *)
LEMMA FoldExists ==
    ASSUME NEW S, IsFiniteSet(S), NEW V, NEW b \in V, NEW c, NEW h \in [S \X V -> V],
           \A T \in SUBSET S : T # {} => c[T] \in T
    PROVE  \E f \in [SUBSET S -> V] : FollowsFold(f, S, b, c, h)
<1> DEFINE Partial(T, g) == g \in [SUBSET T -> V] /\ FollowsFold(g, T, b, c, h)
           P == {T \in SUBSET S : \E g : Partial(T, g)}
<1>1. ASSUME NEW T \in SUBSET S, \A U \in SUBSET T : U # T => U \in P
      PROVE  T \in P
  <2> DEFINE G(U) == CHOOSE g : Partial(U, g)
             X(U) == G(U)[U]
             W == T \ {c[T]}
             F == [U \in SUBSET T |-> IF U = T THEN IF T = {} THEN b ELSE h[<<c[T], X(W)>>]
                                      ELSE X(U)]
  <2>1. \A U \in SUBSET T : U # T => Partial(U, G(U))
    <3> SUFFICES ASSUME NEW U \in SUBSET T, U # T PROVE Partial(U, G(U))
        OBVIOUS
    <3>1. \E g : Partial(U, g)
        BY <1>1
    <3> HIDE DEF Partial
    <3> QED BY <3>1, Zenon
  <2> HIDE DEF G
  <2>2. \A U \in SUBSET T : U # T => X(U) \in V
    <3> SUFFICES ASSUME NEW U \in SUBSET T, U # T PROVE X(U) \in V
        OBVIOUS
    <3>1. G(U) \in [SUBSET U -> V]
        BY <2>1
    <3> QED BY <3>1
  <2>3. T # {} => c[T] \in T /\ W \in SUBSET T /\ W # T
    OBVIOUS
  <2>4. F \in [SUBSET T -> V]
    <3>1. T # {} => h[<<c[T], X(W)>>] \in V
        BY <2>2, <2>3
    <3> HIDE DEF X, W
    <3> QED BY <2>2, <3>1
  <2>5. ASSUME NEW U \in SUBSET T, U # T, U # {}
        PROVE  X(U) = h[<<c[U], X(U \ {c[U]})>>]
    <3> DEFINE Y == U \ {c[U]}
    <3>1. c[U] \in U /\ Y \in SUBSET U /\ Y \in SUBSET T /\ Y # T
        BY <2>5
    <3>2. FollowsFold(G(U), U, b, c, h) /\ FollowsFold(G(Y), Y, b, c, h)
        BY <2>1, <2>5, <3>1
    <3>3. FollowsFold(G(U), Y, b, c, h)
        BY <3>1, <3>2 DEF FollowsFold
    <3>4. IsFiniteSet(Y) /\ \A Z \in SUBSET Y : Z # {} => c[Z] \in Z
        BY <3>1, FS_Subset
    <3>5. \A Z \in SUBSET Y : G(U)[Z] = G(Y)[Z]
      <4> HIDE DEF Y
      <4> QED BY <3>2, <3>3, <3>4, FoldUnique
    <3>6. G(U)[Y] = G(Y)[Y]
        BY <3>5
    <3>7. G(U)[U] = h[<<c[U], G(U)[Y]>>]
        BY <2>5, <3>2 DEF FollowsFold
    <3> QED BY <3>6, <3>7
  <2>6. ASSUME {} # T PROVE X({}) = b
    <3>1. FollowsFold(G({}), {}, b, c, h)
        BY <2>1, <2>6
    <3> QED BY <3>1 DEF FollowsFold
  <2>7. FollowsFold(F, T, b, c, h)
    <3> SUFFICES ASSUME NEW U \in SUBSET T
                 PROVE  F[U] = IF U = {} THEN b ELSE h[<<c[U], F[U \ {c[U]}]>>]
        BY DEF FollowsFold
    <3> HIDE DEF X
    <3>1. CASE U = T
      <4>1. CASE T = {}
        BY <3>1, <4>1
      <4>2. CASE T # {}
        <5>1. F[W] = X(W)
            BY <2>3, <4>2
        <5>2. F[T] = h[<<c[T], X(W)>>]
            BY <4>2
        <5> HIDE DEF F
        <5> QED BY <3>1, <4>2, <5>1, <5>2
      <4> QED BY <4>1, <4>2
    <3>2. CASE U # T /\ U = {}
        BY <2>6, <3>2
    <3>3. CASE U # T /\ U # {}
      <4>1. U \ {c[U]} \in SUBSET T /\ U \ {c[U]} # T
        BY <3>3
      <4>2. F[U] = X(U) /\ F[U \ {c[U]}] = X(U \ {c[U]})
        BY <3>3, <4>1
      <4> HIDE DEF F
      <4> QED BY <2>5, <3>3, <4>2
    <3> QED BY <3>1, <3>2, <3>3
  <2> HIDE DEF F
  <2>8. Partial(T, F)
    BY <2>4, <2>7
  <2> QED BY <2>8
<1> HIDE DEF P
<1>2. \A T \in SUBSET S : T \in P
  BY <1>1, SubsetInduction
<1> QED BY <1>2 DEF P

(* f holds the sums of g over the subsets of S, each with one summand more *)
(* than another.                                                           *)
Sums(f, g, S) ==
    /\ f \in [SUBSET S -> Int]
    /\ \A T \in SUBSET S :
          /\ SumFunctionOnSet(g, T) = f[T]
          /\ T = {} => f[T] = 0
          /\ T # {} => \E y \in T : f[T] = g[y] + f[T \ {y}]

(* A sum is the value of one function for all subsets of S.                *)
LEMMA SumIsFold ==
    ASSUME NEW S, IsFiniteSet(S), NEW g, \A x \in S : g[x] \in Int
    PROVE  \E f : Sums(f, g, S)
<1> DEFINE c == [T \in SUBSET S |-> CHOOSE x \in T : TRUE]
           h == [xv \in S \X Int |-> g[xv[1]] + xv[2]]
<1>1. \A T \in SUBSET S : T # {} => c[T] \in T
  <2> SUFFICES ASSUME NEW T \in SUBSET S, T # {} PROVE (CHOOSE x \in T : TRUE) \in T
    OBVIOUS
  <2> QED BY Zenon
<1>2. h \in [S \X Int -> Int]
  <2>1. \A xv \in S \X Int : g[xv[1]] + xv[2] \in Int
    <3> SUFFICES ASSUME NEW xv \in S \X Int PROVE g[xv[1]] + xv[2] \in Int
        OBVIOUS
    <3>1. xv[1] \in S /\ xv[2] \in Int
        OBVIOUS
    <3> QED BY <3>1
  <2> QED BY <2>1
<1>3. \A x \in S, v \in Int : h[<<x, v>>] = g[x] + v
  OBVIOUS
<1> HIDE DEF h
<1> DEFINE Step(f, U) == IF U = {} THEN 0
                ELSE g[CHOOSE x \in U : TRUE] + f[U \ {CHOOSE x \in U : TRUE}]
           Rec(f, T) == f = [U \in SUBSET T |-> Step(f, U)] /\ \A U \in SUBSET T : f[U] = Step(f, U)
<1>4. \A T \in SUBSET S : \A f \in [SUBSET T -> Int] :
          FollowsFold(f, T, 0, c, h) => Rec(f, T)
  <2> SUFFICES ASSUME NEW T \in SUBSET S, NEW f \in [SUBSET T -> Int],
                      FollowsFold(f, T, 0, c, h)
               PROVE  Rec(f, T)
    BY Zenon
  <2>1. \A U \in SUBSET T : f[U] = IF U = {} THEN 0
                      ELSE g[CHOOSE x \in U : TRUE] + f[U \ {CHOOSE x \in U : TRUE}]
    <3> SUFFICES ASSUME NEW U \in SUBSET T
                 PROVE  f[U] = IF U = {} THEN 0
                        ELSE g[CHOOSE x \in U : TRUE] + f[U \ {CHOOSE x \in U : TRUE}]
        OBVIOUS
    <3> DEFINE y == CHOOSE x \in U : TRUE
    <3>1. U \in SUBSET S /\ c[U] = y
        OBVIOUS
    <3>2. U # {} => y \in U
        BY <1>1, <3>1
    <3> HIDE DEF c
    <3>3. f[U] = IF U = {} THEN 0 ELSE h[<<c[U], f[U \ {c[U]}]>>]
        BY DEF FollowsFold
    <3> HIDE DEF y
    <3>4. f[U] = IF U = {} THEN 0 ELSE g[y] + f[U \ {y}]
        BY <1>3, <3>1, <3>2, <3>3
    <3> QED BY <3>4 DEF y
  <2>2. f = [U \in SUBSET T |-> f[U]]
    OBVIOUS
  <2>3. [U \in SUBSET T |-> f[U]] = [U \in SUBSET T |-> IF U = {} THEN 0
                      ELSE g[CHOOSE x \in U : TRUE] + f[U \ {CHOOSE x \in U : TRUE}]]
    BY <2>1, Zenon
  <2> QED BY <2>1, <2>2, <2>3, Zenon
<1> HIDE DEF c, Rec
<1>5. ASSUME NEW T \in SUBSET S
      PROVE  \E f \in [SUBSET T -> Int] : FollowsFold(f, T, 0, c, h) /\ SumFunctionOnSet(g, T) = f[T]
  <2> DEFINE k == [xv \in T \X Int |-> h[xv]]
  <2>1. IsFiniteSet(T) /\ \A U \in SUBSET T : U # {} => c[U] \in U
    BY <1>1, FS_Subset
  <2>2. k \in [T \X Int -> Int] /\ \A x \in T, v \in Int : k[<<x, v>>] = h[<<x, v>>]
    BY <1>2
  <2> HIDE DEF k
  <2>3. PICK e \in [SUBSET T -> Int] : FollowsFold(e, T, 0, c, k)
    <3>1. 0 \in Int
        OBVIOUS
    <3> QED BY <2>1, <2>2, <3>1, FoldExists
  <2>4. FollowsFold(e, T, 0, c, h)
    <3> SUFFICES ASSUME NEW U \in SUBSET T
                 PROVE  e[U] = IF U = {} THEN 0 ELSE h[<<c[U], e[U \ {c[U]}]>>]
        BY DEF FollowsFold
    <3>1. e[U] = IF U = {} THEN 0 ELSE k[<<c[U], e[U \ {c[U]}]>>]
        BY <2>3 DEF FollowsFold
    <3>2. e[U \ {c[U]}] \in Int
        OBVIOUS
    <3>3. U # {} => c[U] \in T
        BY <2>1
    <3> QED BY <2>2, <3>1, <3>2, <3>3
  <2> DEFINE Eq(f) == f = [U \in SUBSET T |-> IF U = {} THEN 0
                      ELSE g[CHOOSE x \in U : TRUE] + f[U \ {CHOOSE x \in U : TRUE}]]
             f0 == CHOOSE f : Eq(f)
  <2>5. Eq(e)
    <3>1. Rec(e, T)
        BY <1>4, <2>4
    <3> QED BY <3>1, Zenon DEF Rec
  <2>6. SumFunctionOnSet(g, T) = f0[T]
    BY Zenon DEF SumFunctionOnSet, FoldFunctionOnSet, MapThenFoldSet
  <2>7. Eq(f0)
    BY <2>5, Zenon
  <2> HIDE DEF f0
  <2>8. FollowsFold(f0, T, 0, c, h)
    <3> DEFINE P == {U \in SUBSET T : f0[U] = e[U]}
    <3>1. ASSUME NEW U \in SUBSET T, \A W \in SUBSET U : W # U => W \in P
          PROVE  U \in P
      <4> DEFINE y == CHOOSE x \in U : TRUE
      <4>1. f0[U] = IF U = {} THEN 0 ELSE g[y] + f0[U \ {y}]
        BY <2>7, Zenon
      <4>2. e[U] = IF U = {} THEN 0 ELSE g[y] + e[U \ {y}]
        BY <2>5, Zenon
      <4>3. U # {} => y \in U
        BY Zenon
      <4> HIDE DEF y
      <4>4. U # {} => f0[U \ {y}] = e[U \ {y}]
        BY <3>1, <4>3
      <4> QED BY <4>1, <4>2, <4>4
    <3> HIDE DEF P
    <3>2. \A U \in SUBSET T : U \in P
        BY <2>1, <3>1, SubsetInduction
    <3>3. \A U \in SUBSET T : f0[U] = e[U]
        BY <3>2 DEF P
    <3>4. DOMAIN f0 = SUBSET T
        BY <2>7
    <3> HIDE DEF Eq
    <3>5. \A U \in SUBSET T : f0[U] = IF U = {} THEN 0 ELSE h[<<c[U], f0[U \ {c[U]}]>>]
      <4> SUFFICES ASSUME NEW U \in SUBSET T
                   PROVE f0[U] = IF U = {} THEN 0 ELSE h[<<c[U], f0[U \ {c[U]}]>>]
        OBVIOUS
      <4>1. U \ {c[U]} \in SUBSET T
        OBVIOUS
      <4>2. f0[U] = e[U] /\ f0[U \ {c[U]}] = e[U \ {c[U]}]
        BY <3>3, <4>1
      <4>3. e[U] = IF U = {} THEN 0 ELSE h[<<c[U], e[U \ {c[U]}]>>]
        BY <2>4 DEF FollowsFold
      <4> QED BY <4>2, <4>3
    <3> QED BY <3>5 DEF FollowsFold
  <2>9. f0[T] = e[T]
    BY <2>1, <2>4, <2>8, FoldUnique
  <2> QED BY <2>4, <2>6, <2>9
<1>6. PICK f \in [SUBSET S -> Int] : FollowsFold(f, S, 0, c, h)
  BY <1>5
<1>7. \A T \in SUBSET S : SumFunctionOnSet(g, T) = f[T]
  <2> SUFFICES ASSUME NEW T \in SUBSET S PROVE SumFunctionOnSet(g, T) = f[T]
    OBVIOUS
  <2>1. PICK e \in [SUBSET T -> Int] : FollowsFold(e, T, 0, c, h) /\ SumFunctionOnSet(g, T) = e[T]
    BY <1>5
  <2>2. FollowsFold(f, T, 0, c, h)
    BY <1>6 DEF FollowsFold
  <2>3. IsFiniteSet(T) /\ \A U \in SUBSET T : U # {} => c[U] \in U
    BY <1>1, FS_Subset
  <2>4. e[T] = f[T]
    BY <2>1, <2>2, <2>3, FoldUnique
  <2> QED BY <2>1, <2>4
<1>8. S \in SUBSET S
  OBVIOUS
<1>9. Rec(f, S)
  BY <1>4, <1>6, <1>8
<1>10. ASSUME NEW T \in SUBSET S
       PROVE  (T = {} => f[T] = 0) /\ (T # {} => \E y \in T : f[T] = g[y] + f[T \ {y}])
  <2>1. f[T] = Step(f, T)
    BY <1>9, Zenon DEF Rec
  <2>2. T # {} => (CHOOSE x \in T : TRUE) \in T
    BY Zenon
  <2> QED BY <2>1, <2>2, Zenon
<1> QED BY <1>7, <1>10 DEF Sums

-----------------------------------------------------------------------------
(* Sums over a finite set.                                                 *)

LEMMA SumEmpty == ASSUME NEW g PROVE SumFunctionOnSet(g, {}) = 0
<1> DEFINE S == {}
<1>1. IsFiniteSet(S) /\ \A x \in S : g[x] \in Int
  BY FS_EmptySet
<1>2. PICK f : Sums(f, g, S)
  BY <1>1, SumIsFold
<1>3. S \in SUBSET S
  OBVIOUS
<1> QED BY <1>2, <1>3 DEF Sums

LEMMA SumType ==
    ASSUME NEW S, IsFiniteSet(S), NEW g, \A x \in S : g[x] \in Int
    PROVE  \A T \in SUBSET S : SumFunctionOnSet(g, T) \in Int
<1>1. PICK f : Sums(f, g, S)
  BY SumIsFold
<1>2. \A T \in SUBSET S : f[T] \in Int /\ SumFunctionOnSet(g, T) = f[T]
  BY <1>1 DEF Sums
<1> QED BY <1>2

(* Any element may be taken out first.                                     *)
LEMMA SumRemove ==
    ASSUME NEW S, IsFiniteSet(S), NEW g, \A x \in S : g[x] \in Int
    PROVE  \A y \in S : SumFunctionOnSet(g, S) = g[y] + SumFunctionOnSet(g, S \ {y})
<1> DEFINE F(T) == SumFunctionOnSet(g, T)
<1>1. PICK f : Sums(f, g, S)
  BY SumIsFold
<1>2. \A T \in SUBSET S : f[T] \in Int /\ F(T) = f[T]
  BY <1>1 DEF Sums
<1>3. ASSUME NEW T \in SUBSET S, T # {}
      PROVE  \E y \in T : f[T] = g[y] + f[T \ {y}]
  BY <1>1, <1>3 DEF Sums
<1> HIDE DEF F
<1> DEFINE P == {T \in SUBSET S : \A y \in T : f[T] = g[y] + f[T \ {y}]}
<1>4. ASSUME NEW T \in SUBSET S, \A U \in SUBSET T : U # T => U \in P
      PROVE  T \in P
  <2> SUFFICES ASSUME NEW y \in T PROVE f[T] = g[y] + f[T \ {y}]
    OBVIOUS
  <2>1. PICK z \in T : f[T] = g[z] + f[T \ {z}]
    BY <1>3
  <2>2. CASE z = y
    BY <2>1, <2>2
  <2>3. CASE z # y
    <3>1. f[T \ {z}] = g[y] + f[(T \ {z}) \ {y}]
      <4>1. T \ {z} \in P /\ y \in T \ {z}
        BY <1>4, <2>3
      <4> QED BY <4>1
    <3>2. f[T \ {y}] = g[z] + f[(T \ {y}) \ {z}]
      <4>1. T \ {y} \in P /\ z \in T \ {y}
        BY <1>4, <2>3
      <4> QED BY <4>1
    <3>3. (T \ {z}) \ {y} = (T \ {y}) \ {z}
        OBVIOUS
    <3>4. g[y] \in Int /\ g[z] \in Int /\ f[(T \ {y}) \ {z}] \in Int
      <4>1. (T \ {y}) \ {z} \in SUBSET S
        OBVIOUS
      <4> QED BY <1>2, <4>1
    <3> DEFINE a == f[(T \ {y}) \ {z}]
    <3>5. f[T \ {z}] = g[y] + a /\ f[T \ {y}] = g[z] + a
        BY <3>1, <3>2, <3>3
    <3> HIDE DEF a
    <3> QED BY <2>1, <3>4, <3>5 DEF a
  <2> QED BY <2>2, <2>3
<1> HIDE DEF P
<1>5. \A T \in SUBSET S : T \in P
  BY <1>4, SubsetInduction
<1>6. S \in P
  BY <1>5
<1>7. ASSUME NEW y \in S PROVE F(S) = g[y] + F(S \ {y})
  <2>1. S \in SUBSET S /\ S \ {y} \in SUBSET S
    OBVIOUS
  <2> QED BY <1>2, <1>6, <2>1 DEF P
<1> QED BY <1>7 DEF F

(* The sum depends on the values of the summands only...                   *)
LEMMA SumCong ==
    ASSUME NEW S, IsFiniteSet(S), NEW g, NEW k,
           \A x \in S : g[x] \in Int /\ g[x] = k[x]
    PROVE  SumFunctionOnSet(g, S) = SumFunctionOnSet(k, S)
<1> DEFINE P == {T \in SUBSET S : SumFunctionOnSet(g, T) = SumFunctionOnSet(k, T)}
<1>1. ASSUME NEW T \in SUBSET S, \A U \in SUBSET T : U # T => U \in P
      PROVE  T \in P
  <2>1. CASE T = {}
    BY <2>1, SumEmpty
  <2>2. CASE T # {}
    <3>1. PICK y \in T : TRUE
        BY <2>2
    <3>2. IsFiniteSet(T) /\ \A x \in T : g[x] \in Int /\ k[x] \in Int
        BY FS_Subset
    <3>3. SumFunctionOnSet(g, T) = g[y] + SumFunctionOnSet(g, T \ {y})
        BY <3>1, <3>2, SumRemove
    <3>4. SumFunctionOnSet(k, T) = k[y] + SumFunctionOnSet(k, T \ {y})
        BY <3>1, <3>2, SumRemove
    <3>5. SumFunctionOnSet(g, T \ {y}) = SumFunctionOnSet(k, T \ {y})
        BY <1>1, <3>1
    <3> QED BY <3>3, <3>4, <3>5
  <2> QED BY <2>1, <2>2
<1> HIDE DEF P
<1>2. \A T \in SUBSET S : T \in P
  BY <1>1, SubsetInduction
<1> QED BY <1>2 DEF P

(* ... not on how they are numbered...                                     *)
Renames(e, g, S, k, R) ==
    /\ \A x \in S : e[x] \in R /\ g[x] \in Int /\ g[x] = k[e[x]]
    /\ \A x, y \in S : e[x] = e[y] => x = y
    /\ \A y \in R : \E x \in S : e[x] = y

LEMMA SumReindex ==
    ASSUME NEW S, IsFiniteSet(S), NEW R, NEW e, NEW g, NEW k, Renames(e, g, S, k, R)
    PROVE  SumFunctionOnSet(g, S) = SumFunctionOnSet(k, R)
<1> USE DEF Renames
<1> DEFINE E(T) == {e[x] : x \in T}
           P == {T \in SUBSET S : SumFunctionOnSet(g, T) = SumFunctionOnSet(k, E(T))}
<1>1. ASSUME NEW T \in SUBSET S, \A U \in SUBSET T : U # T => U \in P
      PROVE  T \in P
  <2>1. CASE T = {}
    <3>1. E(T) = {}
        BY <2>1
    <3> QED BY <2>1, <3>1, SumEmpty
  <2>2. CASE T # {}
    <3>1. PICK y \in T : TRUE
        BY <2>2
    <3>2. IsFiniteSet(T) /\ \A x \in T : g[x] \in Int
        BY FS_Subset
    <3>3. IsFiniteSet(E(T)) /\ \A x \in E(T) : k[x] \in Int
      <4> DEFINE eT == [x \in T |-> e[x]]
      <4>1. eT \in Surjection(T, E(T))
        BY DEF Surjection
      <4> QED BY <3>2, <4>1, FS_Surjection
    <3>4. E(T \ {y}) = E(T) \ {e[y]} /\ e[y] \in E(T)
        OBVIOUS
    <3>5. SumFunctionOnSet(g, T) = g[y] + SumFunctionOnSet(g, T \ {y})
        BY <3>1, <3>2, SumRemove
    <3>6. SumFunctionOnSet(k, E(T)) = k[e[y]] + SumFunctionOnSet(k, E(T) \ {e[y]})
      <4> HIDE DEF E
      <4> QED BY <3>3, <3>4, SumRemove
    <3>7. SumFunctionOnSet(g, T \ {y}) = SumFunctionOnSet(k, E(T \ {y}))
        BY <1>1, <3>1
    <3> HIDE DEF E
    <3>8. SumFunctionOnSet(g, T) = SumFunctionOnSet(k, E(T))
        BY <3>1, <3>4, <3>5, <3>6, <3>7
    <3> QED BY <3>8
  <2> QED BY <2>1, <2>2
<1> HIDE DEF P
<1>2. \A T \in SUBSET S : T \in P
  BY <1>1, SubsetInduction
<1>3. SumFunctionOnSet(g, S) = SumFunctionOnSet(k, E(S))
  BY <1>2 DEF P
<1>4. E(S) = R
  OBVIOUS
<1> QED BY <1>3, <1>4

(* ... and changes with a summand.                                         *)
LEMMA SumChange ==
    ASSUME NEW S, IsFiniteSet(S), NEW g, NEW k, NEW y \in S, k[y] \in Int,
           \A x \in S : g[x] \in Int,
           \A x \in S \ {y} : g[x] = k[x]
    PROVE  SumFunctionOnSet(k, S) = SumFunctionOnSet(g, S) + (k[y] - g[y])
<1>1. IsFiniteSet(S \ {y}) /\ \A x \in S : k[x] \in Int
  BY FS_Subset
<1>2. SumFunctionOnSet(g, S \ {y}) = SumFunctionOnSet(k, S \ {y})
  BY <1>1, SumCong
<1>3. SumFunctionOnSet(g, S) = g[y] + SumFunctionOnSet(g, S \ {y})
  BY SumRemove
<1>4. SumFunctionOnSet(k, S) = k[y] + SumFunctionOnSet(k, S \ {y})
  BY <1>1, SumRemove
<1>5. SumFunctionOnSet(g, S \ {y}) \in Int
  BY <1>1, SumType
<1> QED BY <1>1, <1>2, <1>3, <1>4, <1>5

(* A sum of natural numbers is at least each of them.                      *)
LEMMA SumNat ==
    ASSUME NEW S, IsFiniteSet(S), NEW g, \A x \in S : g[x] \in Nat
    PROVE  /\ SumFunctionOnSet(g, S) \in Nat
           /\ \A x \in S : g[x] <= SumFunctionOnSet(g, S)
<1> DEFINE P == {T \in SUBSET S : SumFunctionOnSet(g, T) \in Nat}
<1>1. ASSUME NEW T \in SUBSET S, \A U \in SUBSET T : U # T => U \in P
      PROVE  T \in P
  <2>1. CASE T = {}
    BY <2>1, SumEmpty
  <2>2. CASE T # {}
    <3>1. PICK y \in T : TRUE
        BY <2>2
    <3>2. IsFiniteSet(T) /\ \A x \in T : g[x] \in Int
        BY FS_Subset
    <3>3. SumFunctionOnSet(g, T) = g[y] + SumFunctionOnSet(g, T \ {y})
        BY <3>1, <3>2, SumRemove
    <3>4. T \ {y} \in P
        BY <1>1, <3>1
    <3> QED BY <3>3, <3>4
  <2> QED BY <2>1, <2>2
<1> HIDE DEF P
<1>2. \A T \in SUBSET S : T \in P
  BY <1>1, SubsetInduction
<1>3. \A T \in SUBSET S : SumFunctionOnSet(g, T) \in Nat
  BY <1>2 DEF P
<1>4. ASSUME NEW x \in S PROVE g[x] <= SumFunctionOnSet(g, S)
  <2>1. SumFunctionOnSet(g, S) = g[x] + SumFunctionOnSet(g, S \ {x})
    BY SumRemove
  <2>2. SumFunctionOnSet(g, S \ {x}) \in Nat
    BY <1>3
  <2> QED BY <2>1, <2>2
<1> QED BY <1>3, <1>4

(* A sum of larger summands is not smaller.                                *)
LEMMA SumLe ==
    ASSUME NEW S, IsFiniteSet(S), NEW g, NEW k,
           \A x \in S : g[x] \in Nat /\ k[x] \in Nat /\ g[x] <= k[x]
    PROVE  SumFunctionOnSet(g, S) <= SumFunctionOnSet(k, S)
<1> DEFINE P == {T \in SUBSET S : SumFunctionOnSet(g, T) <= SumFunctionOnSet(k, T)}
<1>1. ASSUME NEW T \in SUBSET S, \A U \in SUBSET T : U # T => U \in P
      PROVE  T \in P
  <2>1. CASE T = {}
    <3>1. SumFunctionOnSet(g, T) = 0 /\ SumFunctionOnSet(k, T) = 0
        BY <2>1, SumEmpty
    <3> QED BY <3>1
  <2>2. CASE T # {}
    <3>1. PICK y \in T : TRUE
        BY <2>2
    <3>2. IsFiniteSet(T) /\ IsFiniteSet(T \ {y}) /\ \A x \in T : g[x] \in Int /\ k[x] \in Int
        BY FS_Subset
    <3>3. SumFunctionOnSet(g, T) = g[y] + SumFunctionOnSet(g, T \ {y})
        BY <3>1, <3>2, SumRemove
    <3>4. SumFunctionOnSet(k, T) = k[y] + SumFunctionOnSet(k, T \ {y})
        BY <3>1, <3>2, SumRemove
    <3>5. SumFunctionOnSet(g, T \ {y}) <= SumFunctionOnSet(k, T \ {y})
        BY <1>1, <3>1
    <3>6. SumFunctionOnSet(g, T \ {y}) \in Int /\ SumFunctionOnSet(k, T \ {y}) \in Int
        BY <3>2, SumType
    <3>7. g[y] \in Nat /\ k[y] \in Nat /\ g[y] <= k[y]
        BY <3>1
    <3> QED BY <3>3, <3>4, <3>5, <3>6, <3>7
  <2> QED BY <2>1, <2>2
<1> HIDE DEF P
<1>2. \A T \in SUBSET S : T \in P
  BY <1>1, SubsetInduction
<1> QED BY <1>2 DEF P
=============================================================================
