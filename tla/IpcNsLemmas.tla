---------------------------- MODULE IpcNsLemmas -----------------------------
(***************************************************************************)
(* Lemmas about IpcNs: the stacks of calls under way as lists of frames,   *)
(* the counts of frames of a kind and what a step does to them, and for    *)
(* each step of a call what the inductive invariant says before it and     *)
(* which parts of it hold after.                                           *)
(***************************************************************************)
EXTENDS IpcNs, DataLemmas

-----------------------------------------------------------------------------
(* Stacks of frames.                                                       *)

(* The frames of S in a stack are counted.                                 *)
LEMMA TimesNat ==
    ASSUME NEW F, NEW stk \in Seq(F), NEW S
    PROVE  /\ IsFiniteSet({i \in DOMAIN stk : stk[i] \in S})
           /\ Times(stk, S) \in Nat
           /\ Times(stk, S) = 0 <=> \A i \in DOMAIN stk : stk[i] \notin S
<1>1. DOMAIN stk = 1 .. Len(stk) /\ Len(stk) \in Nat
  OBVIOUS
<1>2. IsFiniteSet(1 .. Len(stk))
  BY <1>1, FS_Interval
<1>3. {i \in DOMAIN stk : stk[i] \in S} \in SUBSET (1 .. Len(stk))
  BY <1>1
<1>4. IsFiniteSet({i \in DOMAIN stk : stk[i] \in S})
  BY <1>2, <1>3, FS_Subset
<1> QED BY <1>4, FS_CardinalityType, FS_EmptySet DEF Times

(* Two stacks, one upon the other...                                       *)
LEMMA CatPlaces ==
    ASSUME NEW F, NEW s \in Seq(F), NEW r \in Seq(F)
    PROVE  /\ s \o r \in Seq(F) /\ Len(s \o r) = Len(s) + Len(r) /\ Len(s) \in Nat
           /\ \A i \in 1 .. Len(s) : (s \o r)[i] = s[i]
           /\ \A i \in Len(s) + 1 .. Len(s) + Len(r) : (s \o r)[i] = r[i - Len(s)]
    OBVIOUS

(* ...have the frames of both.                                             *)
LEMMA TimesCat ==
    ASSUME NEW F, NEW s \in Seq(F), NEW r \in Seq(F), NEW S
    PROVE  Times(s \o r, S) = Times(s, S) + Times(r, S)
<1> DEFINE A == {i \in DOMAIN s : s[i] \in S}
           B == {i \in DOMAIN r : r[i] \in S}
           C == {i \in DOMAIN (s \o r) : (s \o r)[i] \in S}
           D == {i \in C : i > Len(s)}
<1>1. /\ s \o r \in Seq(F) /\ Len(s \o r) = Len(s) + Len(r)
      /\ \A i \in 1 .. Len(s) : (s \o r)[i] = s[i]
      /\ \A i \in Len(s) + 1 .. Len(s) + Len(r) : (s \o r)[i] = r[i - Len(s)]
  BY CatPlaces
<1>2. /\ DOMAIN s = 1 .. Len(s) /\ DOMAIN r = 1 .. Len(r) /\ Len(s) \in Nat /\ Len(r) \in Nat
      /\ DOMAIN (s \o r) = 1 .. Len(s) + Len(r)
  BY <1>1
<1>3. IsFiniteSet(A) /\ IsFiniteSet(B) /\ IsFiniteSet(C)
  BY <1>1, TimesNat
<1>4. ExistsBijection(B, D)
  <2> DEFINE f == [i \in B |-> i + Len(s)]
  <2>1. f \in [B -> D]
    BY <1>1, <1>2
  <2>2. \A i, j \in B : f[i] = f[j] => i = j
    BY <1>2
  <2>3. ASSUME NEW k \in D PROVE \E i \in B : f[i] = k
    <3>1. k \in Len(s) + 1 .. Len(s) + Len(r) /\ r[k - Len(s)] \in S
        BY <1>1, <1>2
    <3>2. k - Len(s) \in B /\ (k - Len(s)) + Len(s) = k
        BY <1>2, <3>1
    <3> QED BY <3>2
  <2> HIDE DEF f
  <2>4. f \in Bijection(B, D)
    BY <2>1, <2>2, <2>3 DEF Bijection, Injection, Surjection, IsInjective
  <2> QED BY <2>4 DEF ExistsBijection
<1>5. IsFiniteSet(D) /\ Cardinality(D) = Cardinality(B)
  BY <1>3, <1>4, FS_Bijection
<1>6. C = A \cup D /\ A \cap D = {}
  BY <1>1, <1>2
<1>7. Cardinality(A \cap D) = 0
  BY <1>6, FS_EmptySet
<1> HIDE DEF A, B, C, D
<1>8. Cardinality(C) = Cardinality(A) + Cardinality(D) - Cardinality(A \cap D)
  BY <1>3, <1>5, <1>6, FS_Union
<1>9. Cardinality(A) \in Nat /\ Cardinality(D) \in Nat
  BY <1>3, <1>5, FS_CardinalityType
<1>10. Times(s \o r, S) = Cardinality(C) /\ Times(s, S) = Cardinality(A) /\ Times(r, S) = Cardinality(B)
  BY Zenon DEF Times, A, B, C
<1> QED BY <1>5, <1>7, <1>8, <1>9, <1>10

(* One frame.                                                              *)
LEMMA TimesOne ==
    ASSUME NEW F, NEW f \in F, NEW S
    PROVE  Times(<<f>>, S) = IF f \in S THEN 1 ELSE 0
<1>1. DOMAIN <<f>> = {1} /\ <<f>>[1] = f
  OBVIOUS
<1>2. {i \in DOMAIN <<f>> : <<f>>[i] \in S} = IF f \in S THEN {1} ELSE {}
  BY <1>1
<1> QED BY <1>2, FS_Singleton, FS_EmptySet DEF Times

(* Two or more frames are put together.                                    *)
LEMMA Cat2 ==
    ASSUME NEW F, NEW a \in F, NEW b \in F
    PROVE  <<a, b>> = <<a>> \o <<b>>
<1>1. <<a>> \in Seq(F) /\ <<b>> \in Seq(F) /\ <<a, b>> \in Seq(F)
  OBVIOUS
<1>2. <<a>> \o <<b>> \in Seq(F) /\ Len(<<a>> \o <<b>>) = 2 /\ Len(<<a, b>>) = 2
  BY <1>1
<1>3. \A i \in 1 .. 2 : (<<a>> \o <<b>>)[i] = <<a, b>>[i]
  BY <1>1
<1> QED BY <1>1, <1>2, <1>3, SeqEqual

(* Three...                                                                *)
LEMMA Cat3 ==
    ASSUME NEW F, NEW a \in F, NEW b \in F, NEW c \in F
    PROVE  <<a, b, c>> = <<a, b>> \o <<c>>
<1>1. <<a, b>> \in Seq(F) /\ <<c>> \in Seq(F) /\ <<a, b, c>> \in Seq(F)
  OBVIOUS
<1>2. <<a, b>> \o <<c>> \in Seq(F) /\ Len(<<a, b>> \o <<c>>) = 3 /\ Len(<<a, b, c>>) = 3
  BY <1>1
<1>3. \A i \in 1 .. 3 : (<<a, b>> \o <<c>>)[i] = <<a, b, c>>[i]
  BY <1>1
<1> QED BY <1>1, <1>2, <1>3, SeqEqual

(* ...and five.                                                            *)
LEMMA Cat5 ==
    ASSUME NEW F, NEW a \in F, NEW b \in F, NEW c \in F, NEW d \in F, NEW e \in F
    PROVE  <<a, b, c, d, e>> = <<a, b, c>> \o <<d, e>>
<1>1. <<a, b, c>> \in Seq(F) /\ <<d, e>> \in Seq(F) /\ <<a, b, c, d, e>> \in Seq(F)
  OBVIOUS
<1>2. <<a, b, c>> \o <<d, e>> \in Seq(F) /\ Len(<<a, b, c>> \o <<d, e>>) = 5 /\ Len(<<a, b, c, d, e>>) = 5
  BY <1>1
<1>3. \A i \in 1 .. 5 : (<<a, b, c>> \o <<d, e>>)[i] = <<a, b, c, d, e>>[i]
  BY <1>1
<1> QED BY <1>1, <1>2, <1>3, SeqEqual

In(f, S) == IF f \in S THEN 1 ELSE 0

(* The frames of a call that are pushed together.                          *)
LEMMA TimesTuple ==
    ASSUME NEW F, NEW a \in F, NEW b \in F, NEW c \in F, NEW d \in F, NEW e \in F, NEW S
    PROVE  /\ Times(<<>>, S) = 0
           /\ Times(<<a>>, S) = In(a, S)
           /\ Times(<<a, b>>, S) = In(a, S) + In(b, S)
           /\ Times(<<a, b, c>>, S) = In(a, S) + In(b, S) + In(c, S)
           /\ Times(<<a, b, c, d, e>>, S) = In(a, S) + In(b, S) + In(c, S) + In(d, S) + In(e, S)
<1>0. Times(<<>>, S) = 0
  <2>1. <<>> \in Seq(F) /\ \A i \in DOMAIN <<>> : <<>>[i] \notin S
    OBVIOUS
  <2> QED BY <2>1, TimesNat
<1>1. \A x \in F : <<x>> \in Seq(F) /\ Times(<<x>>, S) = In(x, S)
  BY TimesOne DEF In
<1>2. ASSUME NEW x \in F, NEW y \in F
      PROVE  <<x, y>> \in Seq(F) /\ Times(<<x, y>>, S) = In(x, S) + In(y, S)
  <2>1. <<x>> \in Seq(F) /\ <<y>> \in Seq(F) /\ <<x, y>> \in Seq(F)
    OBVIOUS
  <2>2. Times(<<x>> \o <<y>>, S) = Times(<<x>>, S) + Times(<<y>>, S)
    BY <2>1, TimesCat
  <2>3. <<x, y>> = <<x>> \o <<y>>
    BY Cat2
  <2> QED BY <1>1, <2>1, <2>2, <2>3
<1>3. <<a, b, c>> \in Seq(F) /\ Times(<<a, b, c>>, S) = In(a, S) + In(b, S) + In(c, S)
  <2>1. <<a, b>> \in Seq(F) /\ <<c>> \in Seq(F) /\ <<a, b, c>> \in Seq(F)
    OBVIOUS
  <2>2. Times(<<a, b>> \o <<c>>, S) = Times(<<a, b>>, S) + Times(<<c>>, S)
    BY <2>1, TimesCat
  <2>3. <<a, b, c>> = <<a, b>> \o <<c>>
    BY Cat3
  <2>4. Times(<<a, b>>, S) = In(a, S) + In(b, S) /\ Times(<<c>>, S) = In(c, S)
    BY <1>1, <1>2
  <2> QED BY <2>1, <2>2, <2>3, <2>4
<1>5. <<a, b, c, d, e>> = <<a, b, c>> \o <<d, e>>
  BY Cat5
<1>6. Times(<<a, b, c>> \o <<d, e>>, S) = Times(<<a, b, c>>, S) + Times(<<d, e>>, S)
  <2>1. <<a, b, c>> \in Seq(F) /\ <<d, e>> \in Seq(F)
    OBVIOUS
  <2> QED BY <2>1, TimesCat
<1>7. Times(<<d, e>>, S) = In(d, S) + In(e, S) /\ Times(<<a, b>>, S) = In(a, S) + In(b, S)
  BY <1>2
<1>8. \A f \in F : In(f, S) \in Nat
  BY DEF In
<1>9. Times(<<a, b, c, d, e>>, S) = In(a, S) + In(b, S) + In(c, S) + In(d, S) + In(e, S)
  <2>1. In(a, S) \in Nat /\ In(b, S) \in Nat /\ In(c, S) \in Nat /\ In(d, S) \in Nat /\ In(e, S) \in Nat
    BY <1>8
  <2>2. Times(<<a, b, c, d, e>>, S) = Times(<<a, b, c>>, S) + Times(<<d, e>>, S)
    BY <1>5, <1>6
  <2> QED BY <1>3, <1>7, <2>1, <2>2
<1>10. Times(<<a>>, S) = In(a, S)
  BY <1>1
<1> QED BY <1>0, <1>10, <1>3, <1>7, <1>9

-----------------------------------------------------------------------------
(* What a step does to the stacks: fs takes the place of the top frame, or *)
(* starts the call of an idle thread.                                      *)
Moves(t, fs) ==
    \/ stack[t] # <<>> /\ stack' = [stack EXCEPT ![t] = fs \o Tail(stack[t])]
    \/ stack[t] = <<>> /\ stack' = [stack EXCEPT ![t] = fs]

Drop(t) == IF stack[t] = <<>> THEN 0 ELSE 1
Top(t, S) == IF stack[t] # <<>> /\ Head(stack[t]) \in S THEN 1 ELSE 0

(* Where the frames are after it.                                          *)
LEMMA MoveStack ==
    ASSUME stack \in [Threads -> Seq(FrameSet)], NEW t \in Threads, NEW fs \in Seq(FrameSet),
           Moves(t, fs)
    PROVE  /\ stack' \in [Threads -> Seq(FrameSet)]
           /\ \A u \in Threads : u # t => stack'[u] = stack[u]
           /\ Len(stack'[t]) = Len(fs) + Len(stack[t]) - Drop(t)
           /\ \A i \in 1 .. Len(fs) : stack'[t][i] = fs[i]
           /\ \A i \in 1 .. Len(stack[t]) : i > Drop(t) =>
                 stack'[t][i + Len(fs) - Drop(t)] = stack[t][i]
           /\ \A i \in 1 .. Len(stack'[t]) : i > Len(fs) =>
                 /\ i - Len(fs) + Drop(t) \in 1 .. Len(stack[t])
                 /\ stack'[t][i] = stack[t][i - Len(fs) + Drop(t)]
<1>1. CASE stack[t] = <<>>
  <2>1. stack' = [stack EXCEPT ![t] = fs] /\ Drop(t) = 0 /\ Len(stack[t]) = 0
    BY <1>1 DEF Moves, Drop
  <2>2. stack'[t] = fs /\ \A u \in Threads : u # t => stack'[u] = stack[u]
    BY <2>1
  <2> QED BY <2>1, <2>2
<1>2. CASE stack[t] # <<>>
  <2>r. PICK r : r = Tail(stack[t])
    OBVIOUS
  <2>1. stack' = [stack EXCEPT ![t] = fs \o r] /\ Drop(t) = 1
    BY <1>2, <2>r DEF Moves, Drop
  <2>2. /\ stack[t] \in Seq(FrameSet) /\ r \in Seq(FrameSet) /\ Len(stack[t]) \in Nat \ {0}
        /\ Len(r) = Len(stack[t]) - 1 /\ \A i \in 1 .. Len(stack[t]) - 1 : r[i] = stack[t][i + 1]
    BY <1>2, <2>r
  <2>3. /\ stack'[t] = fs \o r /\ stack' \in [Threads -> Seq(FrameSet)]
        /\ \A u \in Threads : u # t => stack'[u] = stack[u]
    BY <2>1, <2>2
  <2>4. /\ Len(fs \o r) = Len(fs) + Len(r) /\ Len(fs) \in Nat
        /\ \A i \in 1 .. Len(fs) : (fs \o r)[i] = fs[i]
        /\ \A i \in Len(fs) + 1 .. Len(fs) + Len(r) : (fs \o r)[i] = r[i - Len(fs)]
    <3>1. fs \in Seq(FrameSet) /\ r \in Seq(FrameSet)
        BY <2>2
    <3> QED BY <3>1, CatPlaces
  <2>5. ASSUME NEW i \in 1 .. Len(stack[t]), i > 1
        PROVE  stack'[t][i + Len(fs) - 1] = stack[t][i]
    <3>1. i + Len(fs) - 1 \in Len(fs) + 1 .. Len(fs) + Len(r) /\ i - 1 \in 1 .. Len(stack[t]) - 1
        BY <2>2, <2>4, <2>5
    <3>2. (fs \o r)[i + Len(fs) - 1] = r[(i + Len(fs) - 1) - Len(fs)]
        BY <2>4, <3>1
    <3>3. (i + Len(fs) - 1) - Len(fs) = i - 1 /\ (i - 1) + 1 = i
        BY <2>4
    <3> QED BY <2>2, <2>3, <3>1, <3>2, <3>3
  <2>6. ASSUME NEW i \in 1 .. Len(stack'[t]), i > Len(fs)
        PROVE  /\ i - Len(fs) + 1 \in 1 .. Len(stack[t])
               /\ stack'[t][i] = stack[t][i - Len(fs) + 1]
    <3>1. i \in Len(fs) + 1 .. Len(fs) + Len(r) /\ i - Len(fs) \in 1 .. Len(stack[t]) - 1
        BY <2>2, <2>3, <2>4, <2>6
    <3> QED BY <2>2, <2>3, <2>4, <3>1
  <2> QED BY <2>1, <2>2, <2>3, <2>4, <2>5, <2>6
<1> QED BY <1>1, <1>2

(* Threads are finitely many.                                              *)
LEMMA FiniteThreads == IsFiniteSet(Threads)
    BY NsConstants, FS_AddElement DEF Threads

(* The sum of all values of a function.                                    *)
LEMMA FunSum ==
    ASSUME NEW S, NEW g, DOMAIN g = S
    PROVE  SumFunction(g) = SumFunctionOnSet(g, S)
    BY DEF SumFunction

(* A sum of zeros.                                                         *)
LEMMA SumAllZero ==
    ASSUME NEW S, IsFiniteSet(S), NEW g, \A x \in S : g[x] = 0
    PROVE  SumFunctionOnSet(g, S) = 0
<1> DEFINE P == {T \in SUBSET S : SumFunctionOnSet(g, T) = 0}
<1>1. ASSUME NEW T \in SUBSET S, \A U \in SUBSET T : U # T => U \in P
      PROVE  T \in P
  <2>1. CASE T = {}
    BY <2>1, SumEmpty
  <2>2. ASSUME NEW y \in T PROVE T \in P
    <3>1. T \ {y} \in P
        BY <1>1, <2>2
    <3>2. IsFiniteSet(T)
        BY FS_Subset
    <3>3. SumFunctionOnSet(g, T) = g[y] + SumFunctionOnSet(g, T \ {y})
        BY <2>2, <3>2, SumRemove
    <3> QED BY <2>2, <3>1, <3>3
  <2> QED BY <2>1, <2>2
<1> HIDE DEF P
<1>2. \A T \in SUBSET S : T \in P
  BY <1>1, SubsetInduction
<1> QED BY <1>2 DEF P

(* How many frames of S there are after it.                                *)
LEMMA MoveTotal ==
    ASSUME stack \in [Threads -> Seq(FrameSet)], NEW t \in Threads, NEW fs \in Seq(FrameSet),
           Moves(t, fs), NEW S
    PROVE  Total(S)' = Total(S) + Times(fs, S) - Top(t, S)
<1>0. stack' \in [Threads -> Seq(FrameSet)] /\ \A u \in Threads : u # t => stack'[u] = stack[u]
  BY MoveStack
<1>1. PICK G, K : /\ G = [u \in Threads |-> Times(stack[u], S)]
                  /\ K = [u \in Threads |-> Times(stack'[u], S)]
  OBVIOUS
<1>2. /\ \A u \in Threads : G[u] = Times(stack[u], S) /\ G[u] \in Int
      /\ \A u \in Threads : K[u] = Times(stack'[u], S) /\ K[u] \in Int
      /\ DOMAIN G = Threads /\ DOMAIN K = Threads
  <2>1. \A u \in Threads : Times(stack[u], S) \in Nat /\ Times(stack'[u], S) \in Nat
    BY <1>0, TimesNat
  <2> QED BY <1>1, <2>1
<1>3. \A u \in Threads \ {t} : G[u] = K[u]
  BY <1>0, <1>2
<1>4. SumFunctionOnSet(K, Threads) = SumFunctionOnSet(G, Threads) + (K[t] - G[t])
  <2>1. K[t] \in Int /\ \A x \in Threads : G[x] \in Int
    BY <1>2
  <2> QED BY <1>3, <2>1, FiniteThreads, SumChange
<1>5. Total(S) = SumFunctionOnSet(G, Threads) /\ Total(S)' = SumFunctionOnSet(K, Threads)
  <2>1. Total(S) = SumFunction(G) /\ Total(S)' = SumFunction(K)
    BY <1>1 DEF Total
  <2> QED BY <1>2, <2>1, FunSum
<1>6. SumFunctionOnSet(G, Threads) \in Int
  BY <1>2, FiniteThreads, SumType
<1>7. K[t] - G[t] = Times(fs, S) - Top(t, S)
  <2>0. Times(fs, S) \in Nat
    BY TimesNat
  <2>1. CASE stack[t] = <<>>
    <3>1. stack'[t] = fs /\ Top(t, S) = 0 /\ Times(stack[t], S) = 0
      <4>1. stack'[t] = fs /\ Top(t, S) = 0
        BY <2>1 DEF Moves, Top
      <4>2. \A i \in DOMAIN stack[t] : stack[t][i] \notin S
        BY <2>1
      <4> QED BY <4>1, <4>2, TimesNat
    <3> QED BY <1>2, <2>0, <3>1
  <2>2. CASE stack[t] # <<>>
    <3>0. PICK r, h : r = Tail(stack[t]) /\ h = Head(stack[t])
        OBVIOUS
    <3>1. r = Tail(stack[t]) /\ h = Head(stack[t]) /\ r \in Seq(FrameSet) /\ h \in FrameSet
        BY <2>2, <3>0
    <3>2. stack'[t] = fs \o r
        BY <2>2, <3>1 DEF Moves
    <3>3. stack[t] = <<h>> \o r /\ <<h>> \in Seq(FrameSet)
      <4>1. /\ <<h>> \in Seq(FrameSet) /\ <<h>> \o r \in Seq(FrameSet)
            /\ stack[t] \in Seq(FrameSet)
            /\ Len(<<h>> \o r) = Len(stack[t])
        BY <2>2, <3>1
      <4>2. \A i \in 1 .. Len(stack[t]) : stack[t][i] = (<<h>> \o r)[i]
        BY <2>2, <3>1
      <4> QED BY <4>1, <4>2, SeqEqual
    <3>4. Times(stack'[t], S) = Times(fs, S) + Times(r, S)
      <4>1. Times(fs \o r, S) = Times(fs, S) + Times(r, S)
        BY <3>1, TimesCat
      <4> QED BY <3>2, <4>1
    <3>5. Times(stack[t], S) = Times(<<h>>, S) + Times(r, S)
      <4>1. Times(<<h>> \o r, S) = Times(<<h>>, S) + Times(r, S)
        BY <3>1, <3>3, TimesCat
      <4> QED BY <3>3, <4>1
    <3>6. Times(<<h>>, S) = Top(t, S)
        BY <2>2, <3>1, TimesOne DEF Top
    <3>7. Times(r, S) \in Nat /\ Top(t, S) \in Nat
        BY <3>1, TimesNat DEF Top
    <3> QED BY <1>2, <2>0, <3>4, <3>5, <3>6, <3>7
  <2> QED BY <2>1, <2>2
<1>8. Times(fs, S) \in Nat /\ Top(t, S) \in Nat
  BY TimesNat DEF Top
<1> QED BY <1>4, <1>5, <1>6, <1>7, <1>8

(* A frame is somewhere if and only if it is counted, and a frame that is  *)
(* counted once is in one place.                                           *)
LEMMA TotalPlaces ==
    ASSUME stack \in [Threads -> Seq(FrameSet)], NEW S
    PROVE  /\ Total(S) \in Nat
           /\ Total(S) = 0 <=> \A t \in Threads : \A i \in DOMAIN stack[t] : stack[t][i] \notin S
           /\ Total(S) <= 1 =>
                \A t, u \in Threads : \A i \in DOMAIN stack[t], j \in DOMAIN stack[u] :
                   stack[t][i] \in S /\ stack[u][j] \in S => t = u /\ i = j
<1>1. PICK G : G = [u \in Threads |-> Times(stack[u], S)]
  OBVIOUS
<1>2. \A u \in Threads : G[u] = Times(stack[u], S) /\ G[u] \in Nat
  BY <1>1, TimesNat
<1>3. Total(S) = SumFunctionOnSet(G, Threads)
  BY <1>1, FunSum DEF Total
<1>4. Total(S) \in Nat /\ \A u \in Threads : G[u] <= Total(S)
  BY <1>2, <1>3, FiniteThreads, SumNat
<1>5. ASSUME Total(S) = 0 PROVE \A t \in Threads : \A i \in DOMAIN stack[t] : stack[t][i] \notin S
  <2>1. \A u \in Threads : G[u] = 0
    BY <1>2, <1>4, <1>5
  <2> QED BY <1>2, <2>1, TimesNat
<1>6. ASSUME \A t \in Threads : \A i \in DOMAIN stack[t] : stack[t][i] \notin S PROVE Total(S) = 0
  <2>1. \A u \in Threads : G[u] = 0
    BY <1>2, <1>6, TimesNat
  <2>2. PICK Z : Z = [u \in Threads |-> 0]
    OBVIOUS
  <2>3. SumFunctionOnSet(G, Threads) = 0
    BY <1>2, <2>1, FiniteThreads, SumAllZero
  <2> QED BY <1>3, <2>3
<1>7. ASSUME Total(S) <= 1, NEW t \in Threads, NEW u \in Threads,
             NEW i \in DOMAIN stack[t], NEW j \in DOMAIN stack[u],
             stack[t][i] \in S, stack[u][j] \in S
      PROVE  t = u /\ i = j
  <2>0. Times(stack[t], S) # 0 /\ Times(stack[u], S) # 0
    BY <1>7, TimesNat
  <2>1. G[t] >= 1 /\ G[u] >= 1
    BY <1>2, <2>0
  <2>2. ASSUME t # u PROVE FALSE
    <3>1. SumFunctionOnSet(G, Threads) = G[t] + SumFunctionOnSet(G, Threads \ {t})
      <4>1. \A x \in Threads : G[x] \in Int
        BY <1>2
      <4> QED BY <4>1, FiniteThreads, SumRemove
    <3>2. IsFiniteSet(Threads \ {t}) /\ u \in Threads \ {t}
        BY <2>2, FiniteThreads, FS_RemoveElement
    <3>3. G[u] <= SumFunctionOnSet(G, Threads \ {t}) /\ SumFunctionOnSet(G, Threads \ {t}) \in Nat
      <4>1. \A x \in Threads \ {t} : G[x] \in Nat
        BY <1>2
      <4> QED BY <3>2, <4>1, SumNat
    <3> QED BY <1>2, <1>3, <1>7, <2>1, <3>1, <3>3
  <2>3. ASSUME i # j PROVE FALSE
    <3> DEFINE I == {k \in DOMAIN stack[t] : stack[t][k] \in S}
    <3>1. IsFiniteSet(I) /\ Cardinality(I) = Times(stack[t], S)
        BY TimesNat DEF Times
    <3>2. i \in I /\ j \in I
        BY <1>7, <2>2
    <3>3. Cardinality(I) = 1
        BY <1>2, <1>4, <1>7, <2>1, <3>1
    <3>4. PICK x : I = {x}
        BY <3>1, <3>3, FS_Singleton
    <3> QED BY <2>3, <3>2, <3>4
  <2> QED BY <2>2, <2>3
<1> QED BY <1>4, <1>5, <1>6, <1>7

-----------------------------------------------------------------------------
(* The frames that stay.                                                   *)

(* What is below a frame stays below it.                                   *)
LEMMA BelowStays ==
    ASSUME stack \in [Threads -> Seq(FrameSet)], NEW t \in Threads, NEW fs \in Seq(FrameSet),
           Moves(t, fs), NEW S, NEW i \in 1 .. Len(stack'[t]), i > Len(fs),
           Below(t, i - Len(fs) + Drop(t), S)
    PROVE  Below(t, i, S)'
<1> DEFINE m == Len(fs)
           d == Drop(t)
<1>1. m \in Nat /\ d \in {0, 1} /\ Len(stack[t]) \in Nat /\ DOMAIN stack[t] = 1 .. Len(stack[t])
  BY DEF Drop
<1>2. /\ stack' \in [Threads -> Seq(FrameSet)] /\ Len(stack'[t]) = m + Len(stack[t]) - d
      /\ \A k \in 1 .. Len(stack[t]) : k > d => stack'[t][k + m - d] = stack[t][k]
  BY MoveStack
<1>3. DOMAIN stack'[t] = 1 .. Len(stack'[t]) /\ i - m + d \in Nat
  BY <1>1, <1>2
<1>4. PICK j \in 1 .. Len(stack[t]) : j > i - m + d /\ stack[t][j] \in S
  BY <1>1 DEF Below
<1> HIDE DEF m, d
<1>5. j > d /\ j + m - d \in 1 .. Len(stack'[t]) /\ j + m - d > i
  BY <1>1, <1>2, <1>4 DEF m
<1>6. stack'[t][j + m - d] \in S
  BY <1>2, <1>4, <1>5
<1> QED BY <1>3, <1>5, <1>6 DEF Below

(* Calls keep their shape.                                                 *)
LEMMA ShapeStep ==
    ASSUME stack \in [Threads -> Seq(FrameSet)], ShapeInv,
           NEW t \in Threads, NEW fs \in Seq(FrameSet), Moves(t, fs),
           At(t, "nr_inc") => fs = <<>>,
           \A i \in 1 .. Len(fs) : Shape(t, i)'
    PROVE  ShapeInv'
<1>1. /\ stack' \in [Threads -> Seq(FrameSet)]
      /\ \A u \in Threads : u # t => stack'[u] = stack[u]
      /\ Len(stack'[t]) = Len(fs) + Len(stack[t]) - Drop(t)
      /\ \A k \in 1 .. Len(stack[t]) : k > Drop(t) =>
            stack'[t][k + Len(fs) - Drop(t)] = stack[t][k]
      /\ \A k \in 1 .. Len(stack'[t]) : k > Len(fs) =>
            /\ k - Len(fs) + Drop(t) \in 1 .. Len(stack[t])
            /\ stack'[t][k] = stack[t][k - Len(fs) + Drop(t)]
  BY MoveStack
<1>2. ASSUME NEW u \in Threads, u # t, NEW i \in DOMAIN stack'[u] PROVE Shape(u, i)'
  <2>1. stack'[u] = stack[u] /\ Shape(u, i)
    BY <1>1, <1>2 DEF ShapeInv
  <2> QED BY <2>1 DEF Shape, Below, ArgsOK
<1>3. ASSUME NEW i \in 1 .. Len(stack'[t]), i > Len(fs) PROVE Shape(t, i)'
  <2> DEFINE f == stack'[t][i]
             k == i - Len(fs) + Drop(t)
             m == Len(fs)
             L == Len(stack[t])
  <2>1. /\ f = stack[t][k] /\ k \in 1 .. L /\ m \in Nat /\ L \in Nat
        /\ stack[t] \in Seq(FrameSet) /\ DOMAIN stack[t] = 1 .. L
    BY <1>1, <1>3
  <2>2. Drop(t) = 1 /\ k > 1 /\ i = k + m - 1 /\ stack[t] # <<>> /\ Len(stack'[t]) = m + L - 1
    BY <1>1, <1>3, <2>1 DEF Drop
  <2>3. Shape(t, k)
    BY <2>1 DEF ShapeInv
  <2>4. Shape(t, 1) /\ Head(stack[t]) = stack[t][1]
    BY <2>1, <2>2 DEF ShapeInv
  <2>5. \A j \in 1 .. L : j > 1 => stack'[t][j + m - 1] = stack[t][j]
    BY <1>1, <2>2
  <2> HIDE DEF f, k, m, L
  <2>6. ArgsOK(t, f)
    BY <2>1, <2>3 DEF Shape
  <2>7. \A S : Below(t, k, S) => Below(t, i, S)'
    BY <1>3, BelowStays, Zenon DEF k
  <2>8. /\ f.at \notin {"compute", "set", "walk", "store", "oops", "nr_inc"}
        /\ f.at = "switch" => k = L
        /\ f.at = "kfree" => k < L /\ stack[t][k + 1] = Frame("nr_dec", NoNs)
        /\ f.at = "nr_dec" => k < L /\ stack[t][k + 1] = Frame("notify", NoNs)
    <3>1. f.at \notin {"compute", "set", "walk", "store", "oops", "nr_inc"}
        BY <2>1, <2>2, <2>3 DEF Shape
    <3>2. /\ f.at = "switch" => k = Len(stack[t])
          /\ f.at = "kfree" => k < Len(stack[t]) /\ stack[t][k + 1] = Frame("nr_dec", NoNs)
          /\ f.at = "nr_dec" => k < Len(stack[t]) /\ stack[t][k + 1] = Frame("notify", NoNs)
        BY <2>1, <2>3 DEF Shape
    <3> QED BY <3>1, <3>2 DEF L
  <2>9. f.at = "msg_init_ns" =>
             /\ k = 2 /\ At(t, "nr_inc")
             /\ L = k + 3
             /\ stack[t][k + 1] = Frame("notify", NoNs)
             /\ stack[t][k + 2] = Frame("register", f.of)
             /\ stack[t][k + 3] = Frame("switch", f.of)
    <3>1. f.at = "msg_init_ns" =>
             /\ k = 1 \/ (k = 2 /\ stack[t][1] = Frame("nr_inc", f.of))
             /\ Len(stack[t]) = k + 3
             /\ stack[t][k + 1] = Frame("notify", NoNs)
             /\ stack[t][k + 2] = Frame("register", f.of)
             /\ stack[t][k + 3] = Frame("switch", f.of)
        BY <2>1, <2>3 DEF Shape
    <3>2. stack[t][1] = Frame("nr_inc", f.of) => At(t, "nr_inc")
        BY <2>2, <2>4 DEF At, Frame, MkFrame
    <3> QED BY <2>2, <3>1, <3>2 DEF L
  <2>10. /\ f.at = "mq_put_mnt" => Below(t, k, {Frame("kfree", f.of)})
         /\ f.at = "inode" => Below(t, k, {Frame("mntput", f.of)})
         /\ f.at = "uncount" => Below(t, k, {Frame("put", f.of)})
         /\ f.at \in {"compute", "set", "clear"} => Below(t, k, {Frame("register", f.of)})
    BY <2>1, <2>3 DEF Shape
  <2>11. /\ f.at = "mq_put_mnt" => Below(t, i, {Frame("kfree", stack[t][i].of)})'
         /\ f.at = "inode" => Below(t, i, {Frame("mntput", stack[t][i].of)})'
         /\ f.at = "uncount" => Below(t, i, {Frame("put", stack[t][i].of)})'
         /\ f.at \in {"compute", "set", "clear"} => Below(t, i, {Frame("register", stack[t][i].of)})'
    BY <2>7, <2>10, Zenon DEF f, Frame, MkFrame, Below
  <2>12. /\ f.at = "kfree" => i < Len(stack'[t]) /\ stack'[t][i + 1] = Frame("nr_dec", NoNs)
         /\ f.at = "nr_dec" => i < Len(stack'[t]) /\ stack'[t][i + 1] = Frame("notify", NoNs)
         /\ f.at = "switch" => i = Len(stack'[t])
    <3>1. k < L => /\ k + 1 \in 1 .. L /\ k + 1 > 1 /\ (k + 1) + m - 1 = i + 1
                   /\ i < Len(stack'[t])
        BY <2>1, <2>2
    <3>2. k < L => stack'[t][i + 1] = stack[t][k + 1]
        BY <2>5, <3>1
    <3>3. k = L => i = Len(stack'[t])
        BY <2>1, <2>2
    <3> QED BY <2>8, <3>1, <3>2, <3>3
  <2>13. f.at = "msg_init_ns" =>
             /\ i = 1
             /\ Len(stack'[t]) = i + 3
             /\ stack'[t][i + 1] = Frame("notify", NoNs)
             /\ stack'[t][i + 2] = Frame("register", f.of)
             /\ stack'[t][i + 3] = Frame("switch", f.of)
    <3> SUFFICES ASSUME f.at = "msg_init_ns"
                 PROVE  /\ i = 1
                        /\ Len(stack'[t]) = i + 3
                        /\ stack'[t][i + 1] = Frame("notify", NoNs)
                        /\ stack'[t][i + 2] = Frame("register", f.of)
                        /\ stack'[t][i + 3] = Frame("switch", f.of)
        OBVIOUS
    <3>1. k = 2 /\ m = 0 /\ L = 5 /\ i = 1
        BY <2>2, <2>9 DEF m
    <3>2. /\ 3 \in 1 .. L /\ 4 \in 1 .. L /\ 5 \in 1 .. L
          /\ 3 + m - 1 = i + 1 /\ 4 + m - 1 = i + 2 /\ 5 + m - 1 = i + 3
        BY <3>1
    <3>3. stack'[t][i + 1] = stack[t][3] /\ stack'[t][i + 2] = stack[t][4] /\ stack'[t][i + 3] = stack[t][5]
        BY <2>5, <3>2
    <3> QED BY <2>2, <2>9, <3>1, <3>3
  <2> QED BY <2>6, <2>8, <2>11, <2>12, <2>13 DEF Shape, f
<1>4. ASSUME NEW u \in Threads, NEW i \in DOMAIN stack'[u] PROVE Shape(u, i)'
  <2>1. CASE u # t
    BY <1>2, <1>4, <2>1
  <2>2. CASE u = t
    <3>1. i \in 1 .. Len(stack'[t]) /\ Len(fs) \in Nat /\ i \in Nat
        BY <1>1, <1>4, <2>2
    <3>2. CASE i > Len(fs)
        BY <1>3, <2>2, <3>1, <3>2
    <3>3. CASE i \in 1 .. Len(fs)
        BY <2>2, <3>3
    <3> QED BY <3>1, <3>2, <3>3
  <2> QED BY <2>1, <2>2
<1> QED BY <1>4 DEF ShapeInv

-----------------------------------------------------------------------------
(* The frames of a thread, without their order.                            *)
LEMMA FramesStep ==
    ASSUME stack \in [Threads -> Seq(FrameSet)], NEW t \in Threads, NEW fs \in Seq(FrameSet),
           Moves(t, fs)
    PROVE  /\ \A u \in Threads : u # t => Frames(u)' = Frames(u)
           /\ \A f \in Frames(t)' : (\E i \in 1 .. Len(fs) : f = fs[i]) \/ f \in Frames(t)
           /\ \A f \in Frames(t) : f \in Frames(t)' \/ (stack[t] # <<>> /\ f = Head(stack[t]))
           /\ \A i \in 1 .. Len(fs) : fs[i] \in Frames(t)'
           /\ \A u \in Threads : Frames(u) \subseteq FrameSet /\ Frames(u)' \subseteq FrameSet
           /\ stack[t] # <<>> => Head(stack[t]) \in Frames(t)
<1>1. /\ stack' \in [Threads -> Seq(FrameSet)]
      /\ \A u \in Threads : u # t => stack'[u] = stack[u]
      /\ Len(stack'[t]) = Len(fs) + Len(stack[t]) - Drop(t)
      /\ \A i \in 1 .. Len(fs) : stack'[t][i] = fs[i]
      /\ \A k \in 1 .. Len(stack[t]) : k > Drop(t) =>
            stack'[t][k + Len(fs) - Drop(t)] = stack[t][k]
      /\ \A k \in 1 .. Len(stack'[t]) : k > Len(fs) =>
            /\ k - Len(fs) + Drop(t) \in 1 .. Len(stack[t])
            /\ stack'[t][k] = stack[t][k - Len(fs) + Drop(t)]
  BY MoveStack
<1>2. /\ DOMAIN stack[t] = 1 .. Len(stack[t]) /\ DOMAIN stack'[t] = 1 .. Len(stack'[t])
      /\ Len(fs) \in Nat /\ Len(stack[t]) \in Nat /\ Drop(t) \in {0, 1}
      /\ stack[t] # <<>> => Head(stack[t]) = stack[t][1] /\ 1 \in DOMAIN stack[t]
      /\ stack[t] = <<>> <=> Drop(t) = 0
      /\ Drop(t) <= Len(stack[t])
  BY <1>1 DEF Drop
<1>3. \A u \in Threads : u # t => Frames(u)' = Frames(u)
  BY <1>1 DEF Frames
<1>4. ASSUME NEW k \in DOMAIN stack'[t]
      PROVE  (\E i \in 1 .. Len(fs) : stack'[t][k] = fs[i]) \/ stack'[t][k] \in Frames(t)
  <2>1. CASE k > Len(fs)
    BY <1>1, <1>2, <2>1 DEF Frames
  <2>2. CASE k \in 1 .. Len(fs)
    BY <1>1, <2>2
  <2> QED BY <1>2, <2>1, <2>2
<1>5. ASSUME NEW k \in DOMAIN stack[t]
      PROVE  stack[t][k] \in Frames(t)' \/ (stack[t] # <<>> /\ stack[t][k] = Head(stack[t]))
  <2>1. CASE k > Drop(t)
    <3>1. k + Len(fs) - Drop(t) \in DOMAIN stack'[t]
        BY <1>1, <1>2, <2>1
    <3> QED BY <1>1, <1>2, <2>1, <3>1 DEF Frames
  <2>2. CASE k <= Drop(t)
    BY <1>2, <2>2
  <2> QED BY <1>2, <2>1, <2>2
<1>6. ASSUME NEW i \in 1 .. Len(fs) PROVE fs[i] \in Frames(t)'
  <2>1. i \in DOMAIN stack'[t] /\ stack'[t][i] = fs[i]
    BY <1>1, <1>2
  <2> QED BY <2>1 DEF Frames
<1>7. \A u \in Threads : Frames(u) \subseteq FrameSet /\ Frames(u)' \subseteq FrameSet
  BY <1>1 DEF Frames
<1>8. \A f \in Frames(t)' : (\E i \in 1 .. Len(fs) : f = fs[i]) \/ f \in Frames(t)
  <2>1. \A f \in Frames(t)' : \E k \in DOMAIN stack'[t] : f = stack'[t][k]
    BY DEF Frames
  <2> QED BY <1>4, <2>1
<1>9. \A f \in Frames(t) : f \in Frames(t)' \/ (stack[t] # <<>> /\ f = Head(stack[t]))
  <2>1. \A f \in Frames(t) : \E k \in DOMAIN stack[t] : f = stack[t][k]
    BY DEF Frames
  <2> QED BY <1>5, <2>1
<1>10. stack[t] # <<>> => Head(stack[t]) \in Frames(t)
  BY <1>2 DEF Frames
<1> QED BY <1>3, <1>6, <1>7, <1>8, <1>9, <1>10

(* The owners of queues stay above the references to the super block.      *)
LEMMA OwnerStep ==
    ASSUME stack \in [Threads -> Seq(FrameSet)], OwnerInv,
           NEW t \in Threads, NEW fs \in Seq(FrameSet), Moves(t, fs),
           \A q \in Queues : \/ inode'[q].sb = inode[q].sb
                             \/ \A u \in Threads : \A f \in Frames(u) : f \notin Owners(q)
                             \/ \A u \in Threads : \A f \in Frames(u)' : f \notin Owners(q),
           \A i \in 1 .. Len(fs) : \A q \in Queues :
              fs[i] \in Owners(q) => Below(t, i, Keepers(fs[i], inode[q].sb))'
    PROVE  OwnerInv'
<1>1. /\ stack' \in [Threads -> Seq(FrameSet)]
      /\ \A u \in Threads : u # t => stack'[u] = stack[u]
      /\ \A i \in 1 .. Len(fs) : stack'[t][i] = fs[i]
      /\ \A k \in 1 .. Len(stack'[t]) : k > Len(fs) =>
            /\ k - Len(fs) + Drop(t) \in 1 .. Len(stack[t])
            /\ stack'[t][k] = stack[t][k - Len(fs) + Drop(t)]
  BY MoveStack
<1> SUFFICES ASSUME NEW u \in Threads, NEW i \in DOMAIN stack'[u], NEW q \in Queues,
                    stack'[u][i] \in Owners(q)
             PROVE  Below(u, i, Keepers(stack[u][i], inode[q].sb))'
  BY DEF OwnerInv, Owners, Keepers
<1>9. stack'[u][i] \in Frames(u)'
  BY DEF Frames
<1>2. CASE u # t
  <2>1. stack'[u] = stack[u]
    BY <1>1, <1>2
  <2>2. Below(u, i, Keepers(stack[u][i], inode[q].sb)) /\ stack[u][i] \in Frames(u)
    BY <2>1 DEF OwnerInv, Frames
  <2>3. inode'[q].sb = inode[q].sb
    BY <1>9, <2>1, <2>2
  <2> QED BY <2>1, <2>2, <2>3 DEF Below, Keepers
<1>3. CASE u = t
  <2>0. i \in 1 .. Len(stack'[t]) /\ Len(fs) \in Nat /\ DOMAIN stack[t] = 1 .. Len(stack[t])
    BY <1>1, <1>3
  <2>1. CASE i \in 1 .. Len(fs)
    <3>1. fs[i] \in Owners(q) /\ stack'[t][i] = fs[i]
        BY <1>1, <1>3, <2>1
    <3>2. Below(t, i, Keepers(fs[i], inode[q].sb))'
        BY <2>1, <3>1
    <3> QED BY <1>3, <3>1, <3>2 DEF Below, Keepers
  <2>2. CASE i > Len(fs)
    <3>1. PICK k : k = i - Len(fs) + Drop(t)
        OBVIOUS
    <3>2. k \in DOMAIN stack[t] /\ stack[t][k] \in Owners(q) /\ stack'[t][i] = stack[t][k]
        BY <1>1, <1>3, <2>0, <2>2, <3>1
    <3>3. Below(t, k, Keepers(stack[t][k], inode[q].sb)) /\ stack[t][k] \in Frames(t)
        BY <3>2 DEF OwnerInv, Frames
    <3>4. inode'[q].sb = inode[q].sb
        BY <1>3, <1>9, <3>2, <3>3
    <3>5. PICK S : S = Keepers(stack[t][k], inode[q].sb)
        OBVIOUS
    <3>6. Below(t, i, S)'
        BY <2>0, <2>2, <3>1, <3>3, <3>5, BelowStays
    <3>7. S = Keepers(stack[u][i], inode[q].sb)'
        BY <1>3, <3>2, <3>4, <3>5 DEF Keepers
    <3> QED BY <1>3, <3>6, <3>7 DEF Below, Keepers
  <2> QED BY <2>0, <2>1, <2>2
<1> QED BY <1>2, <1>3

-----------------------------------------------------------------------------
(* Counting frames, tasks, mounts and queues.                              *)

(* Two sets that differ in x at most.                                      *)
LEMMA CardChange ==
    ASSUME NEW S, IsFiniteSet(S), NEW A \in SUBSET S, NEW B \in SUBSET S, NEW x \in S,
           \A y \in S : y # x => (y \in A <=> y \in B)
    PROVE  /\ Cardinality(A) \in Nat /\ Cardinality(B) \in Nat
           /\ Cardinality(B) = Cardinality(A) + (IF x \in B THEN 1 ELSE 0) - (IF x \in A THEN 1 ELSE 0)
<1>1. IsFiniteSet(A) /\ IsFiniteSet(B)
  BY FS_Subset
<1>2. Cardinality(A) \in Nat /\ Cardinality(B) \in Nat
  BY <1>1, FS_CardinalityType
<1>3. CASE x \in A <=> x \in B
  <2>1. A = B
    BY <1>3
  <2> QED BY <1>2, <1>3, <2>1
<1>4. CASE x \in A /\ x \notin B
  <2>1. B = A \ {x}
    BY <1>4
  <2> QED BY <1>1, <1>2, <1>4, <2>1, FS_RemoveElement
<1>5. CASE x \notin A /\ x \in B
  <2>1. B = A \cup {x}
    BY <1>5
  <2> QED BY <1>1, <1>2, <1>5, <2>1, FS_AddElement
<1> QED BY <1>3, <1>4, <1>5

(* A frame is a frame.                                                     *)
LEMMA FrameType ==
    /\ \A l \in Labels, x \in Nss \cup Sbs \cup Queues \cup {NoNs} :
          /\ Frame(l, x) \in FrameSet
          /\ Frame(l, x).at = l /\ Frame(l, x).of = x /\ Frame(l, x).ns = NoNs
          /\ Frame(l, x).next = NoNs
    /\ \A l \in Labels, x \in Nss \cup Sbs \cup Queues \cup {NoNs}, n \in Nss \cup {NoNs},
          v \in Int \X Int, m \in Nss \cup {NoNs} :
          /\ MkFrame(l, x, n, v, m) \in FrameSet
          /\ MkFrame(l, x, n, v, m).at = l /\ MkFrame(l, x, n, v, m).of = x
          /\ MkFrame(l, x, n, v, m).ns = n /\ MkFrame(l, x, n, v, m).mni = v
          /\ MkFrame(l, x, n, v, m).next = m
    /\ ByHand \in Int \X Int
<1>1. ByHand \in Int \X Int
  BY DEF ByHand
<1>2. ASSUME NEW l \in Labels, NEW x \in Nss \cup Sbs \cup Queues \cup {NoNs},
             NEW n \in Nss \cup {NoNs}, NEW v \in Int \X Int, NEW m \in Nss \cup {NoNs}
      PROVE  /\ MkFrame(l, x, n, v, m) \in FrameSet
             /\ MkFrame(l, x, n, v, m).at = l /\ MkFrame(l, x, n, v, m).of = x
             /\ MkFrame(l, x, n, v, m).ns = n /\ MkFrame(l, x, n, v, m).mni = v
             /\ MkFrame(l, x, n, v, m).next = m
  BY DEF MkFrame, FrameSet
<1>3. ASSUME NEW l \in Labels, NEW x \in Nss \cup Sbs \cup Queues \cup {NoNs}
      PROVE  /\ Frame(l, x) \in FrameSet
             /\ Frame(l, x).at = l /\ Frame(l, x).of = x /\ Frame(l, x).ns = NoNs
             /\ Frame(l, x).next = NoNs
  BY <1>1, <1>2 DEF Frame
<1> QED BY <1>1, <1>2, <1>3

(* The labels that a step takes away or brings.                            *)
Touches(t, fs) ==
    {fs[i].at : i \in 1 .. Len(fs)} \cup (IF stack[t] = <<>> THEN {} ELSE {Head(stack[t]).at})

(* A step leaves frames with other labels alone.                           *)
LEMMA Untouched ==
    ASSUME stack \in [Threads -> Seq(FrameSet)], NEW t \in Threads, NEW fs \in Seq(FrameSet),
           Moves(t, fs), NEW S, \A f \in S : f.at \notin Touches(t, fs)
    PROVE  Total(S)' = Total(S)
<1>1. Times(fs, S) = 0
  <2>1. \A i \in DOMAIN fs : fs[i] \notin S
    BY DEF Touches
  <2> QED BY <2>1, TimesNat
<1>2. Top(t, S) = 0
  BY DEF Top, Touches
<1>3. Total(S) \in Nat
  BY TotalPlaces
<1> QED BY <1>1, <1>2, <1>3, MoveTotal

HSame == \A n \in Nss : Total(Holders(n))' = Total(Holders(n))
KSame == \A n \in Nss : Total({Frame("kfree", n)})' = Total({Frame("kfree", n)})
PSame == \A n \in Nss : Total({Frame("mq_put_mnt", n)})' = Total({Frame("mq_put_mnt", n)})
MSame == \A s \in Sbs : Total({Frame("mntput", s)})' = Total({Frame("mntput", s)})
XSame == \A s \in Sbs : Total({Frame("kill", s)})' = Total({Frame("kill", s)})
OSame == \A q \in Queues : Total(Owners(q))' = Total(Owners(q))
CSame == \A n \in Nss : Total(Creations(n))' = Total(Creations(n))

(* Which counts a step leaves alone.                                       *)
LEMMA Families ==
    ASSUME stack \in [Threads -> Seq(FrameSet)], NEW t \in Threads, NEW fs \in Seq(FrameSet),
           Moves(t, fs)
    PROVE  /\ Touches(t, fs) \cap {"put", "switch", "inode", "release"} = {} => HSame
           /\ "kfree" \notin Touches(t, fs) => KSame
           /\ "mq_put_mnt" \notin Touches(t, fs) => PSame
           /\ "mntput" \notin Touches(t, fs) => MSame
           /\ "kill" \notin Touches(t, fs) => XSame
           /\ Touches(t, fs) \cap {"delete", "release", "instantiate"} = {} => OSame
           /\ Touches(t, fs) \cap {"inode", "uncount"} = {} => CSame
<1>0. /\ \A l, x : Frame(l, x).at = l
  BY DEF Frame, MkFrame
<1>1. ASSUME NEW l, l \notin Touches(t, fs), NEW x
      PROVE  Total({Frame(l, x)})' = Total({Frame(l, x)})
  <2>1. PICK S : S = {Frame(l, x)}
    OBVIOUS
  <2>2. \A f \in S : f.at \notin Touches(t, fs)
    BY <1>0, <1>1, <2>1
  <2>3. Total(S)' = Total(S)
    BY <2>2, Untouched
  <2> QED BY <2>1, <2>3
<1>2. ASSUME Touches(t, fs) \cap {"put", "switch", "inode", "release"} = {}, NEW n
      PROVE  Total(Holders(n))' = Total(Holders(n))
  <2>1. PICK S : S = Holders(n)
    OBVIOUS
  <2>2. \A f \in S : f.at \notin Touches(t, fs)
    BY <1>2, <2>1 DEF Holders
  <2>3. Total(S)' = Total(S)
    BY <2>2, Untouched
  <2>4. Holders(n)' = Holders(n)
    BY DEF Holders
  <2> QED BY <2>1, <2>3, <2>4
<1>3. ASSUME Touches(t, fs) \cap {"delete", "release", "instantiate"} = {}, NEW q
      PROVE  Total(Owners(q))' = Total(Owners(q))
  <2>1. PICK S : S = Owners(q)
    OBVIOUS
  <2>2. \A f \in S : f.at \notin Touches(t, fs)
    BY <1>3, <2>1 DEF Owners
  <2>3. Total(S)' = Total(S)
    BY <2>2, Untouched
  <2> QED BY <2>1, <2>3
<1>4. ASSUME Touches(t, fs) \cap {"inode", "uncount"} = {}, NEW n
      PROVE  Total(Creations(n))' = Total(Creations(n))
  <2>1. PICK S : S = Creations(n)
    OBVIOUS
  <2>2. \A f \in S : f.at \notin Touches(t, fs)
    BY <1>4, <2>1 DEF Creations
  <2>3. Total(S)' = Total(S)
    BY <2>2, Untouched
  <2> QED BY <2>1, <2>3
<1>5. /\ "kfree" \notin Touches(t, fs) => KSame
      /\ "mq_put_mnt" \notin Touches(t, fs) => PSame
      /\ "mntput" \notin Touches(t, fs) => MSame
      /\ "kill" \notin Touches(t, fs) => XSame
  BY <1>1 DEF KSame, PSame, MSame, XSame
<1> QED BY <1>2, <1>3, <1>4, <1>5 DEF HSame, OSame, CSame

-----------------------------------------------------------------------------
(* References to mounts.                                                   *)
OwnMounts(s) == Cardinality({n \in Nss : mq_mnt[n] = s})
UserMount(s) == Cardinality({s} \cap usermnt)
FdsOf(q, s) == IF inode[q] # NoQueue /\ inode[q].sb = s THEN Cardinality(inode[q].fds) ELSE 0
Fds(s) == SumFunction([q \in Queues |-> FdsOf(q, s)])

(* The references of each kind are numbers.                                *)
LEMMA MntRefsSum ==
    ASSUME TypeInv, NEW s \in Sbs
    PROVE  /\ MntRefs(s) = OwnMounts(s) + UserMount(s) + Fds(s) + Total({Frame("mntput", s)})
           /\ OwnMounts(s) \in Nat /\ UserMount(s) = (IF s \in usermnt THEN 1 ELSE 0)
           /\ Fds(s) \in Nat /\ Total({Frame("mntput", s)}) \in Nat
           /\ \A q \in Queues : FdsOf(q, s) \in Nat /\ FdsOf(q, s) <= Fds(s)
           /\ \A n \in Nss : mq_mnt[n] = s => OwnMounts(s) > 0
<1>1. MntRefs(s) = OwnMounts(s) + UserMount(s) + Fds(s) + Total({Frame("mntput", s)})
  BY DEF MntRefs, OwnMounts, UserMount, Fds, FdsOf
<1>2. IsFiniteSet({n \in Nss : mq_mnt[n] = s})
  BY NsConstants, FS_Subset
<1>3. OwnMounts(s) \in Nat /\ \A n \in Nss : mq_mnt[n] = s => OwnMounts(s) > 0
  <2>1. OwnMounts(s) \in Nat
    BY <1>2, FS_CardinalityType DEF OwnMounts
  <2>2. ASSUME NEW n \in Nss, mq_mnt[n] = s PROVE OwnMounts(s) # 0
    BY <1>2, <2>2, FS_EmptySet DEF OwnMounts
  <2> QED BY <2>1, <2>2
<1>4. UserMount(s) = IF s \in usermnt THEN 1 ELSE 0
  <2>1. {s} \cap usermnt = IF s \in usermnt THEN {s} ELSE {}
    OBVIOUS
  <2> QED BY <2>1, FS_Singleton, FS_EmptySet DEF UserMount
<1>5. \A q \in Queues : FdsOf(q, s) \in Nat
  <2> SUFFICES ASSUME NEW q \in Queues, inode[q] # NoQueue PROVE Cardinality(inode[q].fds) \in Nat
    BY DEF FdsOf
  <2>1. inode[q].fds \in SUBSET Tasks
    BY DEF TypeInv, QueueRecord
  <2> QED BY <2>1, NsConstants, FS_Subset, FS_CardinalityType
<1>6. Fds(s) \in Nat /\ \A q \in Queues : FdsOf(q, s) <= Fds(s)
  <2>1. PICK G : G = [q \in Queues |-> FdsOf(q, s)]
    OBVIOUS
  <2>2. \A q \in Queues : G[q] = FdsOf(q, s) /\ G[q] \in Nat
    BY <1>5, <2>1
  <2>3. Fds(s) = SumFunctionOnSet(G, Queues)
    BY <2>1, FunSum DEF Fds
  <2>4. /\ SumFunctionOnSet(G, Queues) \in Nat
        /\ \A q \in Queues : G[q] <= SumFunctionOnSet(G, Queues)
    BY <2>2, NsConstants, SumNat
  <2> QED BY <2>2, <2>3, <2>4
<1>7. Total({Frame("mntput", s)}) \in Nat
  BY TotalPlaces DEF TypeInv
<1> QED BY <1>1, <1>3, <1>4, <1>5, <1>6, <1>7

(* The files of one queue change.                                          *)
LEMMA FdsChange ==
    ASSUME TypeInv, TypeInv', NEW s \in Sbs, NEW p \in Queues,
           \A q \in Queues : q # p => inode'[q] = inode[q]
    PROVE  Fds(s)' = Fds(s) + FdsOf(p, s)' - FdsOf(p, s)
<1>1. PICK G, K : G = [q \in Queues |-> FdsOf(q, s)] /\ K = [q \in Queues |-> FdsOf(q, s)']
  OBVIOUS
<1>2. \A q \in Queues : G[q] = FdsOf(q, s) /\ G[q] \in Int
  <2>1. \A q \in Queues : FdsOf(q, s) \in Nat
    BY MntRefsSum
  <2> QED BY <1>1, <2>1
<1>3. \A q \in Queues : K[q] = FdsOf(q, s)' /\ K[q] \in Int
  <2>1. \A q \in Queues : FdsOf(q, s)' \in Nat
    <3> SUFFICES ASSUME NEW q \in Queues, inode'[q] # NoQueue PROVE Cardinality(inode'[q].fds) \in Nat
        BY DEF FdsOf
    <3>1. inode'[q].fds \in SUBSET Tasks
        BY DEF TypeInv, QueueRecord
    <3> QED BY <3>1, NsConstants, FS_Subset, FS_CardinalityType
  <2> QED BY <1>1, <2>1
<1>4. \A q \in Queues \ {p} : G[q] = K[q]
  BY <1>2, <1>3 DEF FdsOf
<1>5. SumFunctionOnSet(K, Queues) = SumFunctionOnSet(G, Queues) + (K[p] - G[p])
  <2>1. K[p] \in Int /\ \A x \in Queues : G[x] \in Int
    BY <1>2, <1>3
  <2>2. IsFiniteSet(Queues)
    BY NsConstants
  <2> QED BY <1>4, <2>1, <2>2, SumChange
<1>6. Fds(s) = SumFunctionOnSet(G, Queues) /\ Fds(s)' = SumFunctionOnSet(K, Queues)
  <2>1. Fds(s) = SumFunction(G) /\ Fds(s)' = SumFunction(K)
    BY <1>1 DEF Fds
  <2> QED BY <1>1, <2>1, FunSum
<1>7. SumFunctionOnSet(G, Queues) \in Int
  BY <1>2, NsConstants, SumType
<1> QED BY <1>2, <1>3, <1>5, <1>6, <1>7

-----------------------------------------------------------------------------
(* The frame that runs.                                                    *)
LEMMA HeadFacts ==
    ASSUME TypeInv, ShapeInv, NEW t \in Threads, stack[t] # <<>>
    PROVE  /\ stack[t] \in Seq(FrameSet) /\ 1 \in DOMAIN stack[t] /\ Len(stack[t]) \in Nat \ {0}
           /\ DOMAIN stack[t] = 1 .. Len(stack[t])
           /\ Head(stack[t]) = stack[t][1] /\ Head(stack[t]) \in FrameSet
           /\ Head(stack[t]) \in Frames(t) /\ Shape(t, 1) /\ ArgsOK(t, Head(stack[t]))
<1>1. /\ stack[t] \in Seq(FrameSet) /\ 1 \in DOMAIN stack[t] /\ Len(stack[t]) \in Nat \ {0}
      /\ DOMAIN stack[t] = 1 .. Len(stack[t])
      /\ Head(stack[t]) = stack[t][1] /\ Head(stack[t]) \in FrameSet
  BY DEF TypeInv
<1>2. Shape(t, 1)
  BY <1>1 DEF ShapeInv
<1> QED BY <1>1, <1>2 DEF Frames, Shape

(* All frames have the arguments their label asks for.                     *)
LEMMA AllArgs ==
    ASSUME TypeInv, ShapeInv
    PROVE  \A t \in Threads : \A f \in Frames(t) : f \in FrameSet /\ ArgsOK(t, f)
<1> SUFFICES ASSUME NEW t \in Threads, NEW i \in DOMAIN stack[t]
             PROVE  stack[t][i] \in FrameSet /\ ArgsOK(t, stack[t][i])
  BY DEF Frames
<1>1. stack[t][i] \in FrameSet
  BY DEF TypeInv
<1>2. Shape(t, i)
  BY DEF ShapeInv
<1> QED BY <1>1, <1>2 DEF Shape

(* Who runs what: the frames that run at once are never below another.     *)
LEMMA AtFrames ==
    ASSUME TypeInv, ShapeInv
    PROVE  \A t \in Threads : \A f \in Frames(t) :
              f.at \in {"compute", "set", "walk", "store", "oops", "nr_inc"} =>
                 stack[t] # <<>> /\ f = Head(stack[t])
<1> SUFFICES ASSUME NEW t \in Threads, NEW i \in DOMAIN stack[t],
                    stack[t][i].at \in {"compute", "set", "walk", "store", "oops", "nr_inc"}
             PROVE  stack[t] # <<>> /\ stack[t][i] = Head(stack[t])
  BY DEF Frames
<1>1. i = 1 /\ stack[t] \in Seq(FrameSet)
  BY DEF ShapeInv, Shape, TypeInv
<1> QED BY <1>1

(* Frames that a step does not touch are where they were.                  *)
LEMMA Keeps ==
    ASSUME stack \in [Threads -> Seq(FrameSet)], NEW t \in Threads, NEW fs \in Seq(FrameSet),
           Moves(t, fs)
    PROVE  \A u \in Threads : \A f : f.at \notin Touches(t, fs) => (f \in Frames(u)' <=> f \in Frames(u))
<1>1. /\ \A u \in Threads : u # t => Frames(u)' = Frames(u)
      /\ \A f \in Frames(t)' : (\E i \in 1 .. Len(fs) : f = fs[i]) \/ f \in Frames(t)
      /\ \A f \in Frames(t) : f \in Frames(t)' \/ (stack[t] # <<>> /\ f = Head(stack[t]))
  BY FramesStep
<1> QED BY <1>1 DEF Touches

(* What is above a frame stays above it, unless it is the frame that runs. *)
LEMMA AboveStays ==
    ASSUME stack \in [Threads -> Seq(FrameSet)], NEW t \in Threads, NEW fs \in Seq(FrameSet),
           Moves(t, fs), NEW S, NEW i \in 1 .. Len(stack'[t]), i > Len(fs),
           stack[t] # <<>> => Head(stack[t]) \notin S,
           Above(t, i - Len(fs) + Drop(t), S)
    PROVE  Above(t, i, S)'
<1> DEFINE m == Len(fs)
           d == Drop(t)
<1>1. m \in Nat /\ d \in {0, 1} /\ Len(stack[t]) \in Nat /\ DOMAIN stack[t] = 1 .. Len(stack[t])
  BY DEF Drop
<1>2. /\ stack' \in [Threads -> Seq(FrameSet)] /\ Len(stack'[t]) = m + Len(stack[t]) - d
      /\ \A k \in 1 .. Len(stack[t]) : k > d => stack'[t][k + m - d] = stack[t][k]
  BY MoveStack
<1>3. DOMAIN stack'[t] = 1 .. Len(stack'[t]) /\ i - m + d \in Nat
  BY <1>1, <1>2
<1>4. PICK j \in 1 .. Len(stack[t]) : j < i - m + d /\ stack[t][j] \in S
  BY <1>1 DEF Above
<1>5. j > d
  <2>1. stack[t] # <<>> /\ d = 1 /\ Head(stack[t]) = stack[t][1]
    BY <1>4 DEF Drop
  <2>2. j # 1
    BY <1>4, <2>1
  <2> QED BY <1>4, <2>1, <2>2
<1> HIDE DEF m, d
<1>6. j + m - d \in 1 .. Len(stack'[t]) /\ j + m - d < i
  BY <1>1, <1>2, <1>4, <1>5
<1>7. stack'[t][j + m - d] \in S
  BY <1>2, <1>4, <1>5
<1> QED BY <1>3, <1>6, <1>7 DEF Above

(* Counts are numbers.                                                     *)
LEMMA TotalNat ==
    ASSUME NEW stk \in [Threads -> Seq(FrameSet)], NEW S
    PROVE  SumFunction([u \in Threads |-> Times(stk[u], S)]) \in Nat
<1>1. PICK G : G = [u \in Threads |-> Times(stk[u], S)]
  OBVIOUS
<1>2. \A u \in Threads : G[u] = Times(stk[u], S) /\ G[u] \in Nat
  BY <1>1, TimesNat
<1>3. SumFunction(G) = SumFunctionOnSet(G, Threads)
  BY <1>1, FunSum
<1>4. SumFunctionOnSet(G, Threads) \in Nat
  BY <1>2, FiniteThreads, SumNat
<1> QED BY <1>1, <1>3, <1>4

(* How the counts change.                                                  *)
LEMMA Deltas ==
    ASSUME stack \in [Threads -> Seq(FrameSet)], NEW t \in Threads, NEW fs \in Seq(FrameSet),
           Moves(t, fs), NEW S
    PROVE  /\ Total(S)' = Total(S) + Times(fs, S) - (IF stack[t] = <<>> THEN 0 ELSE In(Head(stack[t]), S))
           /\ Total(S) \in Nat /\ Total(S)' \in Nat
<1>1. Total(S)' = Total(S) + Times(fs, S) - Top(t, S)
  BY MoveTotal
<1>2. Top(t, S) = IF stack[t] = <<>> THEN 0 ELSE In(Head(stack[t]), S)
  BY DEF Top, In
<1>3. Total(S) \in Nat
  BY TotalPlaces
<1>4. stack' \in [Threads -> Seq(FrameSet)]
  BY MoveStack
<1>5. PICK stk : stk = stack'
  OBVIOUS
<1>6. Total(S)' \in Nat
  BY <1>4, <1>5, TotalNat DEF Total
<1> QED BY <1>1, <1>2, <1>3, <1>6

-----------------------------------------------------------------------------
(* What a call may push.                                                   *)
FsOK(t, fs, i) ==
    /\ ArgsOK(t, fs[i])
    /\ fs[i].at = "mq_put_mnt" => \E j \in 1 .. Len(fs) : j > i /\ fs[j] = Frame("kfree", fs[i].of)
    /\ fs[i].at = "inode" => \E j \in 1 .. Len(fs) : j > i /\ fs[j] = Frame("mntput", fs[i].of)
    /\ fs[i].at = "uncount" => \E j \in 1 .. Len(fs) : j > i /\ fs[j] = Frame("put", fs[i].of)
    /\ fs[i].at \in {"compute", "clear"} =>
          \E j \in 1 .. Len(fs) : j > i /\ fs[j] = Frame("register", fs[i].of)
    /\ fs[i].at = "set" => i = Len(fs) /\ stack[t] # <<>> /\ Below(t, 1, {Frame("register", fs[i].of)})
    /\ fs[i].at = "kfree" => i < Len(fs) /\ fs[i + 1] = Frame("nr_dec", NoNs)
    /\ fs[i].at = "nr_dec" => i < Len(fs) /\ fs[i + 1] = Frame("notify", NoNs)
    /\ fs[i].at = "switch" => i = Len(fs) /\ stack[t] = <<>>
    /\ fs[i].at \in {"compute", "set", "walk", "store", "oops", "nr_inc"} => i = 1
    /\ fs[i].at = "nr_inc" => 1 < Len(fs) /\ fs[2] = Frame("msg_init_ns", fs[i].of)
    /\ fs[i].at = "msg_init_ns" =>
          /\ i = 2 /\ stack[t] = <<>> /\ Len(fs) = 5 /\ fs[1] = Frame("nr_inc", fs[i].of)
          /\ fs[3] = Frame("notify", NoNs)
          /\ fs[4] = Frame("register", fs[i].of) /\ fs[5] = Frame("switch", fs[i].of)

(* What is pushed in order is in order.                                    *)
LEMMA FsShape ==
    ASSUME stack \in [Threads -> Seq(FrameSet)], ShapeInv,
           NEW t \in Threads, NEW fs \in Seq(FrameSet), Moves(t, fs),
           At(t, "nr_inc") => fs = <<>>,
           \A i \in 1 .. Len(fs) : FsOK(t, fs, i)
    PROVE  ShapeInv'
<1>1. /\ stack' \in [Threads -> Seq(FrameSet)]
      /\ Len(stack'[t]) = Len(fs) + Len(stack[t]) - Drop(t)
      /\ \A i \in 1 .. Len(fs) : stack'[t][i] = fs[i]
      /\ \A k \in 1 .. Len(stack[t]) : k > Drop(t) =>
            stack'[t][k + Len(fs) - Drop(t)] = stack[t][k]
  BY MoveStack
<1>2. /\ Drop(t) \in {0, 1} /\ Len(fs) \in Nat /\ Len(stack[t]) \in Nat /\ Drop(t) <= Len(stack[t])
      /\ stack[t] = <<>> => Drop(t) = 0 /\ Len(stack[t]) = 0
      /\ stack[t] # <<>> => Drop(t) = 1
      /\ DOMAIN stack'[t] = 1 .. Len(stack'[t]) /\ DOMAIN stack[t] = 1 .. Len(stack[t])
  BY <1>1 DEF Drop
<1>3. ASSUME NEW i \in 1 .. Len(fs) PROVE Shape(t, i)'
  <2>1. FsOK(t, fs, i) /\ stack'[t][i] = fs[i]
    BY <1>1
  <2>2. \A f : (\E j \in 1 .. Len(fs) : j > i /\ fs[j] = f) => Below(t, i, {f})'
    <3> SUFFICES ASSUME NEW j \in 1 .. Len(fs), j > i PROVE Below(t, i, {fs[j]})'
        OBVIOUS
    <3>1. j \in DOMAIN stack'[t] /\ stack'[t][j] = fs[j]
        BY <1>1, <1>2
    <3> QED BY <3>1 DEF Below
  <2>3. fs[i].at = "set" => Below(t, i, {Frame("register", fs[i].of)})'
    <3> SUFFICES ASSUME fs[i].at = "set" PROVE Below(t, i, {Frame("register", fs[i].of)})'
        OBVIOUS
    <3>1. i = Len(fs) /\ i = 1 /\ stack[t] # <<>> /\ Below(t, 1, {Frame("register", fs[i].of)})
        BY <2>1 DEF FsOK
    <3>2. PICK k \in DOMAIN stack[t] : k > 1 /\ stack[t][k] = Frame("register", fs[i].of)
        BY <3>1 DEF Below
    <3>3. k + Len(fs) - Drop(t) \in DOMAIN stack'[t] /\ k + Len(fs) - Drop(t) > i
          /\ stack'[t][k + Len(fs) - Drop(t)] = stack[t][k]
        BY <1>1, <1>2, <3>1, <3>2
    <3> QED BY <3>2, <3>3 DEF Below
  <2>4. /\ fs[i].at = "mq_put_mnt" => Below(t, i, {Frame("kfree", fs[i].of)})'
        /\ fs[i].at = "inode" => Below(t, i, {Frame("mntput", fs[i].of)})'
        /\ fs[i].at = "uncount" => Below(t, i, {Frame("put", fs[i].of)})'
        /\ fs[i].at \in {"compute", "set", "clear"} => Below(t, i, {Frame("register", fs[i].of)})'
    BY <2>1, <2>2, <2>3 DEF FsOK
  <2>5. /\ fs[i].at = "mq_put_mnt" => Below(t, i, {Frame("kfree", stack[t][i].of)})'
        /\ fs[i].at = "inode" => Below(t, i, {Frame("mntput", stack[t][i].of)})'
        /\ fs[i].at = "uncount" => Below(t, i, {Frame("put", stack[t][i].of)})'
        /\ fs[i].at \in {"compute", "set", "clear"} => Below(t, i, {Frame("register", stack[t][i].of)})'
    BY <2>1, <2>4, Zenon DEF Frame, MkFrame, Below
  <2>6. \A j \in 1 .. Len(fs) : j \in 1 .. Len(stack'[t]) /\ stack'[t][j] = fs[j]
    BY <1>1, <1>2
  <2>7. /\ fs[i].at = "kfree" => i < Len(stack'[t]) /\ stack'[t][i + 1] = Frame("nr_dec", NoNs)
        /\ fs[i].at = "nr_dec" => i < Len(stack'[t]) /\ stack'[t][i + 1] = Frame("notify", NoNs)
        /\ fs[i].at = "switch" => i = Len(stack'[t])
        /\ fs[i].at \in {"compute", "set", "walk", "store", "oops", "nr_inc"} => i = 1
        /\ fs[i].at = "nr_inc" => 1 < Len(stack'[t]) /\ stack'[t][2] = Frame("msg_init_ns", fs[i].of)
    <3>1. i < Len(fs) => i + 1 \in 1 .. Len(fs) /\ i < Len(stack'[t])
        BY <1>1, <1>2
    <3>2. 1 < Len(fs) => 2 \in 1 .. Len(fs) /\ 1 < Len(stack'[t])
        BY <1>1, <1>2
    <3> QED BY <1>1, <1>2, <2>1, <2>6, <3>1, <3>2 DEF FsOK
  <2>8. fs[i].at = "msg_init_ns" =>
          /\ i = 2 /\ Len(stack'[t]) = 5 /\ stack'[t][1] = Frame("nr_inc", fs[i].of)
          /\ stack'[t][3] = Frame("notify", NoNs)
          /\ stack'[t][4] = Frame("register", fs[i].of) /\ stack'[t][5] = Frame("switch", fs[i].of)
    <3> SUFFICES ASSUME fs[i].at = "msg_init_ns"
                 PROVE  /\ i = 2 /\ Len(stack'[t]) = 5 /\ stack'[t][1] = Frame("nr_inc", fs[i].of)
                        /\ stack'[t][3] = Frame("notify", NoNs)
                        /\ stack'[t][4] = Frame("register", fs[i].of)
                        /\ stack'[t][5] = Frame("switch", fs[i].of)
        OBVIOUS
    <3>1. /\ i = 2 /\ stack[t] = <<>> /\ Len(fs) = 5 /\ fs[1] = Frame("nr_inc", fs[i].of)
          /\ fs[3] = Frame("notify", NoNs)
          /\ fs[4] = Frame("register", fs[i].of) /\ fs[5] = Frame("switch", fs[i].of)
        BY <2>1 DEF FsOK
    <3>2. Len(stack'[t]) = 5 /\ \A j \in {1, 3, 4, 5} : stack'[t][j] = fs[j]
        BY <1>1, <1>2, <2>6, <3>1
    <3> QED BY <3>1, <3>2
  <2>9. ArgsOK(t, fs[i])
    BY <2>1 DEF FsOK
  <2>10. fs[i].at = "msg_init_ns" =>
          /\ i = 1 \/ (i = 2 /\ stack'[t][1] = Frame("nr_inc", fs[i].of))
          /\ Len(stack'[t]) = i + 3
          /\ stack'[t][i + 1] = Frame("notify", NoNs)
          /\ stack'[t][i + 2] = Frame("register", fs[i].of)
          /\ stack'[t][i + 3] = Frame("switch", fs[i].of)
    BY <2>8
  <2> QED BY <2>1, <2>5, <2>7, <2>9, <2>10 DEF Shape
<1> QED BY <1>3, ShapeStep

(* The types that do not concern the stacks.                               *)
DataType ==
    /\ alive \subseteq Nss /\ count \in [Nss -> Int] /\ nsproxy \in [Tasks -> Nss \cup {NoNs}]
    /\ nr_ipc_ns \in Int /\ mem \in 0 .. MaxMem /\ work \in BOOLEAN
    /\ msg_ctlmni \in [Nss -> Int \X Int]
    /\ auto_msgmni \subseteq Nss /\ raced \subseteq Nss
    /\ chain \in Seq(Nss) /\ loose \subseteq Nss
    /\ mq_mnt \in [Nss -> Sbs \cup {NoSb}] /\ s_fs_info \in [Sbs -> Nss \cup {NoNs, NoSb}]
    /\ usermnt \subseteq Sbs
    /\ inode \in [Queues -> QueueRecord \cup {NoQueue}]
    /\ mq_queues_count \in [Nss -> Int] /\ mq_bytes \in [Users -> Int]
    /\ may \in Scenarios

(* After a step that pushes fs.                                            *)
Ends(t, fs) == TypeInv' /\ ShapeInv' /\ fs \in Seq(FrameSet) /\ Moves(t, fs)

(* How the lemmas below come to it.                                        *)
LEMMA EndsHow ==
    ASSUME TypeInv, ShapeInv, NEW t \in Threads, NEW fs \in Seq(FrameSet),
           Moves(t, fs),
           At(t, "nr_inc") => fs = <<>>,
           \A i \in 1 .. Len(fs) : FsOK(t, fs, i),
           DataType'
    PROVE  Ends(t, fs)
<1>1. stack \in [Threads -> Seq(FrameSet)]
  BY DEF TypeInv
<1>3. stack' \in [Threads -> Seq(FrameSet)]
  BY <1>1, MoveStack
<1>4. ShapeInv'
  BY <1>1, FsShape
<1> QED BY <1>3, <1>4 DEF TypeInv, DataType, Ends

(* The frames of one argument, by their labels.                            *)
LEMMA PlainFrames ==
    /\ \A t \in Tasks : \A n \in Nss : \A l \in NsLabels \ {"store", "set"} :
          Frame(l, n) \in FrameSet /\ ArgsOK(t, Frame(l, n))
    /\ \A t \in Tasks : \A s \in Sbs : \A l \in {"mntput", "kill"} :
          Frame(l, s) \in FrameSet /\ ArgsOK(t, Frame(l, s))
    /\ \A t \in Tasks : \A q \in Queues : \A l \in {"instantiate", "delete"} :
          Frame(l, q) \in FrameSet /\ ArgsOK(t, Frame(l, q))
    /\ \A t \in Threads : Frame("notify", NoNs) \in FrameSet /\ ArgsOK(t, Frame("notify", NoNs))
    /\ \A t \in Tasks : Frame("nr_dec", NoNs) \in FrameSet /\ ArgsOK(t, Frame("nr_dec", NoNs))
    /\ \A t \in Threads : \A n \in Nss : Frame("walk", n) \in FrameSet /\ ArgsOK(t, Frame("walk", n))
    /\ \A l, x : Frame(l, x).at = l /\ Frame(l, x).of = x
<1>1. \A l, x : Frame(l, x).at = l /\ Frame(l, x).of = x
  BY DEF Frame, MkFrame
<1>2. \A t \in Tasks : t # kworker
  BY NsConstants
<1>3. ASSUME NEW l \in NsLabels \cup {"mntput", "kill", "instantiate", "delete", "notify", "nr_dec"},
             NEW x \in Nss \cup Sbs \cup Queues \cup {NoNs}
      PROVE  Frame(l, x) \in FrameSet
  BY FrameType DEF Labels, NsLabels
<1>4. \A t \in Tasks : \A n \in Nss : \A l \in NsLabels \ {"store", "set"} : ArgsOK(t, Frame(l, n))
  BY <1>1, <1>2 DEF ArgsOK, NsLabels
<1>5. \A t \in Tasks : \A s \in Sbs : \A l \in {"mntput", "kill"} : ArgsOK(t, Frame(l, s))
  BY <1>1, <1>2 DEF ArgsOK, NsLabels
<1>6. \A t \in Tasks : \A q \in Queues : \A l \in {"instantiate", "delete"} : ArgsOK(t, Frame(l, q))
  BY <1>1, <1>2 DEF ArgsOK, NsLabels
<1>7. \A t \in Threads : ArgsOK(t, Frame("notify", NoNs))
  BY <1>1, <1>2 DEF ArgsOK, NsLabels
<1>8. \A t \in Tasks : ArgsOK(t, Frame("nr_dec", NoNs))
  BY <1>1, <1>2 DEF ArgsOK, NsLabels
<1>9. \A t \in Threads : \A n \in Nss : ArgsOK(t, Frame("walk", n))
  BY <1>1, <1>2 DEF ArgsOK, NsLabels
<1> QED BY <1>1, <1>3, <1>4, <1>5, <1>6, <1>7, <1>8, <1>9 DEF NsLabels

(* A thread whose call does more than walk the chain is a task.            *)
LEMMA TaskRuns ==
    ASSUME TypeInv, ShapeInv, NEW t \in Threads, stack[t] # <<>>,
           Head(stack[t]).at \notin {"notify", "walk", "store", "oops"}
    PROVE  t \in Tasks
    BY HeadFacts DEF ArgsOK, Threads

(* Whoever runs a frame about a namespace.                                 *)
LEMMA NsRuns ==
    ASSUME IInv, NEW t \in Threads, NEW l \in NsLabels, At(t, l)
    PROVE  /\ TypeInv /\ ShapeInv /\ stack[t] # <<>> /\ Head(stack[t]).at = l
           /\ Head(stack[t]) \in Frames(t) /\ Head(stack[t]) \in FrameSet /\ Arg(t) \in Nss
           /\ l \notin {"walk", "store", "oops"} => t \in Tasks
           /\ l # "nr_inc" => ~At(t, "nr_inc")
<1>1. TypeInv /\ ShapeInv /\ stack[t] # <<>> /\ Head(stack[t]).at = l
  BY DEF IInv, At
<1>2. Head(stack[t]) \in Frames(t) /\ Head(stack[t]) \in FrameSet /\ ArgsOK(t, Head(stack[t]))
  BY <1>1, HeadFacts
<1>3. Arg(t) \in Nss
  BY <1>1, <1>2 DEF ArgsOK, Arg
<1>4. l \notin {"walk", "store", "oops"} => t \in Tasks
  BY <1>1, TaskRuns DEF NsLabels
<1> QED BY <1>1, <1>2, <1>3, <1>4 DEF At

(* Steps that end a frame ...                                              *)
LEMMA EndsPop ==
    ASSUME TypeInv, ShapeInv, NEW t \in Threads, Moves(t, <<>>), DataType'
    PROVE  Ends(t, <<>>)
<1>1. PICK fs : fs = <<>>
  OBVIOUS
<1>2. fs \in Seq(FrameSet) /\ Moves(t, fs) /\ \A i \in 1 .. Len(fs) : FsOK(t, fs, i)
  BY <1>1
<1> QED BY <1>1, <1>2, EndsHow

(* ... and that go on with one.                                            *)
LEMMA EndsFrame ==
    ASSUME TypeInv, ShapeInv, NEW t \in Threads, NEW f \in FrameSet, ArgsOK(t, f),
           f.at \notin {"mq_put_mnt", "inode", "uncount", "compute", "clear", "kfree", "nr_dec",
                        "switch", "nr_inc", "msg_init_ns"},
           f.at = "set" => stack[t] # <<>> /\ Below(t, 1, {Frame("register", f.of)}),
           ~At(t, "nr_inc"), Moves(t, <<f>>), DataType'
    PROVE  Ends(t, <<f>>)
<1>1. PICK fs : fs = <<f>>
  OBVIOUS
<1>2. fs \in Seq(FrameSet) /\ Len(fs) = 1 /\ fs[1] = f
  BY <1>1
<1>3. FsOK(t, fs, 1)
  BY <1>2 DEF FsOK
<1>4. \A i \in 1 .. Len(fs) : FsOK(t, fs, i)
  BY <1>2, <1>3
<1> QED BY <1>1, <1>2, <1>4, EndsHow

(* Mostly one about a namespace.                                           *)
LEMMA EndsOne ==
    ASSUME TypeInv, ShapeInv, NEW t \in Threads, NEW n \in Nss,
           NEW l \in {"unregister", "flag_on", "flag_off", "nb_call", "dointvec_0", "dointvec_1",
                      "newval_0", "newval_1", "put", "oops"},
           t \in Tasks \/ l = "oops", ~At(t, "nr_inc"), Moves(t, <<Frame(l, n)>>), DataType'
    PROVE  Ends(t, <<Frame(l, n)>>)
<1>1. PICK f : f = Frame(l, n)
  OBVIOUS
<1>2. f.at = l /\ f.of = n /\ f \in FrameSet
  BY <1>1, FrameType DEF Labels, Frame, MkFrame
<1>3. ArgsOK(t, f)
  BY <1>1, <1>2, NsConstants DEF ArgsOK, NsLabels
<1> QED BY <1>1, <1>2, <1>3, EndsFrame

-----------------------------------------------------------------------------
(* A frame that is there is counted.                                       *)
LEMMA Counted ==
    ASSUME stack \in [Threads -> Seq(FrameSet)], NEW S
    PROVE  /\ Total(S) \in Nat
           /\ \A t \in Threads : \A f \in Frames(t) : f \in S => Total(S) > 0
           /\ Total(S) > 0 => \E t \in Threads : \E f \in Frames(t) : f \in S
<1>1. /\ Total(S) \in Nat
      /\ Total(S) = 0 <=> \A t \in Threads : \A i \in DOMAIN stack[t] : stack[t][i] \notin S
  BY TotalPlaces
<1> QED BY <1>1 DEF Frames

(* A reference: the namespace is there, and its super block.               *)
LEMMA HeldNs ==
    ASSUME IInv, NEW n \in Nss, count[n] > 0
    PROVE  /\ n \in alive /\ mq_mnt[n] \in Sbs /\ s_fs_info[mq_mnt[n]] = n
           /\ Total({Frame("kfree", n)}) = 0 /\ Total({Frame("mq_put_mnt", n)}) = 0
<1>1. n \in alive /\ count[n] # 0
  BY DEF IInv, RefCount, TypeInv
<1>2. mq_mnt[n] \in Sbs /\ s_fs_info[mq_mnt[n]] = n
  BY DEF IInv, MountInv
<1> QED BY <1>1, <1>2 DEF IInv, LifeInv

(* count[n] is at least every part of what it counts.                      *)
LEMMA CountParts ==
    ASSUME TypeInv, RefCount, NEW n \in Nss
    PROVE  /\ count[n] \in Nat
           /\ Cardinality({t \in Tasks : nsproxy[t] = n}) \in Nat
           /\ \A t \in Tasks : nsproxy[t] = n => count[n] > 0
           /\ \A t \in Threads : \A f \in Frames(t) : f \in Holders(n) => count[n] > 0
           /\ n = init_ipc_ns => count[n] > 0
<1> DEFINE T == {t \in Tasks : nsproxy[t] = n}
<1>1. IsFiniteSet(T)
  BY NsConstants, FS_Subset
<1>2. Cardinality(T) \in Nat /\ (T # {} => Cardinality(T) # 0)
  BY <1>1, FS_CardinalityType, FS_EmptySet
<1>3. /\ Total(Holders(n)) \in Nat
      /\ \A t \in Threads : \A f \in Frames(t) : f \in Holders(n) => Total(Holders(n)) > 0
  BY Counted DEF TypeInv
<1>4. count[n] = Cardinality(T) + Total(Holders(n)) + (IF n = init_ipc_ns THEN 1 ELSE 0)
  BY DEF RefCount
<1>5. \A t \in Tasks : nsproxy[t] = n => T # {}
  OBVIOUS
<1>6. Cardinality(T) = Cardinality({t \in Tasks : nsproxy[t] = n})
  OBVIOUS
<1> HIDE DEF T
<1>7. count[n] \in Nat /\ count[n] >= Cardinality(T) /\ count[n] >= Total(Holders(n))
      /\ (n = init_ipc_ns => count[n] > 0)
  BY <1>2, <1>3, <1>4
<1>8. \A t \in Tasks : nsproxy[t] = n => count[n] > 0
  BY <1>2, <1>5, <1>7
<1>9. \A t \in Threads : \A f \in Frames(t) : f \in Holders(n) => count[n] > 0
  BY <1>3, <1>7
<1> QED BY <1>2, <1>6, <1>7, <1>8, <1>9

(* Who has one.                                                            *)
LEMMA Held ==
    ASSUME IInv, NEW t \in Threads, NEW f \in Frames(t)
    PROVE  /\ f.at \in {"put", "switch"} => count[f.of] > 0
           /\ f.at = "inode" => count[f.ns] > 0
           /\ f.at = "release" /\ f.ns # NoNs => f.ns \in Nss /\ count[f.ns] > 0
           /\ f.at \in {"put", "switch"} => f.of \in Nss
           /\ f.at = "inode" => f.ns \in Nss
<1>1. f \in FrameSet /\ ArgsOK(t, f)
  BY AllArgs DEF IInv
<1>2. ASSUME NEW n \in Nss, f \in Holders(n) PROVE count[n] > 0
  BY <1>2, CountParts DEF IInv
<1>3. /\ f.at \in {"put", "switch"} => f.of \in Nss
      /\ f.at = "inode" => f.ns \in Nss
      /\ f.at = "release" /\ f.ns # NoNs => f.ns \in Nss
  BY <1>1 DEF ArgsOK, NsLabels, FrameSet
<1>4. /\ f.at \in {"put", "switch"} => f \in Holders(f.of)
      /\ f.at \in {"inode", "release"} => f \in Holders(f.ns)
  BY <1>1 DEF Holders
<1> QED BY <1>2, <1>3, <1>4

(* The namespace that a thread tears down.                                 *)
LEMMA Doomed ==
    ASSUME IInv, NEW t \in Threads, NEW f \in Frames(t)
    PROVE  /\ f.at \in {"kfree", "mq_put_mnt"} =>
                /\ f.of \in Nss /\ f = Frame(f.at, f.of)
                /\ f.of \in alive /\ count[f.of] = 0 /\ Total({Frame("kfree", f.of)}) = 1
           /\ f.at = "mq_put_mnt" => mq_mnt[f.of] \in Sbs /\ Total({Frame("mq_put_mnt", f.of)}) = 1
<1>1. f \in FrameSet /\ ArgsOK(t, f)
  BY AllArgs DEF IInv
<1>2. f.at \in {"kfree", "mq_put_mnt"} => f.of \in Nss /\ f = Frame(f.at, f.of)
  BY <1>1 DEF ArgsOK, NsLabels
<1>3. \A l, x : f = Frame(l, x) => Total({Frame(l, x)}) \in Nat /\ Total({Frame(l, x)}) > 0
  <2> SUFFICES ASSUME NEW l, NEW x, f = Frame(l, x)
               PROVE  Total({Frame(l, x)}) \in Nat /\ Total({Frame(l, x)}) > 0
    OBVIOUS
  <2>1. PICK S : S = {Frame(l, x)}
    OBVIOUS
  <2>2. Total(S) \in Nat /\ (f \in S => Total(S) > 0)
    BY Counted DEF IInv, TypeInv
  <2> QED BY <2>1, <2>2
<1>4. ASSUME f.at = "mq_put_mnt"
      PROVE /\ f.of \in alive /\ count[f.of] = 0 /\ mq_mnt[f.of] # NoSb
            /\ Total({Frame("mq_put_mnt", f.of)}) = 1
  BY <1>2, <1>3, <1>4 DEF IInv, LifeInv
<1>5. ASSUME f.at = "kfree" PROVE f.of \in alive /\ count[f.of] = 0
  <2>1. f.of \in Nss /\ Total({Frame("kfree", f.of)}) > 0
    BY <1>2, <1>3, <1>5
  <2> QED BY <2>1 DEF IInv, LifeInv
<1>6. f.at \in {"kfree", "mq_put_mnt"} => Total({Frame("kfree", f.of)}) = 1
  BY <1>2, <1>4, <1>5 DEF IInv, LifeInv
<1>7. f.at = "mq_put_mnt" => mq_mnt[f.of] \in Sbs
  BY <1>2, <1>4 DEF IInv, TypeInv
<1> QED BY <1>2, <1>4, <1>5, <1>6, <1>7

(* The mount is given back before the namespace is freed.                  *)
LEMMA NoMountLeft ==
    ASSUME IInv, NEW t \in Threads, At(t, "kfree")
    PROVE  mq_mnt[Arg(t)] = NoSb
<1>0. TypeInv /\ ShapeInv /\ stack \in [Threads -> Seq(FrameSet)]
  BY DEF IInv, TypeInv
<1>1. /\ stack[t] # <<>> /\ 1 \in DOMAIN stack[t] /\ Head(stack[t]) = stack[t][1]
      /\ Head(stack[t]) \in Frames(t) /\ Head(stack[t]).at = "kfree"
  BY <1>0, HeadFacts DEF At
<1>n. PICK n : n = Arg(t)
  OBVIOUS
<1>2. /\ n \in Nss /\ stack[t][1] = Frame("kfree", n) /\ n \in alive /\ count[n] = 0
      /\ Total({Frame("kfree", n)}) = 1
  BY <1>1, <1>n, Doomed DEF Arg
<1> SUFFICES ASSUME mq_mnt[n] # NoSb PROVE FALSE
  BY <1>n
<1>3. Total({Frame("mq_put_mnt", n)}) = 1
  BY <1>2 DEF IInv, LifeInv
<1>4. PICK u \in Threads : \E f \in Frames(u) : f \in {Frame("mq_put_mnt", n)}
  BY <1>0, <1>3, Counted
<1>5. PICK i \in DOMAIN stack[u] : stack[u][i] = Frame("mq_put_mnt", n)
  BY <1>4 DEF Frames
<1>6. stack[u][i].at = "mq_put_mnt" /\ stack[u][i].of = n
  BY <1>5 DEF Frame, MkFrame
<1>7. Below(u, i, {Frame("kfree", n)})
  BY <1>0, <1>6 DEF ShapeInv, Shape
<1>8. PICK j \in DOMAIN stack[u] : j > i /\ stack[u][j] = Frame("kfree", n)
  BY <1>7 DEF Below
<1>9. u = t /\ j = 1
  <2>1. PICK S : S = {Frame("kfree", n)}
    OBVIOUS
  <2>2. Total(S) <= 1 /\ stack[t][1] \in S /\ stack[u][j] \in S
    BY <1>2, <1>8, <2>1
  <2> QED BY <1>0, <1>1, <2>2, TotalPlaces
<1>10. i \in Nat /\ i >= 1
  BY <1>0
<1> QED BY <1>8, <1>9, <1>10

(* A super block that something refers to.                                 *)
LEMMA HeldSb ==
    ASSUME IInv, NEW s \in Sbs, MntRefs(s) > 0
    PROVE  s_fs_info[s] \in Nss \cup {NoNs} /\ Total({Frame("kill", s)}) = 0
<1>1. MntRefs(s) # 0
  OBVIOUS
<1> QED BY <1>1 DEF IInv, MountInv, TypeInv

(* The references to a super block: each of its sources alone makes them   *)
(* positive.                                                               *)
LEMMA SbParts ==
    ASSUME TypeInv, NEW s \in Sbs
    PROVE  /\ MntRefs(s) \in Nat
           /\ \A n \in Nss : mq_mnt[n] = s => MntRefs(s) > 0
           /\ s \in usermnt => MntRefs(s) > 0
           /\ \A q \in Queues : inode[q] # NoQueue /\ inode[q].sb = s /\ inode[q].fds # {} => MntRefs(s) > 0
           /\ \A t \in Threads : Frame("mntput", s) \in Frames(t) => MntRefs(s) > 0
<1>1. /\ MntRefs(s) = OwnMounts(s) + UserMount(s) + Fds(s) + Total({Frame("mntput", s)})
      /\ OwnMounts(s) \in Nat /\ UserMount(s) = (IF s \in usermnt THEN 1 ELSE 0)
      /\ Fds(s) \in Nat /\ Total({Frame("mntput", s)}) \in Nat
      /\ \A q \in Queues : FdsOf(q, s) \in Nat /\ FdsOf(q, s) <= Fds(s)
      /\ \A n \in Nss : mq_mnt[n] = s => OwnMounts(s) > 0
  BY MntRefsSum
<1>2. \A t \in Threads : Frame("mntput", s) \in Frames(t) => Total({Frame("mntput", s)}) > 0
  BY Counted DEF TypeInv
<1>3. ASSUME NEW q \in Queues, inode[q] # NoQueue, inode[q].sb = s, inode[q].fds # {}
      PROVE  FdsOf(q, s) # 0
  <2>1. inode[q].fds \in SUBSET Tasks
    BY <1>3 DEF TypeInv, QueueRecord
  <2>2. IsFiniteSet(inode[q].fds)
    BY <2>1, NsConstants, FS_Subset
  <2>3. Cardinality(inode[q].fds) # 0
    BY <1>3, <2>2, FS_EmptySet
  <2> QED BY <1>3, <2>3 DEF FdsOf
<1>4. /\ MntRefs(s) \in Nat /\ MntRefs(s) >= OwnMounts(s) /\ MntRefs(s) >= Fds(s)
      /\ MntRefs(s) >= Total({Frame("mntput", s)}) /\ (s \in usermnt => MntRefs(s) > 0)
  BY <1>1
<1>5. \A n \in Nss : mq_mnt[n] = s => MntRefs(s) > 0
  BY <1>1, <1>4
<1>6. \A q \in Queues : inode[q] # NoQueue /\ inode[q].sb = s /\ inode[q].fds # {} => MntRefs(s) > 0
  <2> SUFFICES ASSUME NEW q \in Queues, inode[q] # NoQueue, inode[q].sb = s, inode[q].fds # {}
               PROVE  MntRefs(s) > 0
    OBVIOUS
  <2>1. FdsOf(q, s) # 0 /\ FdsOf(q, s) \in Nat /\ FdsOf(q, s) <= Fds(s) /\ Fds(s) \in Nat
    BY <1>1, <1>3
  <2> QED BY <1>4, <2>1
<1>7. \A t \in Threads : Frame("mntput", s) \in Frames(t) => MntRefs(s) > 0
  <2> SUFFICES ASSUME NEW t \in Threads, Frame("mntput", s) \in Frames(t) PROVE MntRefs(s) > 0
    OBVIOUS
  <2>1. Total({Frame("mntput", s)}) > 0
    BY <1>2
  <2>2. PICK m : m = Total({Frame("mntput", s)})
    OBVIOUS
  <2>3. m > 0 /\ m \in Nat /\ MntRefs(s) \in Nat /\ MntRefs(s) >= m
    BY <1>1, <1>4, <2>1, <2>2
  <2> QED BY <2>3
<1> QED BY <1>4, <1>5, <1>6, <1>7

(* A queue that a thread sees to.                                          *)
LEMMA OwnedQueue ==
    ASSUME IInv, NEW t \in Threads, NEW f \in Frames(t),
           f.at \in {"delete", "release", "instantiate"}
    PROVE  /\ f.of \in Queues /\ inode[f.of] # NoQueue /\ inode[f.of] \in QueueRecord
           /\ Total(Owners(f.of)) = 1
           /\ s_fs_info[inode[f.of].sb] \in Nss \cup {NoNs}
<1>1. f \in FrameSet /\ ArgsOK(t, f)
  BY AllArgs DEF IInv
<1>2. f.of \in Queues
  BY <1>1 DEF ArgsOK
<1>3. PICK q : q = f.of
  OBVIOUS
<1>4. f \in Owners(q)
  BY <1>1, <1>3 DEF Owners
<1>5. Total(Owners(q)) \in Nat /\ Total(Owners(q)) > 0
  BY <1>4, Counted DEF IInv, TypeInv
<1>6. inode[q] # NoQueue
  BY <1>2, <1>3, <1>5 DEF IInv, QueueInv
<1>7. Total(Owners(q)) = 1 /\ s_fs_info[inode[q].sb] # NoSb
  <2>1. Total(Owners(q)) \in {0, 1} /\ s_fs_info[inode[q].sb] # NoSb
    BY <1>2, <1>3, <1>6 DEF IInv, QueueInv
  <2> QED BY <1>5, <2>1
<1>8. inode[q] \in QueueRecord
  BY <1>2, <1>3, <1>6 DEF IInv, TypeInv
<1>9. s_fs_info[inode[q].sb] \in Nss \cup {NoNs}
  BY <1>7, <1>8 DEF IInv, TypeInv, QueueRecord
<1> QED BY <1>2, <1>3, <1>6, <1>7, <1>8, <1>9

-----------------------------------------------------------------------------
(* The first part of a chain.                                              *)
LEMMA CutChain ==
    ASSUME NEW S, NEW s \in Seq(S), NEW i \in DOMAIN s
    PROVE  /\ SubSeq(s, 1, i) \in Seq(S) /\ Len(SubSeq(s, 1, i)) = i
           /\ \A j \in 1 .. i : SubSeq(s, 1, i)[j] = s[j]
           /\ {s[j] : j \in (i + 1) .. Len(s)} \subseteq S
<1>1. DOMAIN s = 1 .. Len(s) /\ Len(s) \in Nat /\ i \in 1 .. Len(s)
  OBVIOUS
<1>2. \A j \in 1 .. Len(s) : s[j] \in S
  OBVIOUS
<1>3. {s[j] : j \in (i + 1) .. Len(s)} \subseteq S
  BY <1>1, <1>2
<1>4. SubSeq(s, 1, i) \in Seq(S) /\ Len(SubSeq(s, 1, i)) = i
  BY <1>1
<1>5. \A j \in 1 .. i : SubSeq(s, 1, i)[j] = s[j]
  BY <1>1
<1> QED BY <1>3, <1>4, <1>5

(* The notifier block is cleared.                                          *)
LEMMA After_clear_nb ==
    ASSUME IInv, NEW t \in Threads, clear_nb(t), may' = may
    PROVE  Ends(t, <<Frame("nb_call", Arg(t))>>) /\ Arg(t) \in Nss
<1>1. At(t, "clear") /\ Moves(t, <<Frame("nb_call", Arg(t))>>)
  BY DEF clear_nb, At, Moves, Run
<1>2. TypeInv /\ ShapeInv /\ Arg(t) \in Nss /\ ~At(t, "nr_inc") /\ t \in Tasks
  BY <1>1, NsRuns DEF NsLabels
<1>3. \A i \in DOMAIN chain : /\ SubSeq(chain, 1, i) \in Seq(Nss)
                             /\ {chain[j] : j \in (i + 1) .. Len(chain)} \subseteq Nss
  <2>1. chain \in Seq(Nss)
    BY <1>2 DEF TypeInv
  <2> QED BY <2>1, CutChain
<1>5. DataType'
  BY <1>2, <1>3 DEF clear_nb, DataType, TypeInv, nsv, mniv, sbv, queuev
<1> QED BY <1>1, <1>2, <1>5, EndsOne

(* A namespace is registered.                                              *)
LEMMA After_register_ipcns_notifier ==
    ASSUME IInv, NEW t \in Threads, register_ipcns_notifier(t), may' = may
    PROVE  Ends(t, <<Frame("flag_on", Arg(t))>>) /\ Arg(t) \in Nss
<1>1. At(t, "register") /\ Moves(t, <<Frame("flag_on", Arg(t))>>)
  BY DEF register_ipcns_notifier, At, Moves, Run
<1>2. TypeInv /\ ShapeInv /\ Arg(t) \in Nss /\ ~At(t, "nr_inc") /\ t \in Tasks
  BY <1>1, NsRuns DEF NsLabels
<1>5. DataType'
  BY <1>2 DEF register_ipcns_notifier, DataType, TypeInv, nsv, mniv, sbv, queuev
<1> QED BY <1>1, <1>2, <1>5, EndsOne

(* A namespace is unregistered.                                            *)
LEMMA After_unregister_ipcns_notifier ==
    ASSUME IInv, NEW t \in Threads, unregister_ipcns_notifier(t), may' = may
    PROVE  Ends(t, <<Frame("flag_off", Arg(t))>>) /\ Arg(t) \in Nss
<1>1. At(t, "unregister") /\ Moves(t, <<Frame("flag_off", Arg(t))>>)
  BY DEF unregister_ipcns_notifier, At, Moves, Run
<1>2. TypeInv /\ ShapeInv /\ Arg(t) \in Nss /\ ~At(t, "nr_inc") /\ t \in Tasks
  BY <1>1, NsRuns DEF NsLabels
<1>3. RemoveFirst(chain, Arg(t)) \in Seq(Nss)
  BY RemoveFirstEntries DEF IInv, ChainInv, TypeInv
<1>5. DataType'
  BY <1>2, <1>3 DEF unregister_ipcns_notifier, DataType, TypeInv, nsv, mniv, sbv, queuev
<1> QED BY <1>1, <1>2, <1>5, EndsOne

(* A walker dies.                                                          *)
LEMMA After_callback_oops ==
    ASSUME IInv, NEW t \in Threads, callback_oops(t), may' = may
    PROVE  Ends(t, <<Frame("oops", Arg(t))>>) /\ Arg(t) \in Nss
<1>1. At(t, "walk") /\ Moves(t, <<Frame("oops", Arg(t))>>)
  BY DEF callback_oops, At, Moves, Run
<1>2. TypeInv /\ ShapeInv /\ Arg(t) \in Nss /\ ~At(t, "nr_inc")
  BY <1>1, NsRuns DEF NsLabels
<1>5. DataType'
  BY <1>2 DEF callback_oops, DataType, TypeInv, nsv, mniv, sbv, queuev
<1> QED BY <1>1, <1>2, <1>5, EndsOne

(* The notifier block has its call again.                                  *)
LEMMA After_set_notifier_call ==
    ASSUME IInv, NEW t \in Threads, set_notifier_call(t), may' = may
    PROVE  Ends(t, <<>>)
<1>1. At(t, "nb_call") /\ Moves(t, <<>>)
  BY DEF set_notifier_call, At, Moves, Run
<1>2. TypeInv /\ ShapeInv /\ Arg(t) \in Nss /\ Head(stack[t]) \in FrameSet
  BY <1>1, NsRuns DEF NsLabels
<1>5. DataType'
  BY <1>2 DEF set_notifier_call, DataType, TypeInv, nsv, mniv, sbv, queuev
<1> QED BY <1>1, <1>2, <1>5, EndsPop

(* The flag is set or cleared.                                             *)
LEMMA After_set_auto_msgmni ==
    ASSUME IInv, NEW t \in Threads, set_auto_msgmni(t), may' = may
    PROVE  Ends(t, <<>>) /\ (At(t, "flag_on") \/ At(t, "flag_off"))
<1>1. (At(t, "flag_on") \/ At(t, "flag_off")) /\ Moves(t, <<>>)
  BY DEF set_auto_msgmni, At, Moves, Run
<1>2. TypeInv /\ ShapeInv /\ Arg(t) \in Nss
  BY <1>1, NsRuns DEF NsLabels
<1>5. DataType'
  BY <1>2 DEF set_auto_msgmni, DataType, TypeInv, nsv, mniv, sbv, queuev
<1> QED BY <1>1, <1>2, <1>5, EndsPop

(* The caller stores its msgmni.                                           *)
LEMMA After_compute_set ==
    ASSUME IInv, NEW t \in Threads, compute_set(t), may' = may
    PROVE  Ends(t, <<>>)
<1>1. At(t, "set") /\ Moves(t, <<>>)
  BY DEF compute_set, At, Moves, Run
<1>2. TypeInv /\ ShapeInv /\ Arg(t) \in Nss /\ Head(stack[t]) \in FrameSet
  BY <1>1, NsRuns DEF NsLabels
<1>5. DataType'
  BY <1>2 DEF compute_set, DataType, TypeInv, nsv, mniv, sbv, queuev, FrameSet, Arg
<1> QED BY <1>1, <1>2, <1>5, EndsPop

(* A namespace is counted.                                                 *)
LEMMA After_nr_inc ==
    ASSUME IInv, NEW t \in Threads, nr_inc(t), may' = may
    PROVE  Ends(t, <<>>)
<1>1. At(t, "nr_inc") /\ Moves(t, <<>>)
  BY DEF nr_inc, At, Moves, Run
<1>2. TypeInv /\ ShapeInv /\ Arg(t) \in Nss /\ Head(stack[t]) \in FrameSet
  BY <1>1, NsRuns DEF NsLabels
<1>5. DataType'
  BY <1>2 DEF nr_inc, DataType, TypeInv, nsv, mniv, sbv, queuev, PassedBy
<1> QED BY <1>1, <1>2, <1>5, EndsPop

(* A new namespace gets its msgmni.                                        *)
LEMMA After_msg_init_ns ==
    ASSUME IInv, NEW t \in Threads, msg_init_ns(t), may' = may
    PROVE  Ends(t, <<>>)
<1>1. At(t, "msg_init_ns") /\ Moves(t, <<>>)
  BY DEF msg_init_ns, At, Moves, Run
<1>2. TypeInv /\ ShapeInv /\ Arg(t) \in Nss /\ Head(stack[t]) \in FrameSet
  BY <1>1, NsRuns DEF NsLabels
<1>5. DataType'
  BY <1>2 DEF msg_init_ns, DataType, TypeInv, nsv, mniv, sbv, queuev
<1> QED BY <1>1, <1>2, <1>5, EndsPop

(* A task goes over to its new namespace.                                  *)
LEMMA After_switch ==
    ASSUME IInv, NEW t \in Threads, switch(t), may' = may
    PROVE  Ends(t, <<Frame("put", nsproxy[t])>>)
<1>0. TypeInv /\ ShapeInv
  BY DEF IInv
<1>1. /\ stack[t] # <<>> /\ Head(stack[t]).at = "switch" /\ Head(stack[t]) \in Frames(t)
      /\ Head(stack[t]) \in FrameSet /\ ArgsOK(t, Head(stack[t])) /\ Shape(t, 1)
      /\ Head(stack[t]) = stack[t][1] /\ ~At(t, "nr_inc")
  BY <1>0, HeadFacts DEF switch, At
<1>2. t \in Tasks
  BY <1>0, <1>1, TaskRuns
<1>3. Arg(t) \in Nss
  BY <1>1 DEF ArgsOK, NsLabels, Arg
<1>4. nsproxy[t] \in Nss
  BY <1>1, <1>2 DEF IInv, TaskInv, TypeInv
<1>5. DataType'
  BY <1>0, <1>1, <1>2, <1>3, <1>4 DEF switch, DataType, TypeInv, nsv, mniv, sbv, queuev
<1>6. Ends(t, <<Frame("put", nsproxy[t])>>)
  <2>1. PICK a : a = Frame("put", nsproxy[t])
      OBVIOUS
  <2>2. /\ a \in FrameSet /\ ArgsOK(t, a) /\ a.at = "put" /\ a.of = nsproxy[t]
      BY <1>0, <1>1, <1>2, <1>3, <1>4, <1>5, <2>1, PlainFrames DEF NsLabels
  <2>5. Moves(t, <<a>>)
      BY <1>0, <1>1, <1>2, <1>3, <1>4, <1>5, <2>1 DEF Moves, switch, Run
  <2>6. Ends(t, <<a>>)
      BY <1>0, <1>1, <1>2, <1>3, <1>4, <1>5, <2>2, <2>5, EndsFrame
  <2> QED BY <2>1, <2>6
<1> QED BY <1>6

(* A namespace gives its mount back.                                       *)
LEMMA After_mq_put_mnt ==
    ASSUME IInv, NEW t \in Threads, mq_put_mnt(t), may' = may
    PROVE  Ends(t, <<Frame("mntput", mq_mnt[Arg(t)])>>)
<1>0. TypeInv /\ ShapeInv
  BY DEF IInv
<1>1. /\ stack[t] # <<>> /\ Head(stack[t]).at = "mq_put_mnt" /\ Head(stack[t]) \in Frames(t)
      /\ Head(stack[t]) \in FrameSet /\ ArgsOK(t, Head(stack[t])) /\ Shape(t, 1)
      /\ Head(stack[t]) = stack[t][1] /\ ~At(t, "nr_inc")
  BY <1>0, HeadFacts DEF mq_put_mnt, At
<1>2. t \in Tasks
  BY <1>0, <1>1, TaskRuns
<1>3. Arg(t) \in Nss
  BY <1>1 DEF ArgsOK, NsLabels, Arg
<1>4. mq_mnt[Arg(t)] \in Sbs
  BY <1>1, Doomed DEF Arg
<1>5. DataType'
  BY <1>0, <1>1, <1>2, <1>3, <1>4 DEF mq_put_mnt, DataType, TypeInv, nsv, mniv, sbv, queuev
<1>6. Ends(t, <<Frame("mntput", mq_mnt[Arg(t)])>>)
  <2>1. PICK a : a = Frame("mntput", mq_mnt[Arg(t)])
      OBVIOUS
  <2>2. /\ a \in FrameSet /\ ArgsOK(t, a) /\ a.at = "mntput" /\ a.of = mq_mnt[Arg(t)]
      BY <1>0, <1>1, <1>2, <1>3, <1>4, <1>5, <2>1, PlainFrames DEF NsLabels
  <2>5. Moves(t, <<a>>)
      BY <1>0, <1>1, <1>2, <1>3, <1>4, <1>5, <2>1 DEF Moves, mq_put_mnt, Run
  <2>6. Ends(t, <<a>>)
      BY <1>0, <1>1, <1>2, <1>3, <1>4, <1>5, <2>2, <2>5, EndsFrame
  <2> QED BY <2>1, <2>6
<1> QED BY <1>6

(* A function to the integers stays one when a value of it is set to zero. *)
LEMMA ExceptInt ==
    ASSUME NEW S, NEW f \in [S -> Int], NEW x \in S
    PROVE  [f EXCEPT ![x] = 0] \in [S -> Int]
    OBVIOUS

(* A namespace is freed.                                                   *)
LEMMA After_kfree_ns ==
    ASSUME IInv, NEW t \in Threads, kfree_ns(t), may' = may
    PROVE  Ends(t, <<>>)
<1>0. TypeInv /\ ShapeInv
  BY DEF IInv
<1>1. /\ stack[t] # <<>> /\ Head(stack[t]).at = "kfree" /\ Head(stack[t]) \in Frames(t)
      /\ Head(stack[t]) \in FrameSet /\ ArgsOK(t, Head(stack[t])) /\ Shape(t, 1)
      /\ Head(stack[t]) = stack[t][1] /\ ~At(t, "nr_inc")
  BY <1>0, HeadFacts DEF kfree_ns, At
<1>2. t \in Tasks
  BY <1>0, <1>1, TaskRuns
<1>3. Arg(t) \in Nss
  BY <1>1 DEF ArgsOK, NsLabels, Arg
<1>4. ByHand \in Int \X Int
  BY FrameType
<1>5. DataType'
  <2>1. alive' \subseteq Nss /\ raced' \subseteq Nss
    BY <1>0 DEF kfree_ns, TypeInv
  <2>2. msg_ctlmni' \in [Nss -> Int \X Int]
    BY <1>0, <1>4 DEF kfree_ns, TypeInv
  <2>3. mq_queues_count' \in [Nss -> Int]
    <3>1. mq_queues_count \in [Nss -> Int]
      BY <1>0 DEF TypeInv
    <3>2. mq_queues_count' = [mq_queues_count EXCEPT ![Arg(t)] = 0]
      BY <1>0 DEF kfree_ns
    <3>3. [mq_queues_count EXCEPT ![Arg(t)] = 0] \in [Nss -> Int]
      BY <1>3, <3>1, ExceptInt
    <3> QED BY <3>2, <3>3
  <2> QED BY <1>0, <2>1, <2>2, <2>3 DEF kfree_ns, DataType, TypeInv, sbv
<1>6. Ends(t, <<>>)
  <2>5. Moves(t, <<>>)
      BY <1>0, <1>1, <1>2, <1>3, <1>4, <1>5 DEF Moves, kfree_ns, Run
  <2> QED BY <1>0, <1>1, <1>2, <1>3, <1>4, <1>5, <2>5, EndsPop
<1> QED BY <1>6

(* A namespace is no longer counted.                                       *)
LEMMA After_nr_dec ==
    ASSUME IInv, NEW t \in Threads, nr_dec(t), may' = may
    PROVE  Ends(t, <<>>)
<1>0. TypeInv /\ ShapeInv
  BY DEF IInv
<1>1. /\ stack[t] # <<>> /\ Head(stack[t]).at = "nr_dec" /\ Head(stack[t]) \in Frames(t)
      /\ Head(stack[t]) \in FrameSet /\ ArgsOK(t, Head(stack[t])) /\ Shape(t, 1)
      /\ Head(stack[t]) = stack[t][1] /\ ~At(t, "nr_inc")
  BY <1>0, HeadFacts DEF nr_dec, At
<1>2. t \in Tasks
  BY <1>0, <1>1, TaskRuns
<1>5. DataType'
  BY <1>0, <1>1, <1>2 DEF nr_dec, DataType, TypeInv, nsv, mniv, sbv, queuev, PassedBy
<1>6. Ends(t, <<>>)
  <2>5. Moves(t, <<>>)
      BY <1>0, <1>1, <1>2, <1>5 DEF Moves, nr_dec, Run
  <2> QED BY <1>0, <1>1, <1>2, <1>5, <2>5, EndsPop
<1> QED BY <1>6

(* There is no inode.                                                      *)
LEMMA After_new_inode_fails ==
    ASSUME IInv, NEW t \in Threads, new_inode_fails(t), may' = may
    PROVE  Ends(t, <<Frame("uncount", Head(stack[t]).ns), Frame("put", Head(stack[t]).ns)>>)
<1>0. TypeInv /\ ShapeInv
  BY DEF IInv
<1>1. /\ stack[t] # <<>> /\ Head(stack[t]).at = "inode" /\ Head(stack[t]) \in Frames(t)
      /\ Head(stack[t]) \in FrameSet /\ ArgsOK(t, Head(stack[t])) /\ Shape(t, 1)
      /\ Head(stack[t]) = stack[t][1] /\ ~At(t, "nr_inc")
  BY <1>0, HeadFacts DEF new_inode_fails, At
<1>2. t \in Tasks
  BY <1>0, <1>1, TaskRuns
<1>3. Arg(t) \in Sbs
  BY <1>1 DEF ArgsOK, NsLabels, Arg
<1>4. Head(stack[t]).ns \in Nss /\ create_failed(Head(stack[t]).ns) =
        <<Frame("uncount", Head(stack[t]).ns), Frame("put", Head(stack[t]).ns)>>
  BY <1>1 DEF ArgsOK, create_failed
<1>5. DataType'
  BY <1>0, <1>1, <1>2, <1>3, <1>4 DEF new_inode_fails, DataType, TypeInv, nsv, mniv, sbv, queuev
<1>6. Ends(t, <<Frame("uncount", Head(stack[t]).ns), Frame("put", Head(stack[t]).ns)>>)
  <2>1. PICK a, b : a = Frame("uncount", Head(stack[t]).ns) /\ b = Frame("put", Head(stack[t]).ns)
      OBVIOUS
  <2>2. /\ a \in FrameSet /\ ArgsOK(t, a) /\ a.at = "uncount" /\ a.of = Head(stack[t]).ns
        /\ b \in FrameSet /\ ArgsOK(t, b) /\ b.at = "put" /\ b.of = Head(stack[t]).ns
      BY <1>0, <1>1, <1>2, <1>3, <1>4, <1>5, <2>1, PlainFrames DEF NsLabels
  <2>3. <<a, b>> \in Seq(FrameSet) /\ Len(<<a, b>>) = 2
      BY <2>2
  <2>4. \A i \in 1 .. Len(<<a, b>>) : FsOK(t, <<a, b>>, i)
    <3>1. <<a, b>>[1] = a /\ <<a, b>>[2] = b
        OBVIOUS
    <3>2. FsOK(t, <<a, b>>, 1)
        BY <1>0, <1>1, <1>2, <1>3, <1>4, <1>5, <2>1, <2>2, <3>1 DEF FsOK
    <3>3. FsOK(t, <<a, b>>, 2)
        BY <1>0, <1>1, <1>2, <1>3, <1>4, <1>5, <2>1, <2>2, <3>1 DEF FsOK
    <3> QED BY <3>2, <3>3
  <2>5. Moves(t, <<a, b>>)
      BY <1>0, <1>1, <1>2, <1>3, <1>4, <1>5, <2>1 DEF Moves, new_inode_fails, Run
  <2>f. PICK fs : fs = <<a, b>>
      OBVIOUS
  <2>g. fs \in Seq(FrameSet) /\ Moves(t, fs) /\ (At(t, "nr_inc") => fs = <<>>) /\ \A i \in 1 .. Len(fs) : FsOK(t, fs, i)
      BY <1>0, <1>1, <1>2, <1>3, <1>4, <1>5, <2>3, <2>4, <2>5, <2>f DEF At
  <2>6. Ends(t, <<a, b>>)
      BY <1>0, <1>1, <1>2, <1>3, <1>4, <1>5, <2>f, <2>g, EndsHow
  <2> QED BY <2>1, <2>6
<1> QED BY <1>6

(* The queue that failed is uncounted.                                     *)
LEMMA After_uncount ==
    ASSUME IInv, NEW t \in Threads, uncount(t), may' = may
    PROVE  Ends(t, <<>>)
<1>1. At(t, "uncount") /\ Moves(t, <<>>)
  BY DEF uncount, At, Moves, Run
<1>2. TypeInv /\ ShapeInv /\ Arg(t) \in Nss /\ Head(stack[t]) \in FrameSet
  BY <1>1, NsRuns DEF NsLabels
<1>5. DataType'
  BY <1>2 DEF uncount, DataType, TypeInv, nsv, mniv, sbv, queuev
<1> QED BY <1>1, <1>2, <1>5, EndsPop

(* The queue gets its name, and perhaps a file.                            *)
LEMMA After_instantiate ==
    ASSUME IInv, NEW t \in Threads, instantiate(t), may' = may
    PROVE  Ends(t, <<>>)
<1>0. TypeInv /\ ShapeInv
  BY DEF IInv
<1>1. /\ stack[t] # <<>> /\ Head(stack[t]).at = "instantiate" /\ Head(stack[t]) \in Frames(t)
      /\ Head(stack[t]) \in FrameSet /\ ArgsOK(t, Head(stack[t])) /\ Shape(t, 1)
      /\ Head(stack[t]) = stack[t][1] /\ ~At(t, "nr_inc")
  BY <1>0, HeadFacts DEF instantiate, At
<1>2. t \in Tasks
  BY <1>0, <1>1, TaskRuns
<1>3. Arg(t) \in Queues
  BY <1>1 DEF ArgsOK, NsLabels, Arg
<1>4. inode[Arg(t)] \in QueueRecord
  BY <1>1, OwnedQueue DEF Arg
<1>5. DataType'
  <2>1. PICK fds \in {{}, {t}} : inode' = [inode EXCEPT ![Arg(t)].link = TRUE, ![Arg(t)].fds = fds]
    BY DEF instantiate
  <2>2. inode' \in [Queues -> QueueRecord \cup {NoQueue}]
    BY <1>0, <1>2, <1>3, <1>4, <2>1 DEF TypeInv, QueueRecord
  <2> QED BY <1>0, <2>2 DEF instantiate, DataType, TypeInv, nsv, mniv, sbv, queuev
<1>6. Ends(t, <<>>)
  <2>5. Moves(t, <<>>)
      BY <1>0, <1>1, <1>2, <1>3, <1>4, <1>5 DEF Moves, instantiate, Run
  <2> QED BY <1>0, <1>1, <1>2, <1>3, <1>4, <1>5, <2>5, EndsPop
<1> QED BY <1>6

-----------------------------------------------------------------------------
(* A walk begins, if there is anything to walk.                            *)
LEMMA After_ipcns_notify ==
    ASSUME IInv, NEW t \in Threads, ipcns_notify(t), may' = may
    PROVE  /\ chain = <<>> => Ends(t, <<>>)
           /\ chain # <<>> => Ends(t, <<Frame("walk", Head(chain))>>) /\ Head(chain) \in Nss
<1>0. TypeInv /\ ShapeInv
  BY DEF IInv
<1>1. /\ stack[t] # <<>> /\ Head(stack[t]).at = "notify" /\ Head(stack[t]) \in Frames(t)
      /\ Head(stack[t]) \in FrameSet /\ ArgsOK(t, Head(stack[t])) /\ Shape(t, 1)
      /\ Head(stack[t]) = stack[t][1] /\ ~At(t, "nr_inc")
  BY <1>0, HeadFacts DEF ipcns_notify, At
<1>4. chain # <<>> => Head(chain) \in Nss
  BY <1>0 DEF TypeInv
<1>5. DataType'
  BY <1>0, <1>1, <1>4 DEF ipcns_notify, DataType, TypeInv, nsv, mniv, sbv, queuev
<1>6. ASSUME chain = <<>> PROVE Ends(t, <<>>)
  <2>5. Moves(t, <<>>)
      BY <1>0, <1>1, <1>4, <1>5, <1>6 DEF Moves, ipcns_notify, Run, Enter
  <2> QED BY <1>0, <1>1, <1>4, <1>5, <1>6, <2>5, EndsPop
<1>7. ASSUME chain # <<>> PROVE Ends(t, <<Frame("walk", Head(chain))>>)
  <2>1. PICK a : a = Frame("walk", Head(chain))
      OBVIOUS
  <2>2. /\ a \in FrameSet /\ ArgsOK(t, a) /\ a.at = "walk" /\ a.of = Head(chain)
      BY <1>0, <1>1, <1>4, <1>5, <1>7, <2>1, PlainFrames DEF NsLabels
  <2>5. Moves(t, <<a>>)
      BY <1>0, <1>1, <1>4, <1>5, <1>7, <2>1 DEF Moves, ipcns_notify, Run, Enter
  <2>6. Ends(t, <<a>>)
      BY <1>0, <1>1, <1>4, <1>5, <1>7, <2>2, <2>5, EndsFrame
  <2> QED BY <2>1, <2>6
<1> QED BY <1>6, <1>7, <1>4, <1>0, <1>1 DEF ipcns_notify

(* A walker stores, and goes on.                                           *)
LEMMA After_callback_store ==
    ASSUME IInv, NEW t \in Threads, callback_store(t), may' = may
    PROVE  /\ Head(stack[t]).next = NoNs => Ends(t, <<>>)
           /\ Head(stack[t]).next # NoNs =>
                Ends(t, <<Frame("walk", Head(stack[t]).next)>>) /\ Head(stack[t]).next \in Nss
<1>0. TypeInv /\ ShapeInv
  BY DEF IInv
<1>1. /\ stack[t] # <<>> /\ Head(stack[t]).at = "store" /\ Head(stack[t]) \in Frames(t)
      /\ Head(stack[t]) \in FrameSet /\ ArgsOK(t, Head(stack[t])) /\ Shape(t, 1)
      /\ Head(stack[t]) = stack[t][1] /\ ~At(t, "nr_inc")
  BY <1>0, HeadFacts DEF callback_store, At
<1>3. Arg(t) \in Nss
  BY <1>1 DEF ArgsOK, NsLabels, Arg
<1>4. /\ Head(stack[t]).next # NoNs => Head(stack[t]).next \in Nss
      /\ Head(stack[t]).mni \in Int \X Int
  BY <1>1 DEF FrameSet
<1>5. DataType'
  BY <1>0, <1>1, <1>3, <1>4 DEF callback_store, DataType, TypeInv, nsv, mniv, sbv, queuev
<1>6. ASSUME Head(stack[t]).next = NoNs PROVE Ends(t, <<>>)
  <2>5. Moves(t, <<>>)
      BY <1>0, <1>1, <1>3, <1>4, <1>5, <1>6 DEF Moves, callback_store, Run, Enter
  <2> QED BY <1>0, <1>1, <1>3, <1>4, <1>5, <1>6, <2>5, EndsPop
<1>7. ASSUME Head(stack[t]).next # NoNs PROVE Ends(t, <<Frame("walk", Head(stack[t]).next)>>)
  <2>1. PICK a : a = Frame("walk", Head(stack[t]).next)
      OBVIOUS
  <2>2. /\ a \in FrameSet /\ ArgsOK(t, a) /\ a.at = "walk" /\ a.of = Head(stack[t]).next
      BY <1>0, <1>1, <1>3, <1>4, <1>5, <1>7, <2>1, PlainFrames DEF NsLabels
  <2>5. Moves(t, <<a>>)
      BY <1>0, <1>1, <1>3, <1>4, <1>5, <1>7, <2>1 DEF Moves, callback_store, Run, Enter
  <2>6. Ends(t, <<a>>)
      BY <1>0, <1>1, <1>3, <1>4, <1>5, <1>7, <2>2, <2>5, EndsFrame
  <2> QED BY <2>1, <2>6
<1> QED BY <1>6, <1>7, <1>4, <1>0, <1>1

(* A reference goes, perhaps the last.                                     *)
LEMMA After_put_ipc_ns ==
    ASSUME IInv, NEW t \in Threads, put_ipc_ns(t), may' = may
    PROVE  /\ count[Arg(t)] = 1 =>
                Ends(t, <<Frame("mq_put_mnt", Arg(t)), Frame("unregister", Arg(t)), Frame("kfree", Arg(t)),
                          Frame("nr_dec", NoNs), Frame("notify", NoNs)>>)
           /\ count[Arg(t)] # 1 => Ends(t, <<>>)
<1>0. TypeInv /\ ShapeInv
  BY DEF IInv
<1>1. /\ stack[t] # <<>> /\ Head(stack[t]).at = "put" /\ Head(stack[t]) \in Frames(t)
      /\ Head(stack[t]) \in FrameSet /\ ArgsOK(t, Head(stack[t])) /\ Shape(t, 1)
      /\ Head(stack[t]) = stack[t][1] /\ ~At(t, "nr_inc")
  BY <1>0, HeadFacts DEF put_ipc_ns, At
<1>2. t \in Tasks
  BY <1>0, <1>1, TaskRuns
<1>3. Arg(t) \in Nss
  BY <1>1 DEF ArgsOK, NsLabels, Arg
<1>5. DataType'
  <2>1. count' \in [Nss -> Int]
    BY <1>0, <1>3 DEF put_ipc_ns, TypeInv
  <2>2. s_fs_info' \in [Sbs -> Nss \cup {NoNs, NoSb}]
    BY <1>0 DEF put_ipc_ns, TypeInv, mq_clear_sbinfo
  <2> QED BY <1>0, <2>1, <2>2 DEF put_ipc_ns, DataType, TypeInv, mniv, queuev
<1>6. ASSUME count[Arg(t)] = 1 PROVE Ends(t, <<Frame("mq_put_mnt", Arg(t)), Frame("unregister", Arg(t)), Frame("kfree", Arg(t)), Frame("nr_dec", NoNs), Frame("notify", NoNs)>>)
  <2>1. PICK a, b, c, d, e : a = Frame("mq_put_mnt", Arg(t)) /\ b = Frame("unregister", Arg(t)) /\ c = Frame("kfree", Arg(t)) /\ d = Frame("nr_dec", NoNs) /\ e = Frame("notify", NoNs)
      OBVIOUS
  <2>2. /\ a \in FrameSet /\ ArgsOK(t, a) /\ a.at = "mq_put_mnt" /\ a.of = Arg(t)
        /\ b \in FrameSet /\ ArgsOK(t, b) /\ b.at = "unregister" /\ b.of = Arg(t)
        /\ c \in FrameSet /\ ArgsOK(t, c) /\ c.at = "kfree" /\ c.of = Arg(t)
        /\ d \in FrameSet /\ ArgsOK(t, d) /\ d.at = "nr_dec" /\ d.of = NoNs
        /\ e \in FrameSet /\ ArgsOK(t, e) /\ e.at = "notify" /\ e.of = NoNs
      BY <1>0, <1>1, <1>2, <1>3, <1>5, <1>6, <2>1, PlainFrames DEF NsLabels
  <2>3. <<a, b, c, d, e>> \in Seq(FrameSet) /\ Len(<<a, b, c, d, e>>) = 5
      BY <2>2
  <2>4. \A i \in 1 .. Len(<<a, b, c, d, e>>) : FsOK(t, <<a, b, c, d, e>>, i)
    <3>1. <<a, b, c, d, e>>[1] = a /\ <<a, b, c, d, e>>[2] = b /\ <<a, b, c, d, e>>[3] = c /\ <<a, b, c, d, e>>[4] = d /\ <<a, b, c, d, e>>[5] = e
        OBVIOUS
    <3>2. FsOK(t, <<a, b, c, d, e>>, 1)
        BY <1>0, <1>1, <1>2, <1>3, <1>5, <1>6, <2>1, <2>2, <3>1 DEF FsOK
    <3>3. FsOK(t, <<a, b, c, d, e>>, 2)
        BY <1>0, <1>1, <1>2, <1>3, <1>5, <1>6, <2>1, <2>2, <3>1 DEF FsOK
    <3>4. FsOK(t, <<a, b, c, d, e>>, 3)
        BY <1>0, <1>1, <1>2, <1>3, <1>5, <1>6, <2>1, <2>2, <3>1 DEF FsOK
    <3>5. FsOK(t, <<a, b, c, d, e>>, 4)
        BY <1>0, <1>1, <1>2, <1>3, <1>5, <1>6, <2>1, <2>2, <3>1 DEF FsOK
    <3>6. FsOK(t, <<a, b, c, d, e>>, 5)
        BY <1>0, <1>1, <1>2, <1>3, <1>5, <1>6, <2>1, <2>2, <3>1 DEF FsOK
    <3> QED BY <3>2, <3>3, <3>4, <3>5, <3>6
  <2>5. Moves(t, <<a, b, c, d, e>>)
      BY <1>0, <1>1, <1>2, <1>3, <1>5, <1>6, <2>1 DEF Moves, put_ipc_ns, Run, Enter, free_ipc_ns
  <2>f. PICK fs : fs = <<a, b, c, d, e>>
      OBVIOUS
  <2>g. fs \in Seq(FrameSet) /\ Moves(t, fs) /\ (At(t, "nr_inc") => fs = <<>>) /\ \A i \in 1 .. Len(fs) : FsOK(t, fs, i)
      BY <1>0, <1>1, <1>2, <1>3, <1>5, <1>6, <2>3, <2>4, <2>5, <2>f DEF At
  <2>6. Ends(t, <<a, b, c, d, e>>)
      BY <1>0, <1>1, <1>2, <1>3, <1>5, <1>6, <2>f, <2>g, EndsHow
  <2> QED BY <2>1, <2>6
<1>7. ASSUME count[Arg(t)] # 1 PROVE Ends(t, <<>>)
  <2>5. Moves(t, <<>>)
      BY <1>0, <1>1, <1>2, <1>3, <1>5, <1>7 DEF Moves, put_ipc_ns, Run, Enter
  <2> QED BY <1>0, <1>1, <1>2, <1>3, <1>5, <1>7, <2>5, EndsPop
<1> QED BY <1>6, <1>7, <1>0, <1>1

(* A mount goes, perhaps the last of its super block.                      *)
LEMMA After_mntput ==
    ASSUME IInv, NEW t \in Threads, mntput(t), may' = may
    PROVE  /\ MntRefs(Arg(t)) = 1 => Ends(t, <<Frame("kill", Arg(t))>>)
           /\ MntRefs(Arg(t)) # 1 => Ends(t, <<>>)
<1>0. TypeInv /\ ShapeInv
  BY DEF IInv
<1>1. /\ stack[t] # <<>> /\ Head(stack[t]).at = "mntput" /\ Head(stack[t]) \in Frames(t)
      /\ Head(stack[t]) \in FrameSet /\ ArgsOK(t, Head(stack[t])) /\ Shape(t, 1)
      /\ Head(stack[t]) = stack[t][1] /\ ~At(t, "nr_inc")
  BY <1>0, HeadFacts DEF mntput, At
<1>2. t \in Tasks
  BY <1>0, <1>1, TaskRuns
<1>3. Arg(t) \in Sbs
  BY <1>1 DEF ArgsOK, NsLabels, Arg
<1>5. DataType'
  BY <1>0, <1>1, <1>2, <1>3 DEF mntput, DataType, TypeInv, nsv, mniv, sbv, queuev
<1>6. ASSUME MntRefs(Arg(t)) = 1 PROVE Ends(t, <<Frame("kill", Arg(t))>>)
  <2>1. PICK a : a = Frame("kill", Arg(t))
      OBVIOUS
  <2>2. /\ a \in FrameSet /\ ArgsOK(t, a) /\ a.at = "kill" /\ a.of = Arg(t)
      BY <1>0, <1>1, <1>2, <1>3, <1>5, <1>6, <2>1, PlainFrames DEF NsLabels
  <2>5. Moves(t, <<a>>)
      BY <1>0, <1>1, <1>2, <1>3, <1>5, <1>6, <2>1 DEF Moves, mntput, Run, Enter
  <2>6. Ends(t, <<a>>)
      BY <1>0, <1>1, <1>2, <1>3, <1>5, <1>6, <2>2, <2>5, EndsFrame
  <2> QED BY <2>1, <2>6
<1>7. ASSUME MntRefs(Arg(t)) # 1 PROVE Ends(t, <<>>)
  <2>5. Moves(t, <<>>)
      BY <1>0, <1>1, <1>2, <1>3, <1>5, <1>7 DEF Moves, mntput, Run, Enter
  <2> QED BY <1>0, <1>1, <1>2, <1>3, <1>5, <1>7, <2>5, EndsPop
<1> QED BY <1>6, <1>7, <1>0, <1>1

(* The inode is gone, and the reference to the namespace is next.          *)
LEMMA After_release_inode ==
    ASSUME IInv, NEW t \in Threads, release_inode(t), may' = may
    PROVE  /\ Head(stack[t]).ns = NoNs => Ends(t, <<>>)
           /\ Head(stack[t]).ns # NoNs => Ends(t, <<Frame("put", Head(stack[t]).ns)>>)
<1>0. TypeInv /\ ShapeInv
  BY DEF IInv
<1>1. /\ stack[t] # <<>> /\ Head(stack[t]).at = "release" /\ Head(stack[t]) \in Frames(t)
      /\ Head(stack[t]) \in FrameSet /\ ArgsOK(t, Head(stack[t])) /\ Shape(t, 1)
      /\ Head(stack[t]) = stack[t][1] /\ ~At(t, "nr_inc")
  BY <1>0, HeadFacts DEF release_inode, At
<1>2. t \in Tasks
  BY <1>0, <1>1, TaskRuns
<1>3. Arg(t) \in Queues
  BY <1>1 DEF ArgsOK, NsLabels, Arg
<1>4. Head(stack[t]).ns # NoNs => Head(stack[t]).ns \in Nss
  BY <1>1 DEF FrameSet
<1>5. DataType'
  <2>0. inode[Head(stack[t]).of].user \in Users \cup {NoUser}
    BY <1>1, OwnedQueue DEF QueueRecord
  <2>1. mq_bytes' \in [Users -> Int]
    BY <1>0, <2>0 DEF release_inode, TypeInv, refund
  <2>2. mq_queues_count' \in [Nss -> Int]
    <3>1. mq_queues_count \in [Nss -> Int]
        BY <1>0 DEF TypeInv
    <3>2. \/ mq_queues_count' = mq_queues_count
          \/ mq_queues_count' = [mq_queues_count EXCEPT ![Head(stack[t]).ns] = @ - 1]
        BY DEF release_inode
    <3> QED BY <3>1, <3>2
  <2>3. inode' \in [Queues -> QueueRecord \cup {NoQueue}]
    BY <1>0 DEF release_inode, TypeInv
  <2> QED BY <1>0, <2>1, <2>2, <2>3 DEF release_inode, DataType, TypeInv, nsv, mniv, sbv
<1>6. ASSUME Head(stack[t]).ns = NoNs PROVE Ends(t, <<>>)
  <2>5. Moves(t, <<>>)
      BY <1>0, <1>1, <1>2, <1>3, <1>4, <1>5, <1>6 DEF Moves, release_inode, Run, Enter
  <2> QED BY <1>0, <1>1, <1>2, <1>3, <1>4, <1>5, <1>6, <2>5, EndsPop
<1>7. ASSUME Head(stack[t]).ns # NoNs PROVE Ends(t, <<Frame("put", Head(stack[t]).ns)>>)
  <2>1. PICK a : a = Frame("put", Head(stack[t]).ns)
      OBVIOUS
  <2>2. /\ a \in FrameSet /\ ArgsOK(t, a) /\ a.at = "put" /\ a.of = Head(stack[t]).ns
      BY <1>0, <1>1, <1>2, <1>3, <1>4, <1>5, <1>7, <2>1, PlainFrames DEF NsLabels
  <2>5. Moves(t, <<a>>)
      BY <1>0, <1>1, <1>2, <1>3, <1>4, <1>5, <1>7, <2>1 DEF Moves, release_inode, Run, Enter
  <2>6. Ends(t, <<a>>)
      BY <1>0, <1>1, <1>2, <1>3, <1>4, <1>5, <1>7, <2>2, <2>5, EndsFrame
  <2> QED BY <2>1, <2>6
<1> QED BY <1>6, <1>7, <1>0, <1>1

(* A task leaves its namespace.                                            *)
LEMMA After_exit ==
    ASSUME IInv, NEW t \in Tasks, exit(t), may' = may
    PROVE  Ends(t, <<Frame("put", nsproxy[t])>>) /\ nsproxy[t] \in Nss
<1>0. TypeInv /\ ShapeInv
  BY DEF IInv
<1>1. stack[t] = <<>> /\ ~At(t, "nr_inc")
  BY DEF exit, Idle, At, Reaches
<1>2. t \in Tasks /\ t \in Threads
  BY DEF Threads
<1>4. nsproxy[t] \in Nss
  BY <1>0, <1>2 DEF exit, TypeInv
<1>5. DataType'
  BY <1>0, <1>1, <1>2, <1>4 DEF exit, DataType, TypeInv, nsv, mniv, sbv, queuev
<1>6. ASSUME TRUE PROVE Ends(t, <<Frame("put", nsproxy[t])>>)
  <2>1. PICK a : a = Frame("put", nsproxy[t])
      OBVIOUS
  <2>2. /\ a \in FrameSet /\ ArgsOK(t, a) /\ a.at = "put" /\ a.of = nsproxy[t]
      BY <1>0, <1>1, <1>2, <1>4, <1>5, <1>6, <2>1, PlainFrames DEF NsLabels
  <2>5. Moves(t, <<a>>)
      BY <1>0, <1>1, <1>2, <1>4, <1>5, <1>6, <2>1 DEF Moves, exit, Run, Enter
  <2>6. Ends(t, <<a>>)
      BY <1>0, <1>1, <1>2, <1>4, <1>5, <1>6, <2>2, <2>5, EndsFrame
  <2> QED BY <2>1, <2>6
<1> QED BY <1>6, <1>4, <1>0, <1>1

(* A msgmni is written by hand.                                            *)
LEMMA After_sysctl_msgmni ==
    ASSUME IInv, NEW t \in Tasks, sysctl_msgmni(t), may' = may
    PROVE  /\ nsproxy[t] \in Nss
           /\ \/ stack' = stack /\ raced' = raced \cup {nsproxy[t]} /\ TypeInv'
              \/ /\ Ends(t, <<Frame("unregister", nsproxy[t])>>)
                 /\ raced' = raced \cup ({nsproxy[t]} \cap PassedBy)
<1>1. TypeInv /\ ShapeInv /\ t \in Threads /\ stack[t] = <<>> /\ ~At(t, "nr_inc")
  BY DEF IInv, Threads, sysctl_msgmni, Idle, At
<1>2. nsproxy[t] \in Nss /\ ByHand \in Int \X Int
  BY <1>1, FrameType DEF sysctl_msgmni, TypeInv
<1>3. \/ stack' = stack /\ raced' = raced \cup {nsproxy[t]}
      \/ Moves(t, <<Frame("unregister", nsproxy[t])>>) /\ raced' = raced \cup ({nsproxy[t]} \cap PassedBy)
  BY <1>1 DEF sysctl_msgmni, Moves, Enter
<1>4. DataType'
  BY <1>1, <1>2, <1>3 DEF sysctl_msgmni, DataType, TypeInv, nsv, mniv, sbv, queuev, PassedBy
<1>5. stack' = stack => TypeInv'
  BY <1>1, <1>4 DEF TypeInv, DataType
<1>6. Moves(t, <<Frame("unregister", nsproxy[t])>>) => Ends(t, <<Frame("unregister", nsproxy[t])>>)
  BY <1>1, <1>2, <1>4, EndsOne
<1> QED BY <1>2, <1>3, <1>5, <1>6

(* auto_msgmni is to be written, ...                                       *)
LEMMA After_sysctl_auto_msgmni ==
    ASSUME IInv, NEW t \in Tasks, sysctl_auto_msgmni(t), may' = may
    PROVE  \E l \in {"dointvec_0", "dointvec_1"} : Ends(t, <<Frame(l, nsproxy[t])>>) /\ nsproxy[t] \in Nss
<1>1. TypeInv /\ ShapeInv /\ t \in Threads /\ stack[t] = <<>> /\ ~At(t, "nr_inc")
  BY DEF IInv, Threads, sysctl_auto_msgmni, Idle, At
<1>2. nsproxy[t] \in Nss
  BY <1>1 DEF sysctl_auto_msgmni, TypeInv
<1>3. PICK l \in {"dointvec_0", "dointvec_1"} : Moves(t, <<Frame(l, nsproxy[t])>>)
  BY <1>1 DEF sysctl_auto_msgmni, Moves, Enter
<1>4. DataType'
  BY <1>1 DEF sysctl_auto_msgmni, DataType, TypeInv, nsv, mniv, sbv, queuev
<1> QED BY <1>1, <1>2, <1>3, <1>4, EndsOne

(* ... is written, ...                                                     *)
LEMMA After_proc_dointvec_minmax ==
    ASSUME IInv, NEW t \in Threads, proc_dointvec_minmax(t), may' = may
    PROVE  /\ Arg(t) \in Nss
           /\ \/ Ends(t, <<>>)
              \/ \E l \in {"newval_0", "newval_1"} : Ends(t, <<Frame(l, Arg(t))>>)
<1>1. At(t, "dointvec_0") \/ At(t, "dointvec_1")
  BY DEF proc_dointvec_minmax
<1>2. TypeInv /\ ShapeInv /\ Arg(t) \in Nss /\ ~At(t, "nr_inc") /\ t \in Tasks /\ stack[t] # <<>>
  BY <1>1, NsRuns DEF NsLabels
<1>3. Moves(t, <<>>) \/ \E l \in {"newval_0", "newval_1"} : Moves(t, <<Frame(l, Arg(t))>>)
  BY <1>2 DEF proc_dointvec_minmax, Moves, Run
<1>4. DataType'
  BY <1>2 DEF proc_dointvec_minmax, DataType, TypeInv, nsv, mniv, sbv, queuev
<1>5. ASSUME NEW l \in {"newval_0", "newval_1"}, Moves(t, <<Frame(l, Arg(t))>>) PROVE Ends(t, <<Frame(l, Arg(t))>>)
  BY <1>2, <1>4, <1>5, EndsOne
<1> QED BY <1>2, <1>3, <1>4, <1>5, EndsPop

(* ... and is seen to have changed, or not.                                *)
LEMMA After_ipc_auto_callback ==
    ASSUME IInv, NEW t \in Threads, ipc_auto_callback(t), may' = may
    PROVE  /\ Arg(t) \in Nss /\ (At(t, "newval_0") \/ At(t, "newval_1"))
           /\ \/ Ends(t, <<>>)
              \/ Ends(t, <<Frame("unregister", Arg(t))>>)
              \/ Ends(t, <<Frame("compute", Arg(t)), Frame("clear", Arg(t)), Frame("register", Arg(t))>>)
<1>1. At(t, "newval_0") \/ At(t, "newval_1")
  BY DEF ipc_auto_callback
<1>2. TypeInv /\ ShapeInv /\ Arg(t) \in Nss /\ ~At(t, "nr_inc") /\ t \in Tasks /\ stack[t] # <<>>
  BY <1>1, NsRuns DEF NsLabels
<1>3. \/ Moves(t, <<>>)
      \/ Moves(t, <<Frame("unregister", Arg(t))>>)
      \/ Moves(t, <<Frame("compute", Arg(t)), Frame("clear", Arg(t)), Frame("register", Arg(t))>>)
  BY <1>2 DEF ipc_auto_callback, Moves, Run
<1>4. DataType'
  BY <1>2 DEF ipc_auto_callback, DataType, TypeInv, nsv, mniv, sbv, queuev
<1>5. CASE Moves(t, <<Frame("compute", Arg(t)), Frame("clear", Arg(t)), Frame("register", Arg(t))>>)
  <2>1. PICK a, b, c : a = Frame("compute", Arg(t)) /\ b = Frame("clear", Arg(t)) /\ c = Frame("register", Arg(t))
      OBVIOUS
  <2>2. /\ a \in FrameSet /\ ArgsOK(t, a) /\ a.at = "compute" /\ a.of = Arg(t)
        /\ b \in FrameSet /\ ArgsOK(t, b) /\ b.at = "clear" /\ b.of = Arg(t)
        /\ c \in FrameSet /\ ArgsOK(t, c) /\ c.at = "register" /\ c.of = Arg(t)
      BY <1>2, <1>4, <2>1, PlainFrames DEF NsLabels
  <2>3. <<a, b, c>> \in Seq(FrameSet) /\ Len(<<a, b, c>>) = 3
      BY <2>2
  <2>4. \A i \in 1 .. Len(<<a, b, c>>) : FsOK(t, <<a, b, c>>, i)
    <3>1. <<a, b, c>>[1] = a /\ <<a, b, c>>[2] = b /\ <<a, b, c>>[3] = c
        OBVIOUS
    <3>2. FsOK(t, <<a, b, c>>, 1)
        BY <1>2, <1>4, <2>1, <2>2, <3>1 DEF FsOK
    <3>3. FsOK(t, <<a, b, c>>, 2)
        BY <1>2, <1>4, <2>1, <2>2, <3>1 DEF FsOK
    <3>4. FsOK(t, <<a, b, c>>, 3)
        BY <1>2, <1>4, <2>1, <2>2, <3>1 DEF FsOK
    <3> QED BY <3>2, <3>3, <3>4
  <2>5. Moves(t, <<a, b, c>>)
      BY <1>5, <2>1
  <2>f. PICK fs : fs = <<a, b, c>>
      OBVIOUS
  <2>g. fs \in Seq(FrameSet) /\ Moves(t, fs) /\ (At(t, "nr_inc") => fs = <<>>) /\ \A i \in 1 .. Len(fs) : FsOK(t, fs, i)
      BY <1>2, <1>4, <2>3, <2>4, <2>5, <2>f DEF At
  <2>6. Ends(t, <<a, b, c>>)
      BY <1>2, <1>4, <2>f, <2>g, EndsHow
  <2> QED BY <1>1, <1>2, <2>1, <2>6
<1>6. CASE Moves(t, <<Frame("unregister", Arg(t))>>)
  BY <1>1, <1>2, <1>4, <1>6, EndsOne
<1>7. CASE Moves(t, <<>>)
  BY <1>1, <1>2, <1>4, <1>7, EndsPop
<1> QED BY <1>3, <1>5, <1>6, <1>7

(* A user gives a mount back.                                              *)
LEMMA After_umount ==
    ASSUME IInv, NEW t \in Tasks, NEW s \in Sbs, umount(t, s), may' = may
    PROVE  Ends(t, <<Frame("mntput", s)>>)
<1>0. TypeInv /\ ShapeInv
  BY DEF IInv
<1>1. stack[t] = <<>> /\ ~At(t, "nr_inc")
  BY DEF umount, Idle, At, Reaches
<1>2. t \in Tasks /\ t \in Threads
  BY DEF Threads
<1>5. DataType'
  BY <1>0, <1>1, <1>2 DEF umount, DataType, TypeInv, nsv, mniv, sbv, queuev
<1>6. ASSUME TRUE PROVE Ends(t, <<Frame("mntput", s)>>)
  <2>1. PICK a : a = Frame("mntput", s)
      OBVIOUS
  <2>2. /\ a \in FrameSet /\ ArgsOK(t, a) /\ a.at = "mntput" /\ a.of = s
      BY <1>0, <1>1, <1>2, <1>5, <1>6, <2>1, PlainFrames DEF NsLabels
  <2>5. Moves(t, <<a>>)
      BY <1>0, <1>1, <1>2, <1>5, <1>6, <2>1 DEF Moves, umount, Run, Enter
  <2>6. Ends(t, <<a>>)
      BY <1>0, <1>1, <1>2, <1>5, <1>6, <2>2, <2>5, EndsFrame
  <2> QED BY <2>1, <2>6
<1> QED BY <1>6, <1>0, <1>1

(* A queue is to be created, if there may be one more.                     *)
LEMMA After_mqueue_create ==
    ASSUME IInv, NEW t \in Tasks, NEW s \in Sbs, mqueue_create(t, s), may' = may
    PROVE  /\ s_fs_info[s] \in Nss
           /\ AtLimit(t, s_fs_info[s]) =>
                Ends(t, <<Frame("put", s_fs_info[s]), Frame("mntput", s)>>)
           /\ ~AtLimit(t, s_fs_info[s]) =>
                Ends(t, <<MkFrame("inode", s, s_fs_info[s], ByHand, NoNs), Frame("mntput", s)>>)
<1>0. TypeInv /\ ShapeInv
  BY DEF IInv
<1>1. stack[t] = <<>> /\ ~At(t, "nr_inc")
  BY DEF mqueue_create, Idle, At, Reaches
<1>2. t \in Tasks /\ t \in Threads
  BY DEF Threads
<1>4. s_fs_info[s] \in Nss
  <2>1. MntRefs(s) > 0
    BY <1>0, SbParts DEF mqueue_create, Reaches, TypeInv
  <2> QED BY <2>1, HeldSb DEF mqueue_create
<1>a. /\ MkFrame("inode", s, s_fs_info[s], ByHand, NoNs) \in FrameSet
      /\ ArgsOK(t, MkFrame("inode", s, s_fs_info[s], ByHand, NoNs))
      /\ MkFrame("inode", s, s_fs_info[s], ByHand, NoNs).at = "inode"
      /\ MkFrame("inode", s, s_fs_info[s], ByHand, NoNs).of = s
  <2>1. PICK n : n = s_fs_info[s]
    OBVIOUS
  <2>2. PICK f : f = MkFrame("inode", s, n, ByHand, NoNs)
    OBVIOUS
  <2>3. f \in FrameSet /\ f.at = "inode" /\ f.of = s /\ f.ns = n
    BY <1>4, <2>1, <2>2, FrameType DEF Labels
  <2>4. ArgsOK(t, f)
    BY <1>2, <1>4, <2>1, <2>3, NsConstants DEF ArgsOK, NsLabels
  <2> QED BY <2>1, <2>2, <2>3, <2>4
<1>5. DataType'
  BY <1>0, <1>1, <1>2, <1>4, <1>a DEF mqueue_create, DataType, TypeInv, nsv, mniv, sbv, queuev, get_ns_from_inode
<1>6. ASSUME AtLimit(t, s_fs_info[s]) PROVE Ends(t, <<Frame("put", s_fs_info[s]), Frame("mntput", s)>>)
  <2>1. PICK a, b : a = Frame("put", s_fs_info[s]) /\ b = Frame("mntput", s)
      OBVIOUS
  <2>2. /\ a \in FrameSet /\ ArgsOK(t, a) /\ a.at = "put" /\ a.of = s_fs_info[s]
        /\ b \in FrameSet /\ ArgsOK(t, b) /\ b.at = "mntput" /\ b.of = s
      BY <1>0, <1>1, <1>2, <1>4, <1>a, <1>5, <1>6, <2>1, PlainFrames DEF NsLabels
  <2>3. <<a, b>> \in Seq(FrameSet) /\ Len(<<a, b>>) = 2
      BY <2>2
  <2>4. \A i \in 1 .. Len(<<a, b>>) : FsOK(t, <<a, b>>, i)
    <3>1. <<a, b>>[1] = a /\ <<a, b>>[2] = b
        OBVIOUS
    <3>2. FsOK(t, <<a, b>>, 1)
        BY <1>0, <1>1, <1>2, <1>4, <1>a, <1>5, <1>6, <2>1, <2>2, <3>1 DEF FsOK
    <3>3. FsOK(t, <<a, b>>, 2)
        BY <1>0, <1>1, <1>2, <1>4, <1>a, <1>5, <1>6, <2>1, <2>2, <3>1 DEF FsOK
    <3> QED BY <3>2, <3>3
  <2>5. Moves(t, <<a, b>>)
      BY <1>0, <1>1, <1>2, <1>4, <1>a, <1>5, <1>6, <2>1 DEF Moves, mqueue_create, Enter
  <2>f. PICK fs : fs = <<a, b>>
      OBVIOUS
  <2>g. fs \in Seq(FrameSet) /\ Moves(t, fs) /\ (At(t, "nr_inc") => fs = <<>>) /\ \A i \in 1 .. Len(fs) : FsOK(t, fs, i)
      BY <1>0, <1>1, <1>2, <1>4, <1>a, <1>5, <1>6, <2>3, <2>4, <2>5, <2>f DEF At
  <2>6. Ends(t, <<a, b>>)
      BY <1>0, <1>1, <1>2, <1>4, <1>a, <1>5, <1>6, <2>f, <2>g, EndsHow
  <2> QED BY <2>1, <2>6
<1>7. ASSUME ~AtLimit(t, s_fs_info[s]) PROVE Ends(t, <<MkFrame("inode", s, s_fs_info[s], ByHand, NoNs), Frame("mntput", s)>>)
  <2>1. PICK a, b : a = MkFrame("inode", s, s_fs_info[s], ByHand, NoNs) /\ b = Frame("mntput", s)
      OBVIOUS
  <2>2. /\ a \in FrameSet /\ ArgsOK(t, a) /\ a.at = "inode" /\ a.of = s
        /\ b \in FrameSet /\ ArgsOK(t, b) /\ b.at = "mntput" /\ b.of = s
      BY <1>0, <1>1, <1>2, <1>4, <1>a, <1>5, <1>7, <2>1, PlainFrames DEF NsLabels
  <2>3. <<a, b>> \in Seq(FrameSet) /\ Len(<<a, b>>) = 2
      BY <2>2
  <2>4. \A i \in 1 .. Len(<<a, b>>) : FsOK(t, <<a, b>>, i)
    <3>1. <<a, b>>[1] = a /\ <<a, b>>[2] = b
        OBVIOUS
    <3>2. FsOK(t, <<a, b>>, 1)
        BY <1>0, <1>1, <1>2, <1>4, <1>a, <1>5, <1>7, <2>1, <2>2, <3>1 DEF FsOK
    <3>3. FsOK(t, <<a, b>>, 2)
        BY <1>0, <1>1, <1>2, <1>4, <1>a, <1>5, <1>7, <2>1, <2>2, <3>1 DEF FsOK
    <3> QED BY <3>2, <3>3
  <2>5. Moves(t, <<a, b>>)
      BY <1>0, <1>1, <1>2, <1>4, <1>a, <1>5, <1>7, <2>1 DEF Moves, mqueue_create, Enter
  <2>f. PICK fs : fs = <<a, b>>
      OBVIOUS
  <2>g. fs \in Seq(FrameSet) /\ Moves(t, fs) /\ (At(t, "nr_inc") => fs = <<>>) /\ \A i \in 1 .. Len(fs) : FsOK(t, fs, i)
      BY <1>0, <1>1, <1>2, <1>4, <1>a, <1>5, <1>7, <2>3, <2>4, <2>5, <2>f DEF At
  <2>6. Ends(t, <<a, b>>)
      BY <1>0, <1>1, <1>2, <1>4, <1>a, <1>5, <1>7, <2>f, <2>g, EndsHow
  <2> QED BY <2>1, <2>6
<1> QED BY <1>6, <1>7, <1>4, <1>0, <1>1

-----------------------------------------------------------------------------
(* Small pieces of a stack are put together.                               *)
LEMMA Cat12 ==
    ASSUME NEW a, NEW b, NEW c
    PROVE  <<>> \o <<a>> = <<a>> /\ <<a>> \o <<b>> = <<a, b>> /\ <<a>> \o <<b, c>> = <<a, b, c>>
<1> DEFINE F == {a, b, c}
<1>1. /\ <<>> \in Seq(F) /\ <<a>> \in Seq(F) /\ <<b>> \in Seq(F)
      /\ <<a, b>> \in Seq(F) /\ <<b, c>> \in Seq(F) /\ <<a, b, c>> \in Seq(F)
  OBVIOUS
<1>2. /\ <<>> \o <<a>> \in Seq(F) /\ Len(<<>> \o <<a>>) = 1
      /\ <<a>> \o <<b>> \in Seq(F) /\ Len(<<a>> \o <<b>>) = 2
      /\ <<a>> \o <<b, c>> \in Seq(F) /\ Len(<<a>> \o <<b, c>>) = 3
  BY <1>1
<1>3. (<<>> \o <<a>>)[1] = a
  BY <1>1
<1>4. Len(<<a, b>>) = 2 /\ \A i \in 1 .. 2 : (<<a>> \o <<b>>)[i] = <<a, b>>[i]
  BY <1>1
<1>5. Len(<<a, b, c>>) = 3 /\ \A i \in 1 .. 3 : (<<a>> \o <<b, c>>)[i] = <<a, b, c>>[i]
  BY <1>1
<1> HIDE DEF F
<1>6. <<>> \o <<a>> = <<a>>
  BY <1>1, <1>2, <1>3, SeqEqual
<1>7. <<a>> \o <<b>> = <<a, b>>
  BY <1>1, <1>2, <1>4, SeqEqual
<1>8. <<a>> \o <<b, c>> = <<a, b, c>>
  <2>1. PICK u, v : u = <<a>> \o <<b, c>> /\ v = <<a, b, c>>
    OBVIOUS
  <2>2. u \in Seq(F) /\ v \in Seq(F) /\ Len(u) = 3 /\ Len(v) = 3 /\ \A i \in 1 .. 3 : u[i] = v[i]
    BY <1>1, <1>2, <1>5, <2>1
  <2>3. u = v
    BY <2>2, SeqEqual
  <2> QED BY <2>1, <2>3
<1> QED BY <1>6, <1>7, <1>8

(* A walker reads.                                                         *)
LEMMA After_callback_read ==
    ASSUME IInv, NEW t \in Threads, callback_read(t), may' = may
    PROVE  \E nb \in NextNb(Arg(t)) : nb \in Nss \cup {NoNs} /\ Ends(t, <<MkFrame("store", Arg(t), NoNs, <<nr_ipc_ns, mem>>, nb)>>)
<1>0. TypeInv /\ ShapeInv
  BY DEF IInv
<1>1. /\ stack[t] # <<>> /\ Head(stack[t]).at = "walk" /\ Head(stack[t]) \in Frames(t)
      /\ Head(stack[t]) \in FrameSet /\ ArgsOK(t, Head(stack[t])) /\ Shape(t, 1)
      /\ Head(stack[t]) = stack[t][1] /\ ~At(t, "nr_inc")
  BY <1>0, HeadFacts DEF callback_read, At
<1>3. Arg(t) \in Nss
  BY <1>1 DEF ArgsOK, NsLabels, Arg
<1>4. PICK nb \in NextNb(Arg(t)) : Run(t, <<MkFrame("store", Arg(t), NoNs, <<nr_ipc_ns, mem>>, nb)>>)
  BY DEF callback_read
<1>a. nb \in Nss \cup {NoNs}
  <2>1. chain \in Seq(Nss) /\ loose \subseteq Nss /\ DOMAIN chain = 1 .. Len(chain) /\ Len(chain) \in Nat
    BY <1>0 DEF TypeInv
  <2>2. \A j \in DOMAIN chain : j # Len(chain) => chain[j + 1] \in Nss
    BY <2>1
  <2> QED BY <2>1, <2>2 DEF NextNb
<1>b. /\ MkFrame("store", Arg(t), NoNs, <<nr_ipc_ns, mem>>, nb) \in FrameSet /\ ArgsOK(t, MkFrame("store", Arg(t), NoNs, <<nr_ipc_ns, mem>>, nb))
      /\ MkFrame("store", Arg(t), NoNs, <<nr_ipc_ns, mem>>, nb).at = "store" /\ MkFrame("store", Arg(t), NoNs, <<nr_ipc_ns, mem>>, nb).of = Arg(t)
  <2>1. PICK n, v : n = Arg(t) /\ v = <<nr_ipc_ns, mem>>
    OBVIOUS
  <2>2. PICK f : f = MkFrame("store", n, NoNs, v, nb)
    OBVIOUS
  <2>v. n \in Nss /\ v \in Int \X Int
    BY <1>0, <1>3, <2>1 DEF TypeInv
  <2>l. "store" \in Labels
    BY DEF Labels
  <2>3. f \in FrameSet /\ f.at = "store" /\ f.of = n
    BY <1>a, <2>l, <2>v, <2>2 DEF FrameSet, MkFrame
  <2>4. ArgsOK(t, f)
    BY <2>v, <2>3 DEF ArgsOK, NsLabels
  <2> QED BY <2>1, <2>2, <2>3, <2>4
<1>5. DataType'
  BY <1>0, <1>3 DEF callback_read, DataType, TypeInv, nsv, mniv, sbv, queuev
<1>6. Ends(t, <<MkFrame("store", Arg(t), NoNs, <<nr_ipc_ns, mem>>, nb)>>)
  <2>1. PICK a : a = MkFrame("store", Arg(t), NoNs, <<nr_ipc_ns, mem>>, nb)
      OBVIOUS
  <2>2. /\ a \in FrameSet /\ ArgsOK(t, a) /\ a.at = "store" /\ a.of = Arg(t)
      BY <1>0, <1>1, <1>3, <1>4, <1>b, <1>5, <2>1, PlainFrames DEF NsLabels
  <2>5. Moves(t, <<a>>)
      BY <1>0, <1>1, <1>3, <1>4, <1>b, <1>5, <2>1 DEF Moves, callback_read, Run, Enter
  <2>6. Ends(t, <<a>>)
      BY <1>0, <1>1, <1>3, <1>4, <1>b, <1>5, <2>2, <2>5, EndsFrame
  <2> QED BY <2>1, <2>6
<1> QED BY <1>4, <1>a, <1>6

(* The caller computes its msgmni.                                         *)
LEMMA After_compute ==
    ASSUME IInv, NEW t \in Threads, compute(t), may' = may
    PROVE  Ends(t, <<MkFrame("set", Arg(t), NoNs, <<nr_ipc_ns, mem>>, NoNs)>>)
<1>0. TypeInv /\ ShapeInv
  BY DEF IInv
<1>1. /\ stack[t] # <<>> /\ Head(stack[t]).at = "compute" /\ Head(stack[t]) \in Frames(t)
      /\ Head(stack[t]) \in FrameSet /\ ArgsOK(t, Head(stack[t])) /\ Shape(t, 1)
      /\ Head(stack[t]) = stack[t][1] /\ ~At(t, "nr_inc")
  BY <1>0, HeadFacts DEF compute, At
<1>2. t \in Tasks
  BY <1>0, <1>1, TaskRuns
<1>3. Arg(t) \in Nss
  BY <1>1 DEF ArgsOK, NsLabels, Arg
<1>4. \A x : x = Arg(t) => Below(t, 1, {Frame("register", x)})
  BY <1>1 DEF Shape, Arg
<1>b. /\ MkFrame("set", Arg(t), NoNs, <<nr_ipc_ns, mem>>, NoNs) \in FrameSet /\ ArgsOK(t, MkFrame("set", Arg(t), NoNs, <<nr_ipc_ns, mem>>, NoNs))
      /\ MkFrame("set", Arg(t), NoNs, <<nr_ipc_ns, mem>>, NoNs).at = "set" /\ MkFrame("set", Arg(t), NoNs, <<nr_ipc_ns, mem>>, NoNs).of = Arg(t)
  <2>1. PICK n, v : n = Arg(t) /\ v = <<nr_ipc_ns, mem>>
    OBVIOUS
  <2>2. PICK f : f = MkFrame("set", n, NoNs, v, NoNs)
    OBVIOUS
  <2>v. n \in Nss /\ v \in Int \X Int
    BY <1>0, <1>3, <2>1 DEF TypeInv
  <2>l. "set" \in Labels
    BY DEF Labels
  <2>3. f \in FrameSet /\ f.at = "set" /\ f.of = n
    BY <2>l, <2>v, <2>2 DEF FrameSet, MkFrame
  <2>4. ArgsOK(t, f)
    BY <1>2, <2>v, <2>3, NsConstants DEF ArgsOK, NsLabels
  <2> QED BY <2>1, <2>2, <2>3, <2>4
<1>5. DataType'
  BY <1>0, <1>3 DEF compute, DataType, TypeInv, nsv, mniv, sbv, queuev
<1>6. Ends(t, <<MkFrame("set", Arg(t), NoNs, <<nr_ipc_ns, mem>>, NoNs)>>)
  <2>1. PICK a : a = MkFrame("set", Arg(t), NoNs, <<nr_ipc_ns, mem>>, NoNs)
      OBVIOUS
  <2>2. /\ a \in FrameSet /\ ArgsOK(t, a) /\ a.at = "set" /\ a.of = Arg(t)
      BY <1>0, <1>1, <1>3, <1>4, <1>b, <1>5, <2>1, PlainFrames DEF NsLabels
  <2>5. Moves(t, <<a>>)
      BY <1>0, <1>1, <1>3, <1>4, <1>b, <1>5, <2>1 DEF Moves, compute, Run, Enter
  <2>6. Ends(t, <<a>>)
      BY <1>0, <1>1, <1>3, <1>4, <1>b, <1>5, <2>2, <2>5, EndsFrame
  <2> QED BY <2>1, <2>6
<1> QED BY <1>6

(* An inode is deleted.                                                    *)
LEMMA After_mqueue_delete_inode ==
    ASSUME IInv, NEW t \in Threads, mqueue_delete_inode(t), may' = may
    PROVE  Ends(t, <<MkFrame("release", Arg(t), s_fs_info[inode[Arg(t)].sb], ByHand, NoNs)>>) /\ s_fs_info[inode[Arg(t)].sb] \in Nss \cup {NoNs}
<1>0. TypeInv /\ ShapeInv
  BY DEF IInv
<1>1. /\ stack[t] # <<>> /\ Head(stack[t]).at = "delete" /\ Head(stack[t]) \in Frames(t)
      /\ Head(stack[t]) \in FrameSet /\ ArgsOK(t, Head(stack[t])) /\ Shape(t, 1)
      /\ Head(stack[t]) = stack[t][1] /\ ~At(t, "nr_inc")
  BY <1>0, HeadFacts DEF mqueue_delete_inode, At
<1>2. t \in Tasks
  BY <1>0, <1>1, TaskRuns
<1>3. Arg(t) \in Queues
  BY <1>1 DEF ArgsOK, NsLabels, Arg
<1>4. s_fs_info[inode[Arg(t)].sb] \in Nss \cup {NoNs}
  BY <1>1, OwnedQueue DEF Arg
<1>b. /\ MkFrame("release", Arg(t), s_fs_info[inode[Arg(t)].sb], ByHand, NoNs) \in FrameSet /\ ArgsOK(t, MkFrame("release", Arg(t), s_fs_info[inode[Arg(t)].sb], ByHand, NoNs))
      /\ MkFrame("release", Arg(t), s_fs_info[inode[Arg(t)].sb], ByHand, NoNs).at = "release" /\ MkFrame("release", Arg(t), s_fs_info[inode[Arg(t)].sb], ByHand, NoNs).of = Arg(t)
  <2>1. PICK q, n : q = Arg(t) /\ n = s_fs_info[inode[Arg(t)].sb]
    OBVIOUS
  <2>2. PICK f : f = MkFrame("release", q, n, ByHand, NoNs)
    OBVIOUS
  <2>v. q \in Queues /\ n \in Nss \cup {NoNs}
    BY <1>3, <1>4, <2>1
  <2>3. f \in FrameSet /\ f.at = "release" /\ f.of = q
    BY <2>v, <2>2 DEF FrameSet, MkFrame, Labels, ByHand
  <2>4. ArgsOK(t, f)
    BY <1>2, <2>v, <2>3, NsConstants DEF ArgsOK, NsLabels
  <2> QED BY <2>1, <2>2, <2>3, <2>4
<1>5. DataType'
  BY <1>0, <1>3, <1>4 DEF mqueue_delete_inode, get_ns_from_inode, DataType, TypeInv, nsv, mniv, sbv, queuev
<1>6. Ends(t, <<MkFrame("release", Arg(t), s_fs_info[inode[Arg(t)].sb], ByHand, NoNs)>>)
  <2>1. PICK a : a = MkFrame("release", Arg(t), s_fs_info[inode[Arg(t)].sb], ByHand, NoNs)
      OBVIOUS
  <2>2. /\ a \in FrameSet /\ ArgsOK(t, a) /\ a.at = "release" /\ a.of = Arg(t)
      BY <1>0, <1>1, <1>3, <1>4, <1>b, <1>5, <2>1, PlainFrames DEF NsLabels
  <2>5. Moves(t, <<a>>)
      BY <1>0, <1>1, <1>3, <1>4, <1>b, <1>5, <2>1 DEF Moves, mqueue_delete_inode, Run, Enter
  <2>6. Ends(t, <<a>>)
      BY <1>0, <1>1, <1>3, <1>4, <1>b, <1>5, <2>2, <2>5, EndsFrame
  <2> QED BY <2>1, <2>6
<1> QED BY <1>4, <1>6

(* A queue is there, without a name yet.                                   *)
LEMMA After_mqueue_get_inode ==
    ASSUME IInv, NEW t \in Threads, mqueue_get_inode(t), may' = may
    PROVE  \E q \in Queues :
              /\ First(q, FreeQueues) /\ inode' = [inode EXCEPT ![q] = NewQueue(Arg(t), UserOf[t])]
              /\ Ends(t, <<Frame("put", Head(stack[t]).ns), Frame("instantiate", q)>>)
<1>0. TypeInv /\ ShapeInv
  BY DEF IInv
<1>1. /\ stack[t] # <<>> /\ Head(stack[t]).at = "inode" /\ Head(stack[t]) \in Frames(t)
      /\ Head(stack[t]) \in FrameSet /\ ArgsOK(t, Head(stack[t])) /\ Shape(t, 1)
      /\ Head(stack[t]) = stack[t][1] /\ ~At(t, "nr_inc")
  BY <1>0, HeadFacts DEF mqueue_get_inode, At
<1>2. t \in Tasks
  BY <1>0, <1>1, TaskRuns
<1>3. Arg(t) \in Sbs
  BY <1>1 DEF ArgsOK, NsLabels, Arg
<1>4. PICK q \in Queues :
              /\ First(q, FreeQueues)
              /\ inode' = [inode EXCEPT ![q] = NewQueue(Head(stack[t]).of, UserOf[t])]
              /\ Run(t, <<Frame("put", Head(stack[t]).ns), Frame("instantiate", q)>>)
  BY DEF mqueue_get_inode
<1>a. Head(stack[t]).ns \in Nss
  BY <1>1 DEF ArgsOK
<1>5. DataType'
  <2>1. NewQueue(Arg(t), UserOf[t]) \in QueueRecord
    BY <1>2, <1>3 DEF NewQueue, QueueRecord, Users
  <2>2. inode' \in [Queues -> QueueRecord \cup {NoQueue}]
    BY <1>0, <1>4, <2>1 DEF TypeInv, Arg
  <2>3. mq_bytes' \in [Users -> Int]
    <3>1. UserOf[t] \in Users
        BY <1>2 DEF Users
    <3>2. mq_bytes' = [mq_bytes EXCEPT ![UserOf[t]] = mq_bytes[UserOf[t]] + 1]
        BY DEF mqueue_get_inode
    <3> QED BY <1>0, <3>1, <3>2 DEF TypeInv
  <2> QED BY <1>0, <2>2, <2>3 DEF mqueue_get_inode, DataType, TypeInv, nsv, mniv, sbv
<1>6. Ends(t, <<Frame("put", Head(stack[t]).ns), Frame("instantiate", q)>>)
  <2>1. PICK a, b : a = Frame("put", Head(stack[t]).ns) /\ b = Frame("instantiate", q)
      OBVIOUS
  <2>2. /\ a \in FrameSet /\ ArgsOK(t, a) /\ a.at = "put" /\ a.of = Head(stack[t]).ns
        /\ b \in FrameSet /\ ArgsOK(t, b) /\ b.at = "instantiate" /\ b.of = q
      BY <1>0, <1>1, <1>2, <1>4, <1>a, <1>5, <2>1, PlainFrames DEF NsLabels
  <2>3. <<a, b>> \in Seq(FrameSet) /\ Len(<<a, b>>) = 2
      BY <2>2
  <2>4. \A i \in 1 .. Len(<<a, b>>) : FsOK(t, <<a, b>>, i)
    <3>1. <<a, b>>[1] = a /\ <<a, b>>[2] = b
        OBVIOUS
    <3>2. FsOK(t, <<a, b>>, 1)
        BY <1>0, <1>1, <1>2, <1>4, <1>a, <1>5, <2>1, <2>2, <3>1 DEF FsOK
    <3>3. FsOK(t, <<a, b>>, 2)
        BY <1>0, <1>1, <1>2, <1>4, <1>a, <1>5, <2>1, <2>2, <3>1 DEF FsOK
    <3> QED BY <3>2, <3>3
  <2>5. Moves(t, <<a, b>>)
      BY <1>0, <1>1, <1>2, <1>4, <1>a, <1>5, <2>1 DEF Moves, mqueue_get_inode, Run, Enter
  <2>f. PICK fs : fs = <<a, b>>
      OBVIOUS
  <2>g. fs \in Seq(FrameSet) /\ Moves(t, fs) /\ (At(t, "nr_inc") => fs = <<>>) /\ \A i \in 1 .. Len(fs) : FsOK(t, fs, i)
      BY <1>0, <1>1, <1>2, <1>4, <1>a, <1>5, <2>3, <2>4, <2>5, <2>f DEF At
  <2>6. Ends(t, <<a, b>>)
      BY <1>0, <1>1, <1>2, <1>4, <1>a, <1>5, <2>f, <2>g, EndsHow
  <2> QED BY <2>1, <2>6
<1> QED BY <1>4, <1>6 DEF Arg

(* There is an inode, and it is given up.                                  *)
LEMMA After_mqueue_get_inode_fails ==
    ASSUME IInv, NEW t \in Threads, mqueue_get_inode_fails(t), may' = may
    PROVE  \E q \in Queues :
              /\ First(q, FreeQueues) /\ inode' = [inode EXCEPT ![q] = NewQueue(Arg(t), NoUser)]
              /\ Ends(t, <<Frame("delete", q), Frame("uncount", Head(stack[t]).ns),
                            Frame("put", Head(stack[t]).ns)>>)
<1>0. TypeInv /\ ShapeInv
  BY DEF IInv
<1>1. /\ stack[t] # <<>> /\ Head(stack[t]).at = "inode" /\ Head(stack[t]) \in Frames(t)
      /\ Head(stack[t]) \in FrameSet /\ ArgsOK(t, Head(stack[t])) /\ Shape(t, 1)
      /\ Head(stack[t]) = stack[t][1] /\ ~At(t, "nr_inc")
  BY <1>0, HeadFacts DEF mqueue_get_inode_fails, At
<1>2. t \in Tasks
  BY <1>0, <1>1, TaskRuns
<1>3. Arg(t) \in Sbs
  BY <1>1 DEF ArgsOK, NsLabels, Arg
<1>4. PICK q \in Queues :
              /\ First(q, FreeQueues)
              /\ inode' = [inode EXCEPT ![q] = NewQueue(Head(stack[t]).of, NoUser)]
              /\ Run(t, <<Frame("delete", q)>> \o create_failed(Head(stack[t]).ns))
  BY DEF mqueue_get_inode_fails
<1>a. Head(stack[t]).ns \in Nss
  BY <1>1 DEF ArgsOK
<1>b. Run(t, <<Frame("delete", q), Frame("uncount", Head(stack[t]).ns), Frame("put", Head(stack[t]).ns)>>)
  <2>1. PICK a, b, c : /\ a = Frame("delete", q) /\ b = Frame("uncount", Head(stack[t]).ns)
                       /\ c = Frame("put", Head(stack[t]).ns)
    OBVIOUS
  <2>2. <<a>> \o <<b, c>> = <<a, b, c>>
    BY Cat12
  <2> QED BY <1>4, <2>1, <2>2 DEF create_failed
<1>5. DataType'
  <2>1. NewQueue(Arg(t), NoUser) \in QueueRecord
    BY <1>3 DEF NewQueue, QueueRecord
  <2>2. inode' \in [Queues -> QueueRecord \cup {NoQueue}]
    BY <1>0, <1>4, <2>1 DEF TypeInv, Arg
  <2> QED BY <1>0, <2>2 DEF mqueue_get_inode_fails, DataType, TypeInv, nsv, mniv, sbv
<1>6. Ends(t, <<Frame("delete", q), Frame("uncount", Head(stack[t]).ns), Frame("put", Head(stack[t]).ns)>>)
  <2>1. PICK a, b, c : a = Frame("delete", q) /\ b = Frame("uncount", Head(stack[t]).ns) /\ c = Frame("put", Head(stack[t]).ns)
      OBVIOUS
  <2>2. /\ a \in FrameSet /\ ArgsOK(t, a) /\ a.at = "delete" /\ a.of = q
        /\ b \in FrameSet /\ ArgsOK(t, b) /\ b.at = "uncount" /\ b.of = Head(stack[t]).ns
        /\ c \in FrameSet /\ ArgsOK(t, c) /\ c.at = "put" /\ c.of = Head(stack[t]).ns
      BY <1>0, <1>1, <1>2, <1>b, <1>a, <1>5, <2>1, PlainFrames DEF NsLabels
  <2>3. <<a, b, c>> \in Seq(FrameSet) /\ Len(<<a, b, c>>) = 3
      BY <2>2
  <2>4. \A i \in 1 .. Len(<<a, b, c>>) : FsOK(t, <<a, b, c>>, i)
    <3>1. <<a, b, c>>[1] = a /\ <<a, b, c>>[2] = b /\ <<a, b, c>>[3] = c
        OBVIOUS
    <3>2. FsOK(t, <<a, b, c>>, 1)
        BY <1>0, <1>1, <1>2, <1>b, <1>a, <1>5, <2>1, <2>2, <3>1 DEF FsOK
    <3>3. FsOK(t, <<a, b, c>>, 2)
        BY <1>0, <1>1, <1>2, <1>b, <1>a, <1>5, <2>1, <2>2, <3>1 DEF FsOK
    <3>4. FsOK(t, <<a, b, c>>, 3)
        BY <1>0, <1>1, <1>2, <1>b, <1>a, <1>5, <2>1, <2>2, <3>1 DEF FsOK
    <3> QED BY <3>2, <3>3, <3>4
  <2>5. Moves(t, <<a, b, c>>)
      BY <1>0, <1>1, <1>2, <1>b, <1>a, <1>5, <2>1 DEF Moves, mqueue_get_inode_fails, Run, Enter
  <2>f. PICK fs : fs = <<a, b, c>>
      OBVIOUS
  <2>g. fs \in Seq(FrameSet) /\ Moves(t, fs) /\ (At(t, "nr_inc") => fs = <<>>) /\ \A i \in 1 .. Len(fs) : FsOK(t, fs, i)
      BY <1>0, <1>1, <1>2, <1>b, <1>a, <1>5, <2>3, <2>4, <2>5, <2>f DEF At
  <2>6. Ends(t, <<a, b, c>>)
      BY <1>0, <1>1, <1>2, <1>b, <1>a, <1>5, <2>f, <2>g, EndsHow
  <2> QED BY <2>1, <2>6
<1> QED BY <1>4, <1>6 DEF Arg

(* A namespace is created, with its mount.                                 *)
LEMMA After_create_ipc_ns ==
    ASSUME IInv, NEW t \in Tasks, create_ipc_ns(t), may' = may
    PROVE  \E n \in Nss, s \in Sbs :
              /\ n \notin alive /\ s_fs_info[s] = NoSb
              /\ alive' = alive \cup {n} /\ count' = [count EXCEPT ![n] = 1]
              /\ mq_queues_count' = [mq_queues_count EXCEPT ![n] = 0]
              /\ mq_mnt' = [mq_mnt EXCEPT ![n] = s] /\ s_fs_info' = [s_fs_info EXCEPT ![s] = n]
              /\ Ends(t, <<Frame("nr_inc", n), Frame("msg_init_ns", n), Frame("notify", NoNs),
                            Frame("register", n), Frame("switch", n)>>)
<1>0. TypeInv /\ ShapeInv
  BY DEF IInv
<1>1. stack[t] = <<>> /\ ~At(t, "nr_inc")
  BY DEF create_ipc_ns, Idle, At, Reaches
<1>2. t \in Tasks /\ t \in Threads
  BY DEF Threads
<1>3. PICK n \in Nss : \E s \in Sbs :
         /\ First(n, Nss \ alive) /\ First(s, {x \in Sbs : s_fs_info[x] = NoSb})
         /\ alive' = alive \cup {n}
         /\ count' = [count EXCEPT ![n] = 1]
         /\ mq_queues_count' = [mq_queues_count EXCEPT ![n] = 0]
         /\ mq_mnt' = [mq_mnt EXCEPT ![n] = s]
         /\ s_fs_info' = [s_fs_info EXCEPT ![s] = n]
         /\ Enter(t, <<Frame("nr_inc", n), Frame("msg_init_ns", n), Frame("notify", NoNs),
                       Frame("register", n), Frame("switch", n)>>)
  BY DEF create_ipc_ns
<1>4. PICK s \in Sbs :
         /\ First(n, Nss \ alive) /\ First(s, {x \in Sbs : s_fs_info[x] = NoSb})
         /\ alive' = alive \cup {n}
         /\ count' = [count EXCEPT ![n] = 1]
         /\ mq_queues_count' = [mq_queues_count EXCEPT ![n] = 0]
         /\ mq_mnt' = [mq_mnt EXCEPT ![n] = s]
         /\ s_fs_info' = [s_fs_info EXCEPT ![s] = n]
         /\ Enter(t, <<Frame("nr_inc", n), Frame("msg_init_ns", n), Frame("notify", NoNs),
                       Frame("register", n), Frame("switch", n)>>)
  BY <1>3
<1>a. n \notin alive /\ s_fs_info[s] = NoSb
  BY <1>4 DEF First
<1>5. DataType'
  <2>1. count' \in [Nss -> Int] /\ mq_queues_count' \in [Nss -> Int] /\ alive' \subseteq Nss
    BY <1>0, <1>4 DEF TypeInv
  <2>2. mq_mnt' \in [Nss -> Sbs \cup {NoSb}] /\ s_fs_info' \in [Sbs -> Nss \cup {NoNs, NoSb}]
    BY <1>0, <1>4 DEF TypeInv
  <2> QED BY <1>0, <2>1, <2>2 DEF create_ipc_ns, DataType, TypeInv, mniv
<1>6. Ends(t, <<Frame("nr_inc", n), Frame("msg_init_ns", n), Frame("notify", NoNs), Frame("register", n), Frame("switch", n)>>)
  <2>1. PICK a, b, c, d, e : a = Frame("nr_inc", n) /\ b = Frame("msg_init_ns", n) /\ c = Frame("notify", NoNs) /\ d = Frame("register", n) /\ e = Frame("switch", n)
      OBVIOUS
  <2>2. /\ a \in FrameSet /\ ArgsOK(t, a) /\ a.at = "nr_inc" /\ a.of = n
        /\ b \in FrameSet /\ ArgsOK(t, b) /\ b.at = "msg_init_ns" /\ b.of = n
        /\ c \in FrameSet /\ ArgsOK(t, c) /\ c.at = "notify" /\ c.of = NoNs
        /\ d \in FrameSet /\ ArgsOK(t, d) /\ d.at = "register" /\ d.of = n
        /\ e \in FrameSet /\ ArgsOK(t, e) /\ e.at = "switch" /\ e.of = n
      BY <1>0, <1>1, <1>2, <1>4, <1>5, <2>1, PlainFrames DEF NsLabels
  <2>3. <<a, b, c, d, e>> \in Seq(FrameSet) /\ Len(<<a, b, c, d, e>>) = 5
      BY <2>2
  <2>4. \A i \in 1 .. Len(<<a, b, c, d, e>>) : FsOK(t, <<a, b, c, d, e>>, i)
    <3>1. <<a, b, c, d, e>>[1] = a /\ <<a, b, c, d, e>>[2] = b /\ <<a, b, c, d, e>>[3] = c /\ <<a, b, c, d, e>>[4] = d /\ <<a, b, c, d, e>>[5] = e
        OBVIOUS
    <3>2. FsOK(t, <<a, b, c, d, e>>, 1)
        BY <1>0, <1>1, <1>2, <1>4, <1>5, <2>1, <2>2, <3>1 DEF FsOK
    <3>3. FsOK(t, <<a, b, c, d, e>>, 2)
        BY <1>0, <1>1, <1>2, <1>4, <1>5, <2>1, <2>2, <3>1 DEF FsOK
    <3>4. FsOK(t, <<a, b, c, d, e>>, 3)
        BY <1>0, <1>1, <1>2, <1>4, <1>5, <2>1, <2>2, <3>1 DEF FsOK
    <3>5. FsOK(t, <<a, b, c, d, e>>, 4)
        BY <1>0, <1>1, <1>2, <1>4, <1>5, <2>1, <2>2, <3>1 DEF FsOK
    <3>6. FsOK(t, <<a, b, c, d, e>>, 5)
        BY <1>0, <1>1, <1>2, <1>4, <1>5, <2>1, <2>2, <3>1 DEF FsOK
    <3> QED BY <3>2, <3>3, <3>4, <3>5, <3>6
  <2>5. Moves(t, <<a, b, c, d, e>>)
      BY <1>0, <1>1, <1>2, <1>4, <1>5, <2>1 DEF Moves, create_ipc_ns, Run, Enter
  <2>f. PICK fs : fs = <<a, b, c, d, e>>
      OBVIOUS
  <2>g. fs \in Seq(FrameSet) /\ Moves(t, fs) /\ (At(t, "nr_inc") => fs = <<>>) /\ \A i \in 1 .. Len(fs) : FsOK(t, fs, i)
      BY <1>0, <1>1, <1>2, <1>4, <1>5, <2>3, <2>4, <2>5, <2>f DEF At
  <2>6. Ends(t, <<a, b, c, d, e>>)
      BY <1>0, <1>1, <1>2, <1>4, <1>5, <2>f, <2>g, EndsHow
  <2> QED BY <2>1, <2>6
<1> QED BY <1>4, <1>a, <1>6

(* A queue of the super block is deleted, or the super block is gone.      *)
LEMMA After_kill_litter_super ==
    ASSUME IInv, NEW t \in Threads, kill_litter_super(t), may' = may
    PROVE  LET left == {q \in Queues : inode[q] # NoQueue /\ inode[q].sb = Arg(t)}
           IN  /\ left = {} => Ends(t, <<>>) /\ s_fs_info' = [s_fs_info EXCEPT ![Arg(t)] = NoSb]
               /\ left # {} => /\ s_fs_info' = s_fs_info
                               /\ \E q \in left : Ends(t, <<Frame("delete", q), Frame("kill", Arg(t))>>)
<1> DEFINE left == {q \in Queues : inode[q] # NoQueue /\ inode[q].sb = Arg(t)}
<1>0. TypeInv /\ ShapeInv
  BY DEF IInv
<1>1. /\ stack[t] # <<>> /\ Head(stack[t]).at = "kill" /\ Head(stack[t]) \in Frames(t)
      /\ Head(stack[t]) \in FrameSet /\ ArgsOK(t, Head(stack[t])) /\ Shape(t, 1)
      /\ Head(stack[t]) = stack[t][1] /\ ~At(t, "nr_inc")
  BY <1>0, HeadFacts DEF kill_litter_super, At
<1>2. t \in Tasks
  BY <1>0, <1>1, TaskRuns
<1>3. Arg(t) \in Sbs
  BY <1>1 DEF ArgsOK, NsLabels, Arg
<1>5. DataType'
  BY <1>0, <1>3 DEF kill_litter_super, DataType, TypeInv, nsv, mniv, sbv, queuev
<1>4. left # {} => /\ s_fs_info' = s_fs_info
                   /\ \E q \in left : Run(t, <<Frame("delete", q), Frame("kill", Arg(t))>>)
  BY DEF kill_litter_super
<1>a. left = {} => Run(t, <<>>) /\ s_fs_info' = [s_fs_info EXCEPT ![Arg(t)] = NoSb]
  BY DEF kill_litter_super
<1>b. left \subseteq Queues
  OBVIOUS
<1> HIDE DEF left
<1>6. ASSUME left = {} PROVE Ends(t, <<>>)
  <2>5. Moves(t, <<>>)
      BY <1>0, <1>1, <1>2, <1>3, <1>5, <1>6, <1>a DEF Moves, Run
  <2> QED BY <1>0, <1>1, <1>2, <1>3, <1>5, <1>6, <1>a, <2>5, EndsPop
<1>7. ASSUME NEW q \in left, Run(t, <<Frame("delete", q), Frame("kill", Arg(t))>>)
      PROVE  Ends(t, <<Frame("delete", q), Frame("kill", Arg(t))>>)
  <2>1. PICK a, b : a = Frame("delete", q) /\ b = Frame("kill", Arg(t))
      OBVIOUS
  <2>2. /\ a \in FrameSet /\ ArgsOK(t, a) /\ a.at = "delete" /\ a.of = q
        /\ b \in FrameSet /\ ArgsOK(t, b) /\ b.at = "kill" /\ b.of = Arg(t)
      BY <1>0, <1>1, <1>2, <1>3, <1>5, <1>7, <1>b, <2>1, PlainFrames DEF NsLabels
  <2>3. <<a, b>> \in Seq(FrameSet) /\ Len(<<a, b>>) = 2
      BY <2>2
  <2>4. \A i \in 1 .. Len(<<a, b>>) : FsOK(t, <<a, b>>, i)
    <3>1. <<a, b>>[1] = a /\ <<a, b>>[2] = b
        OBVIOUS
    <3>2. FsOK(t, <<a, b>>, 1)
        BY <1>0, <1>1, <1>2, <1>3, <1>5, <1>7, <1>b, <2>1, <2>2, <3>1 DEF FsOK
    <3>3. FsOK(t, <<a, b>>, 2)
        BY <1>0, <1>1, <1>2, <1>3, <1>5, <1>7, <1>b, <2>1, <2>2, <3>1 DEF FsOK
    <3> QED BY <3>2, <3>3
  <2>5. Moves(t, <<a, b>>)
      BY <1>0, <1>1, <1>2, <1>3, <1>5, <1>7, <1>b, <2>1 DEF Moves, Run
  <2>f. PICK fs : fs = <<a, b>>
      OBVIOUS
  <2>g. fs \in Seq(FrameSet) /\ Moves(t, fs) /\ (At(t, "nr_inc") => fs = <<>>) /\ \A i \in 1 .. Len(fs) : FsOK(t, fs, i)
      BY <1>0, <1>1, <1>2, <1>3, <1>5, <1>7, <1>b, <2>3, <2>4, <2>5, <2>f DEF At
  <2>6. Ends(t, <<a, b>>)
      BY <1>0, <1>1, <1>2, <1>3, <1>5, <1>7, <1>b, <2>f, <2>g, EndsHow
  <2> QED BY <2>1, <2>6
<1>8. left # {} => \E q \in left : Ends(t, <<Frame("delete", q), Frame("kill", Arg(t))>>)
  BY <1>4, <1>7
<1> QED BY <1>a, <1>4, <1>6, <1>8 DEF left

(* A file is closed.                                                       *)
LEMMA After_close ==
    ASSUME IInv, NEW t \in Tasks, NEW q \in Queues, close(t, q), may' = may
    PROVE  /\ (inode[q].link \/ inode[q].fds \ {t} # {}) => Ends(t, <<Frame("mntput", inode[q].sb)>>)
           /\ ~(inode[q].link \/ inode[q].fds \ {t} # {}) => Ends(t, <<Frame("delete", q), Frame("mntput", inode[q].sb)>>)
           /\ inode[q] \in QueueRecord
<1>0. TypeInv /\ ShapeInv
  BY DEF IInv
<1>1. stack[t] = <<>> /\ ~At(t, "nr_inc")
  BY DEF close, Idle, At, Reaches
<1>2. t \in Tasks /\ t \in Threads
  BY DEF Threads
<1>3. inode[q] \in QueueRecord /\ inode[q].sb \in Sbs
  BY <1>0 DEF close, TypeInv, QueueRecord
<1>5. DataType'
  <2>1. inode' \in [Queues -> QueueRecord \cup {NoQueue}]
    <3>1. inode' = [inode EXCEPT ![q].fds = inode[q].fds \ {t}]
        BY DEF close
    <3> QED BY <1>0, <1>3, <3>1 DEF TypeInv, QueueRecord
  <2> QED BY <1>0, <2>1 DEF close, DataType, TypeInv, nsv, mniv, sbv
<1>6. ASSUME (inode[q].link \/ inode[q].fds \ {t} # {}) PROVE Ends(t, <<Frame("mntput", inode[q].sb)>>)
  <2>a. Enter(t, <<Frame("mntput", inode[q].sb)>>)
    <3>1. Enter(t, iput(q, inode[q].link, inode[q].fds \ {t}) \o <<Frame("mntput", inode[q].sb)>>)
        BY DEF close
    <3>2. iput(q, inode[q].link, inode[q].fds \ {t}) = <<>>
        BY <1>6 DEF iput
    <3> QED BY <3>1, <3>2, Cat12
  <2>1. PICK a : a = Frame("mntput", inode[q].sb)
      OBVIOUS
  <2>2. /\ a \in FrameSet /\ ArgsOK(t, a) /\ a.at = "mntput" /\ a.of = inode[q].sb
      BY <1>0, <1>1, <1>2, <1>3, <1>5, <2>a, <2>1, PlainFrames DEF NsLabels
  <2>5. Moves(t, <<a>>)
      BY <1>0, <1>1, <1>2, <1>3, <1>5, <2>a, <2>1 DEF Moves, Enter
  <2>6. Ends(t, <<a>>)
      BY <1>0, <1>1, <1>2, <1>3, <1>5, <2>a, <2>2, <2>5, EndsFrame
  <2> QED BY <2>1, <2>6
<1>7. ASSUME ~(inode[q].link \/ inode[q].fds \ {t} # {}) PROVE Ends(t, <<Frame("delete", q), Frame("mntput", inode[q].sb)>>)
  <2>a. Enter(t, <<Frame("delete", q), Frame("mntput", inode[q].sb)>>)
    <3>1. Enter(t, iput(q, inode[q].link, inode[q].fds \ {t}) \o <<Frame("mntput", inode[q].sb)>>)
        BY DEF close
    <3>2. iput(q, inode[q].link, inode[q].fds \ {t}) = <<Frame("delete", q)>>
        BY <1>7 DEF iput
    <3>3. <<Frame("delete", q)>> \o <<Frame("mntput", inode[q].sb)>> = <<Frame("delete", q), Frame("mntput", inode[q].sb)>>
      <4>1. PICK a, b : a = Frame("delete", q) /\ b = Frame("mntput", inode[q].sb)
        OBVIOUS
      <4> QED BY <4>1, Cat12
    <3> QED BY <3>1, <3>2, <3>3
  <2>1. PICK a, b : a = Frame("delete", q) /\ b = Frame("mntput", inode[q].sb)
      OBVIOUS
  <2>2. /\ a \in FrameSet /\ ArgsOK(t, a) /\ a.at = "delete" /\ a.of = q
        /\ b \in FrameSet /\ ArgsOK(t, b) /\ b.at = "mntput" /\ b.of = inode[q].sb
      BY <1>0, <1>1, <1>2, <1>3, <1>5, <2>a, <2>1, PlainFrames DEF NsLabels
  <2>3. <<a, b>> \in Seq(FrameSet) /\ Len(<<a, b>>) = 2
      BY <2>2
  <2>4. \A i \in 1 .. Len(<<a, b>>) : FsOK(t, <<a, b>>, i)
    <3>1. <<a, b>>[1] = a /\ <<a, b>>[2] = b
        OBVIOUS
    <3>2. FsOK(t, <<a, b>>, 1)
        BY <1>0, <1>1, <1>2, <1>3, <1>5, <2>a, <2>1, <2>2, <3>1 DEF FsOK
    <3>3. FsOK(t, <<a, b>>, 2)
        BY <1>0, <1>1, <1>2, <1>3, <1>5, <2>a, <2>1, <2>2, <3>1 DEF FsOK
    <3> QED BY <3>2, <3>3
  <2>5. Moves(t, <<a, b>>)
      BY <1>0, <1>1, <1>2, <1>3, <1>5, <2>a, <2>1 DEF Moves, Enter
  <2>f. PICK fs : fs = <<a, b>>
      OBVIOUS
  <2>g. fs \in Seq(FrameSet) /\ Moves(t, fs) /\ (At(t, "nr_inc") => fs = <<>>) /\ \A i \in 1 .. Len(fs) : FsOK(t, fs, i)
      BY <1>0, <1>1, <1>2, <1>3, <1>5, <2>a, <2>3, <2>4, <2>5, <2>f DEF At
  <2>6. Ends(t, <<a, b>>)
      BY <1>0, <1>1, <1>2, <1>3, <1>5, <2>a, <2>f, <2>g, EndsHow
  <2> QED BY <2>1, <2>6
<1> QED BY <1>3, <1>6, <1>7

(* A name is taken away.                                                   *)
LEMMA After_mq_unlink ==
    ASSUME IInv, NEW t \in Tasks, NEW q \in Queues, mq_unlink(t, q), may' = may
    PROVE  /\ (inode[q].fds # {}) => Ends(t, <<Frame("mntput", inode[q].sb)>>)
           /\ ~(inode[q].fds # {}) => Ends(t, <<Frame("delete", q), Frame("mntput", inode[q].sb)>>)
           /\ inode[q] \in QueueRecord
<1>0. TypeInv /\ ShapeInv
  BY DEF IInv
<1>1. stack[t] = <<>> /\ ~At(t, "nr_inc")
  BY DEF mq_unlink, Idle, At, Reaches
<1>2. t \in Tasks /\ t \in Threads
  BY DEF Threads
<1>3. inode[q] \in QueueRecord /\ inode[q].sb \in Sbs
  BY <1>0 DEF mq_unlink, TypeInv, QueueRecord
<1>5. DataType'
  <2>1. inode' \in [Queues -> QueueRecord \cup {NoQueue}]
    <3>1. inode' = [inode EXCEPT ![q].link = FALSE]
        BY DEF mq_unlink
    <3> QED BY <1>0, <1>3, <3>1 DEF TypeInv, QueueRecord
  <2> QED BY <1>0, <2>1 DEF mq_unlink, DataType, TypeInv, nsv, mniv, sbv
<1>6. ASSUME (inode[q].fds # {}) PROVE Ends(t, <<Frame("mntput", inode[q].sb)>>)
  <2>a. Enter(t, <<Frame("mntput", inode[q].sb)>>)
    <3>1. Enter(t, iput(q, FALSE, inode[q].fds) \o <<Frame("mntput", inode[q].sb)>>)
        BY DEF mq_unlink
    <3>2. iput(q, FALSE, inode[q].fds) = <<>>
        BY <1>6 DEF iput
    <3> QED BY <3>1, <3>2, Cat12
  <2>1. PICK a : a = Frame("mntput", inode[q].sb)
      OBVIOUS
  <2>2. /\ a \in FrameSet /\ ArgsOK(t, a) /\ a.at = "mntput" /\ a.of = inode[q].sb
      BY <1>0, <1>1, <1>2, <1>3, <1>5, <2>a, <2>1, PlainFrames DEF NsLabels
  <2>5. Moves(t, <<a>>)
      BY <1>0, <1>1, <1>2, <1>3, <1>5, <2>a, <2>1 DEF Moves, Enter
  <2>6. Ends(t, <<a>>)
      BY <1>0, <1>1, <1>2, <1>3, <1>5, <2>a, <2>2, <2>5, EndsFrame
  <2> QED BY <2>1, <2>6
<1>7. ASSUME ~(inode[q].fds # {}) PROVE Ends(t, <<Frame("delete", q), Frame("mntput", inode[q].sb)>>)
  <2>a. Enter(t, <<Frame("delete", q), Frame("mntput", inode[q].sb)>>)
    <3>1. Enter(t, iput(q, FALSE, inode[q].fds) \o <<Frame("mntput", inode[q].sb)>>)
        BY DEF mq_unlink
    <3>2. iput(q, FALSE, inode[q].fds) = <<Frame("delete", q)>>
        BY <1>7 DEF iput
    <3>3. <<Frame("delete", q)>> \o <<Frame("mntput", inode[q].sb)>> = <<Frame("delete", q), Frame("mntput", inode[q].sb)>>
      <4>1. PICK a, b : a = Frame("delete", q) /\ b = Frame("mntput", inode[q].sb)
        OBVIOUS
      <4> QED BY <4>1, Cat12
    <3> QED BY <3>1, <3>2, <3>3
  <2>1. PICK a, b : a = Frame("delete", q) /\ b = Frame("mntput", inode[q].sb)
      OBVIOUS
  <2>2. /\ a \in FrameSet /\ ArgsOK(t, a) /\ a.at = "delete" /\ a.of = q
        /\ b \in FrameSet /\ ArgsOK(t, b) /\ b.at = "mntput" /\ b.of = inode[q].sb
      BY <1>0, <1>1, <1>2, <1>3, <1>5, <2>a, <2>1, PlainFrames DEF NsLabels
  <2>3. <<a, b>> \in Seq(FrameSet) /\ Len(<<a, b>>) = 2
      BY <2>2
  <2>4. \A i \in 1 .. Len(<<a, b>>) : FsOK(t, <<a, b>>, i)
    <3>1. <<a, b>>[1] = a /\ <<a, b>>[2] = b
        OBVIOUS
    <3>2. FsOK(t, <<a, b>>, 1)
        BY <1>0, <1>1, <1>2, <1>3, <1>5, <2>a, <2>1, <2>2, <3>1 DEF FsOK
    <3>3. FsOK(t, <<a, b>>, 2)
        BY <1>0, <1>1, <1>2, <1>3, <1>5, <2>a, <2>1, <2>2, <3>1 DEF FsOK
    <3> QED BY <3>2, <3>3
  <2>5. Moves(t, <<a, b>>)
      BY <1>0, <1>1, <1>2, <1>3, <1>5, <2>a, <2>1 DEF Moves, Enter
  <2>f. PICK fs : fs = <<a, b>>
      OBVIOUS
  <2>g. fs \in Seq(FrameSet) /\ Moves(t, fs) /\ (At(t, "nr_inc") => fs = <<>>) /\ \A i \in 1 .. Len(fs) : FsOK(t, fs, i)
      BY <1>0, <1>1, <1>2, <1>3, <1>5, <2>a, <2>3, <2>4, <2>5, <2>f DEF At
  <2>6. Ends(t, <<a, b>>)
      BY <1>0, <1>1, <1>2, <1>3, <1>5, <2>a, <2>f, <2>g, EndsHow
  <2> QED BY <2>1, <2>6
<1> QED BY <1>3, <1>6, <1>7

(* The worker starts.                                                      *)
LEMMA After_ipc_memory_notifier ==
    ASSUME IInv, ipc_memory_notifier, may' = may
    PROVE  Ends(kworker, <<Frame("notify", NoNs)>>) /\ kworker \in Threads
<1>t. PICK t : t = kworker
  OBVIOUS
<1>0. TypeInv /\ ShapeInv
  BY DEF IInv
<1>1. stack[t] = <<>> /\ ~At(t, "nr_inc")
  BY <1>t DEF ipc_memory_notifier, Idle, At
<1>2. t \in Threads
  BY <1>t DEF Threads
<1>5. DataType'
  BY <1>0 DEF ipc_memory_notifier, DataType, TypeInv, nsv, mniv, sbv, queuev
<1>6. Ends(t, <<Frame("notify", NoNs)>>)
  <2>1. PICK a : a = Frame("notify", NoNs)
      OBVIOUS
  <2>2. /\ a \in FrameSet /\ ArgsOK(t, a) /\ a.at = "notify" /\ a.of = NoNs
      BY <1>0, <1>1, <1>2, <1>5, <1>t, <2>1, PlainFrames DEF NsLabels
  <2>5. Moves(t, <<a>>)
      BY <1>0, <1>1, <1>2, <1>5, <1>t, <2>1 DEF Moves, Enter, ipc_memory_notifier
  <2>6. Ends(t, <<a>>)
      BY <1>0, <1>1, <1>2, <1>5, <1>t, <2>2, <2>5, EndsFrame
  <2> QED BY <2>1, <2>6
<1> QED BY <1>t, <1>2, <1>6

(* Steps that push and pop nothing.                                        *)
LEMMA After_rest ==
    ASSUME IInv, may' = may, stack' = stack,
           \/ Stay
           \/ \E t \in Tasks : hotplug(t) \/ mount(t) \/ \E q \in Queues : do_open(t, q)
    PROVE  TypeInv' /\ ShapeInv'
<1>0. TypeInv /\ ShapeInv
  BY DEF IInv
<1>1. ShapeInv'
  <2> SUFFICES ASSUME NEW t \in Threads, NEW i \in DOMAIN stack'[t] PROVE Shape(t, i)'
    BY DEF ShapeInv
  <2>1. Shape(t, i)
    BY <1>0 DEF ShapeInv
  <2> QED BY <2>1 DEF Shape, Below, ArgsOK
<1>2. CASE Stay
  BY <1>0, <1>1, <1>2 DEF Stay, TypeInv, nsv, mniv, sbv, queuev
<1>3. ASSUME NEW t \in Tasks, hotplug(t) PROVE TypeInv'
  <2>1. MaxMem \in Nat
    BY NsConstants
  <2>2. mem' \in 0 .. MaxMem
    BY <1>0, <1>3, <2>1 DEF hotplug, TypeInv
  <2>3. PassedBy \subseteq Nss
    BY DEF PassedBy
  <2> QED BY <1>0, <1>3, <2>2, <2>3 DEF hotplug, TypeInv, nsv, sbv, queuev
<1>4. ASSUME NEW t \in Tasks, mount(t) PROVE TypeInv'
  BY <1>0, <1>4 DEF mount, TypeInv, nsv, mniv, sbv, queuev
<1>5. ASSUME NEW t \in Tasks, NEW q \in Queues, do_open(t, q) PROVE TypeInv'
  <2>1. inode[q] \in QueueRecord /\ inode' = [inode EXCEPT ![q].fds = inode[q].fds \cup {t}]
    BY <1>0, <1>5 DEF do_open, TypeInv
  <2>2. inode' \in [Queues -> QueueRecord \cup {NoQueue}]
    BY <1>0, <2>1 DEF TypeInv, QueueRecord
  <2> QED BY <1>0, <1>5, <2>2 DEF do_open, TypeInv, nsv, mniv, sbv
<1> QED BY <1>1, <1>2, <1>3, <1>4, <1>5

-----------------------------------------------------------------------------
(* References, mounts and queues: what depends on what.                    *)
RefInv == /\ LifeInv /\ RefCount /\ MountInv /\ QueueInv /\ OwnerInv /\ CallInv /\ QueueCounts

(* Nobody frees, and nobody is to be freed.                                *)
LEMMA LifeSame ==
    ASSUME LifeInv, KSame, PSame, UNCHANGED <<alive, count, mq_mnt>>
    PROVE  LifeInv'
    BY DEF LifeInv, KSame, PSame

(* Nobody takes or drops a reference.                                      *)
LEMMA RefSame ==
    ASSUME RefCount, HSame, UNCHANGED <<alive, count, nsproxy>>
    PROVE  RefCount'
<1>1. \A n \in Nss : Holders(n)' = Holders(n)
  BY DEF Holders
<1> QED BY <1>1 DEF RefCount, HSame

RSame == \A s \in Sbs : MntRefs(s)' = MntRefs(s)

(* The references to mounts.                                               *)
LEMMA RefsSame ==
    ASSUME MSame, UNCHANGED <<mq_mnt, usermnt, inode>>
    PROVE  RSame
    BY DEF MSame, RSame, MntRefs

(* The super blocks stay as they are.                                      *)
LEMMA MountSame ==
    ASSUME MountInv, RSame, XSame, UNCHANGED <<alive, count, mq_mnt, s_fs_info>>
    PROVE  MountInv'
    BY DEF MountInv, RSame, XSame

(* The queues and their owners.                                            *)
LEMMA QueueSame ==
    ASSUME QueueInv, OSame, XSame, TypeInv, UNCHANGED <<inode, s_fs_info>>
    PROVE  QueueInv'
<1>1. \A q \in Queues : inode[q] # NoQueue => inode[q].sb \in Sbs
  BY DEF TypeInv, QueueRecord
<1>2. \A q \in Queues : Owners(q)' = Owners(q)
  BY DEF Owners
<1> QED BY <1>1, <1>2 DEF QueueInv, OSame, XSame

(* The counters of queues.                                                 *)
LEMMA CountedSame ==
    ASSUME QueueCounts, CSame, UNCHANGED <<alive, count, mq_mnt, inode, mq_queues_count, mq_bytes>>,
           alive \subseteq Nss
    PROVE  QueueCounts'
<1>1. \A n \in Nss : Creations(n)' = Creations(n)
  BY DEF Creations
<1> QED BY <1>1 DEF QueueCounts, CSame

(* What a frame of a call of the file system has.                          *)
CallOK(f) ==
    /\ f.at = "inode" => s_fs_info[f.of] = f.ns
    /\ f.at = "instantiate" => ~inode[f.of].link /\ inode[f.of].fds = {}
    /\ f.at = "release" => s_fs_info[inode[f.of].sb] = f.ns

(* The calls keep what they have.                                          *)
LEMMA CallStep ==
    ASSUME CallInv, stack \in [Threads -> Seq(FrameSet)], NEW t \in Threads, NEW fs \in Seq(FrameSet),
           Moves(t, fs),
           \A i \in 1 .. Len(fs) : CallOK(fs[i])',
           \A u \in Threads : \A f \in Frames(u) : f \in Frames(u)' /\ CallOK(f) => CallOK(f)'
    PROVE  CallInv'
<1>1. /\ \A u \in Threads : u # t => Frames(u)' = Frames(u)
      /\ \A f \in Frames(t)' : (\E i \in 1 .. Len(fs) : f = fs[i]) \/ f \in Frames(t)
  BY FramesStep
<1>2. \A u \in Threads : \A f \in Frames(u) : CallOK(f)
  BY DEF CallInv, CallOK
<1>3. ASSUME NEW u \in Threads, NEW f \in Frames(u)' PROVE CallOK(f)'
  <2>1. CASE f \in Frames(u)
    BY <1>2, <2>1
  <2>2. CASE f \notin Frames(u)
    <3>1. u = t /\ \E i \in 1 .. Len(fs) : f = fs[i]
        BY <1>1, <1>3, <2>2
    <3>2. PICK i \in 1 .. Len(fs) : f = fs[i]
        BY <3>1
    <3> QED BY <3>2
  <2> QED BY <2>1, <2>2
<1> QED BY <1>3 DEF CallInv, CallOK

RefLabels == {"put", "switch", "inode", "release", "kfree", "mq_put_mnt", "mntput", "kill", "delete",
              "instantiate", "uncount"}

(* A step of msgmni and the chain leaves references, mounts and queues     *)
(* alone.                                                                  *)
LEMMA ChainStepsQuiet ==
    ASSUME TypeInv, RefInv, NEW t \in Threads, NEW fs \in Seq(FrameSet), Moves(t, fs),
           Touches(t, fs) \cap RefLabels = {}, UNCHANGED <<nsv, sbv, queuev>>
    PROVE  RefInv'
<1>0. stack \in [Threads -> Seq(FrameSet)] /\ alive \subseteq Nss
  BY DEF TypeInv
<1>1. HSame /\ KSame /\ PSame /\ MSame /\ XSame /\ OSame /\ CSame
  BY <1>0, Families DEF RefLabels
<1>2. /\ UNCHANGED <<alive, count, nsproxy>> /\ UNCHANGED <<mq_mnt, s_fs_info, usermnt>>
      /\ UNCHANGED <<inode, mq_queues_count, mq_bytes>>
  BY DEF nsv, sbv, queuev
<1>3. LifeInv' /\ RefCount'
  BY <1>1, <1>2, LifeSame, RefSame DEF RefInv
<1>4. MountInv'
  BY <1>1, <1>2, RefsSame, MountSame DEF RefInv
<1>5. QueueInv'
  BY <1>1, <1>2, QueueSame DEF RefInv
<1>6. QueueCounts'
  BY <1>0, <1>1, <1>2, CountedSame DEF RefInv
<1>7. \A i \in 1 .. Len(fs) : fs[i].at \notin RefLabels
  BY DEF Touches
<1>8. CallInv'
  <2>1. \A i \in 1 .. Len(fs) : CallOK(fs[i])'
    BY <1>7 DEF CallOK, RefLabels
  <2>2. \A f : CallOK(f) => CallOK(f)'
    BY <1>2 DEF CallOK
  <2> QED BY <1>0, <2>1, <2>2, CallStep DEF RefInv
<1>9. OwnerInv'
  <2>1. \A i \in 1 .. Len(fs) : \A q \in Queues : fs[i] \notin Owners(q)
    BY <1>7 DEF Owners, RefLabels
  <2>2. \A q \in Queues : inode'[q].sb = inode[q].sb
    BY <1>2
  <2> QED BY <1>0, <2>1, <2>2, OwnerStep DEF RefInv
<1> QED BY <1>3, <1>4, <1>5, <1>6, <1>8, <1>9 DEF RefInv

(* So does a step that changes nothing of it at all.                       *)
LEMMA NothingMoves ==
    ASSUME RefInv, UNCHANGED <<nsv, sbv, queuev, stack>>
    PROVE  RefInv'
<1>1. /\ alive' = alive /\ count' = count /\ nsproxy' = nsproxy /\ mq_mnt' = mq_mnt
      /\ s_fs_info' = s_fs_info /\ usermnt' = usermnt
      /\ inode' = inode /\ mq_queues_count' = mq_queues_count /\ mq_bytes' = mq_bytes /\ stack' = stack
  BY DEF nsv, sbv, queuev
<1>2. \A S : Total(S)' = Total(S)
  BY <1>1 DEF Total
<1>3. \A s : MntRefs(s)' = MntRefs(s)
  BY <1>1, <1>2 DEF MntRefs
<1>4. \A t : Frames(t)' = Frames(t)
  BY <1>1 DEF Frames
<1>5. LifeInv' /\ RefCount'
  BY <1>1, <1>2 DEF RefInv, LifeInv, RefCount, Holders
<1>6. MountInv'
  BY <1>1, <1>2, <1>3 DEF RefInv, MountInv
<1>7. QueueInv'
  BY <1>1, <1>2 DEF RefInv, QueueInv, Owners
<1>8. OwnerInv'
  BY <1>1 DEF RefInv, OwnerInv, Owners, Below, Keepers
<1>9. CallInv'
  BY <1>1, <1>4 DEF RefInv, CallInv
<1>10. QueueCounts'
  BY <1>1, <1>2 DEF RefInv, QueueCounts, Creations
<1> QED BY <1>5, <1>6, <1>7, <1>8, <1>9, <1>10 DEF RefInv

-----------------------------------------------------------------------------
(* What one frame counts for: references to a namespace, its freeing and   *)
(* the giving back of its mount, references to a super block and its       *)
(* taking down, owners of a queue, creations.                              *)
hH(f, n) == IF (f.at \in {"put", "switch"} /\ f.of = n) \/ (f.at \in {"inode", "release"} /\ f.ns = n)
            THEN 1 ELSE 0
hK(f, n) == IF f.at = "kfree" /\ f.of = n THEN 1 ELSE 0
hP(f, n) == IF f.at = "mq_put_mnt" /\ f.of = n THEN 1 ELSE 0
hM(f, s) == IF f.at = "mntput" /\ f.of = s THEN 1 ELSE 0
hX(f, s) == IF f.at = "kill" /\ f.of = s THEN 1 ELSE 0
hO(f, q) == IF f.at \in {"delete", "release", "instantiate"} /\ f.of = q THEN 1 ELSE 0
hC(f, n) == IF (f.at = "inode" /\ f.ns = n) \/ (f.at = "uncount" /\ f.of = n) THEN 1 ELSE 0

(* The counts, and after a step.                                           *)
tH(n) == Total(Holders(n))
tK(n) == Total({Frame("kfree", n)})
tP(n) == Total({Frame("mq_put_mnt", n)})
tM(s) == Total({Frame("mntput", s)})
tX(s) == Total({Frame("kill", s)})
tO(q) == Total(Owners(q))
tC(n) == Total(Creations(n))

(* A frame is in the sets it counts for.                                   *)
LEMMA InWeights ==
    ASSUME NEW t, NEW f \in FrameSet, ArgsOK(t, f)
    PROVE  /\ \A n : In(f, Holders(n)) = hH(f, n) /\ In(f, Creations(n)) = hC(f, n)
           /\ \A n : In(f, Owners(n)) = hO(f, n)
           /\ \A n : In(f, {Frame("kfree", n)}) = hK(f, n)
           /\ \A n : In(f, {Frame("mq_put_mnt", n)}) = hP(f, n)
           /\ \A n : In(f, {Frame("mntput", n)}) = hM(f, n)
           /\ \A n : In(f, {Frame("kill", n)}) = hX(f, n)
<1>1. \A l, x : f = Frame(l, x) => f.at = l /\ f.of = x
  BY DEF Frame, MkFrame
<1>2. f.at \in {"kfree", "mq_put_mnt", "mntput", "kill"} => f = Frame(f.at, f.of)
  BY DEF ArgsOK
<1>3. ASSUME NEW l \in {"kfree", "mq_put_mnt", "mntput", "kill"}, NEW x
      PROVE  f \in {Frame(l, x)} <=> f.at = l /\ f.of = x
  BY <1>1, <1>2
<1>4. \A n : In(f, {Frame("kfree", n)}) = hK(f, n)
  BY <1>3 DEF In, hK
<1>5. \A n : In(f, {Frame("mq_put_mnt", n)}) = hP(f, n)
  BY <1>3 DEF In, hP
<1>6. \A n : In(f, {Frame("mntput", n)}) = hM(f, n)
  BY <1>3 DEF In, hM
<1>7. \A n : In(f, {Frame("kill", n)}) = hX(f, n)
  BY <1>3 DEF In, hX
<1>8. \A n : In(f, Holders(n)) = hH(f, n) /\ In(f, Creations(n)) = hC(f, n)
  BY DEF In, hH, hC, Holders, Creations
<1>9. \A n : In(f, Owners(n)) = hO(f, n)
  BY DEF In, hO, Owners
<1> QED BY <1>4, <1>5, <1>6, <1>7, <1>8, <1>9

(* The counts are numbers.                                                 *)
CountsNat ==
    /\ \A n \in Nss : tH(n) \in Nat /\ tK(n) \in Nat /\ tP(n) \in Nat /\ tC(n) \in Nat
    /\ \A s \in Sbs : tM(s) \in Nat /\ tX(s) \in Nat
    /\ \A q \in Queues : tO(q) \in Nat

(* They are before and after every step.                                   *)
LEMMA CountsAre ==
    ASSUME TypeInv
    PROVE  CountsNat
<1>1. \A S : Total(S) \in Nat
  BY TotalPlaces DEF TypeInv
<1> QED BY <1>1 DEF CountsNat, tH, tK, tP, tM, tX, tO, tC

(* The frames of a call that are pushed together, counted.                 *)
LEMMA TimesFrames ==
    ASSUME NEW a \in FrameSet, NEW b \in FrameSet, NEW c \in FrameSet, NEW d \in FrameSet, NEW e \in FrameSet, NEW S
    PROVE  /\ Times(<<>>, S) = 0
           /\ Times(<<a>>, S) = In(a, S)
           /\ Times(<<a, b>>, S) = In(a, S) + In(b, S)
           /\ Times(<<a, b, c>>, S) = In(a, S) + In(b, S) + In(c, S)
           /\ Times(<<a, b, c, d, e>>, S) = In(a, S) + In(b, S) + In(c, S) + In(d, S) + In(e, S)
    BY TimesTuple, SMT

(* The same for one.                                                       *)
LEMMA TimesOneFrame ==
    ASSUME NEW a \in FrameSet, NEW S
    PROVE  Times(<<a>>, S) = In(a, S)
    BY TimesOne DEF In

(* The same for two.                                                       *)
LEMMA TimesTwo ==
    ASSUME NEW a \in FrameSet, NEW b \in FrameSet, NEW S
    PROVE  Times(<<a, b>>, S) = In(a, S) + In(b, S)
<1>1. /\ Times(<<>>, S) = 0
      /\ Times(<<a>>, S) = In(a, S)
      /\ Times(<<a, b>>, S) = In(a, S) + In(b, S)
      /\ Times(<<a, b, b>>, S) = In(a, S) + In(b, S) + In(b, S)
      /\ Times(<<a, b, b, b, b>>, S) = In(a, S) + In(b, S) + In(b, S) + In(b, S) + In(b, S)
  BY TimesFrames, SMT
<1> QED BY <1>1

(* The same for three.                                                     *)
LEMMA TimesThree ==
    ASSUME NEW a \in FrameSet, NEW b \in FrameSet, NEW c \in FrameSet, NEW S
    PROVE  Times(<<a, b, c>>, S) = In(a, S) + In(b, S) + In(c, S)
<1>1. /\ Times(<<>>, S) = 0
      /\ Times(<<a>>, S) = In(a, S)
      /\ Times(<<a, b>>, S) = In(a, S) + In(b, S)
      /\ Times(<<a, b, c>>, S) = In(a, S) + In(b, S) + In(c, S)
      /\ Times(<<a, b, c, c, c>>, S) = In(a, S) + In(b, S) + In(c, S) + In(c, S) + In(c, S)
  BY TimesFrames, SMT
<1> QED BY <1>1

(* The same for five.                                                      *)
LEMMA TimesFive ==
    ASSUME NEW a \in FrameSet, NEW b \in FrameSet, NEW c \in FrameSet, NEW d \in FrameSet, NEW e \in FrameSet, NEW S
    PROVE  Times(<<a, b, c, d, e>>, S) = In(a, S) + In(b, S) + In(c, S) + In(d, S) + In(e, S)
<1>1. /\ Times(<<>>, S) = 0
      /\ Times(<<a>>, S) = In(a, S)
      /\ Times(<<a, b>>, S) = In(a, S) + In(b, S)
      /\ Times(<<a, b, c>>, S) = In(a, S) + In(b, S) + In(c, S)
      /\ Times(<<a, b, c, d, e>>, S) = In(a, S) + In(b, S) + In(c, S) + In(d, S) + In(e, S)
  BY TimesFrames, SMT
<1> QED BY <1>1

(* The frame that runs makes place for nothing.                            *)
LEMMA Pop0 ==
    ASSUME TypeInv, ShapeInv, NEW t \in Threads,
           Moves(t, <<>>), stack[t] # <<>>,
           NEW h, h = Head(stack[t])
    PROVE  /\ \A n \in Nss : tH(n)' = tH(n) - hH(h, n)
           /\ \A n \in Nss : tK(n)' = tK(n) - hK(h, n)
           /\ \A n \in Nss : tP(n)' = tP(n) - hP(h, n)
           /\ \A n \in Sbs : tM(n)' = tM(n) - hM(h, n)
           /\ \A n \in Sbs : tX(n)' = tX(n) - hX(h, n)
           /\ \A n \in Queues : tO(n)' = tO(n) - hO(h, n)
           /\ \A n \in Nss : tC(n)' = tC(n) - hC(h, n)
<1>0. stack \in [Threads -> Seq(FrameSet)]
  BY DEF TypeInv
<1>1. h \in FrameSet /\ ArgsOK(t, h)
  BY HeadFacts
<1>2. <<>> \in Seq(FrameSet)
  OBVIOUS
<1>3. ASSUME NEW S
      PROVE  Total(S)' = Total(S) - In(h, S)
  <2>1. Times(<<>>, S) = 0
    <3>1. PICK z : z \in FrameSet
        BY <1>1
    <3> QED BY <3>1, TimesFrames
  <2>2. PICK fs : fs = <<>>
    OBVIOUS
  <2>3. /\ Total(S)' = Total(S) + Times(fs, S) - (IF stack[t] = <<>> THEN 0 ELSE In(Head(stack[t]), S))
        /\ Total(S) \in Nat
    BY <1>0, <1>2, <2>2, Deltas
  <2>4. \A x : In(x, S) \in Nat
    BY DEF In
  <2> QED BY <2>1, <2>2, <2>3, <2>4
<1>4. \A n \in Nss : tH(n)' = tH(n) - hH(h, n)
  BY <1>1, <1>3, InWeights DEF tH
<1>5. \A n \in Nss : tK(n)' = tK(n) - hK(h, n)
  BY <1>1, <1>3, InWeights DEF tK
<1>6. \A n \in Nss : tP(n)' = tP(n) - hP(h, n)
  BY <1>1, <1>3, InWeights DEF tP
<1>7. \A n \in Sbs : tM(n)' = tM(n) - hM(h, n)
  BY <1>1, <1>3, InWeights DEF tM
<1>8. \A n \in Sbs : tX(n)' = tX(n) - hX(h, n)
  BY <1>1, <1>3, InWeights DEF tX
<1>9. \A n \in Queues : tO(n)' = tO(n) - hO(h, n)
  BY <1>1, <1>3, InWeights DEF tO
<1>10. \A n \in Nss : tC(n)' = tC(n) - hC(h, n)
  BY <1>1, <1>3, InWeights DEF tC
<1> QED BY <1>4, <1>5, <1>6, <1>7, <1>8, <1>9, <1>10

(* The frame that runs makes place for one frame.                          *)
LEMMA Pop1 ==
    ASSUME TypeInv, ShapeInv, NEW t \in Threads, NEW a \in FrameSet, ArgsOK(t, a),
           Moves(t, <<a>>), stack[t] # <<>>,
           NEW h, h = Head(stack[t])
    PROVE  /\ \A n \in Nss : tH(n)' = tH(n) + hH(a, n) - hH(h, n)
           /\ \A n \in Nss : tK(n)' = tK(n) + hK(a, n) - hK(h, n)
           /\ \A n \in Nss : tP(n)' = tP(n) + hP(a, n) - hP(h, n)
           /\ \A n \in Sbs : tM(n)' = tM(n) + hM(a, n) - hM(h, n)
           /\ \A n \in Sbs : tX(n)' = tX(n) + hX(a, n) - hX(h, n)
           /\ \A n \in Queues : tO(n)' = tO(n) + hO(a, n) - hO(h, n)
           /\ \A n \in Nss : tC(n)' = tC(n) + hC(a, n) - hC(h, n)
<1>0. stack \in [Threads -> Seq(FrameSet)]
  BY DEF TypeInv
<1>1. h \in FrameSet /\ ArgsOK(t, h)
  BY HeadFacts
<1>2. <<a>> \in Seq(FrameSet)
  OBVIOUS
<1>3. ASSUME NEW S
      PROVE  Total(S)' = Total(S) + In(a, S) - In(h, S)
  <2>1. Times(<<a>>, S) = In(a, S)
    BY TimesOneFrame
  <2>2. PICK fs : fs = <<a>>
    OBVIOUS
  <2>3. /\ Total(S)' = Total(S) + Times(fs, S) - (IF stack[t] = <<>> THEN 0 ELSE In(Head(stack[t]), S))
        /\ Total(S) \in Nat
    BY <1>0, <1>2, <2>2, Deltas
  <2>4. \A x : In(x, S) \in Nat
    BY DEF In
  <2> QED BY <2>1, <2>2, <2>3, <2>4
<1>4. \A n \in Nss : tH(n)' = tH(n) + hH(a, n) - hH(h, n)
  BY <1>1, <1>3, InWeights DEF tH
<1>5. \A n \in Nss : tK(n)' = tK(n) + hK(a, n) - hK(h, n)
  BY <1>1, <1>3, InWeights DEF tK
<1>6. \A n \in Nss : tP(n)' = tP(n) + hP(a, n) - hP(h, n)
  BY <1>1, <1>3, InWeights DEF tP
<1>7. \A n \in Sbs : tM(n)' = tM(n) + hM(a, n) - hM(h, n)
  BY <1>1, <1>3, InWeights DEF tM
<1>8. \A n \in Sbs : tX(n)' = tX(n) + hX(a, n) - hX(h, n)
  BY <1>1, <1>3, InWeights DEF tX
<1>9. \A n \in Queues : tO(n)' = tO(n) + hO(a, n) - hO(h, n)
  BY <1>1, <1>3, InWeights DEF tO
<1>10. \A n \in Nss : tC(n)' = tC(n) + hC(a, n) - hC(h, n)
  BY <1>1, <1>3, InWeights DEF tC
<1> QED BY <1>4, <1>5, <1>6, <1>7, <1>8, <1>9, <1>10

(* The frame that runs makes place for two frames.                         *)
LEMMA Pop2 ==
    ASSUME TypeInv, ShapeInv, NEW t \in Threads, NEW a \in FrameSet, ArgsOK(t, a), NEW b \in FrameSet, ArgsOK(t, b),
           Moves(t, <<a, b>>), stack[t] # <<>>,
           NEW h, h = Head(stack[t])
    PROVE  /\ \A n \in Nss : tH(n)' = tH(n) + hH(a, n) + hH(b, n) - hH(h, n)
           /\ \A n \in Nss : tK(n)' = tK(n) + hK(a, n) + hK(b, n) - hK(h, n)
           /\ \A n \in Nss : tP(n)' = tP(n) + hP(a, n) + hP(b, n) - hP(h, n)
           /\ \A n \in Sbs : tM(n)' = tM(n) + hM(a, n) + hM(b, n) - hM(h, n)
           /\ \A n \in Sbs : tX(n)' = tX(n) + hX(a, n) + hX(b, n) - hX(h, n)
           /\ \A n \in Queues : tO(n)' = tO(n) + hO(a, n) + hO(b, n) - hO(h, n)
           /\ \A n \in Nss : tC(n)' = tC(n) + hC(a, n) + hC(b, n) - hC(h, n)
<1>0. stack \in [Threads -> Seq(FrameSet)]
  BY DEF TypeInv
<1>1. h \in FrameSet /\ ArgsOK(t, h)
  BY HeadFacts
<1>2. <<a, b>> \in Seq(FrameSet)
  OBVIOUS
<1>3. ASSUME NEW S
      PROVE  Total(S)' = Total(S) + In(a, S) + In(b, S) - In(h, S)
  <2>1. Times(<<a, b>>, S) = In(a, S) + In(b, S)
    BY TimesTwo
  <2>2. PICK fs : fs = <<a, b>>
    OBVIOUS
  <2>3. /\ Total(S)' = Total(S) + Times(fs, S) - (IF stack[t] = <<>> THEN 0 ELSE In(Head(stack[t]), S))
        /\ Total(S) \in Nat
    BY <1>0, <1>2, <2>2, Deltas
  <2>4. \A x : In(x, S) \in Nat
    BY DEF In
  <2> QED BY <2>1, <2>2, <2>3, <2>4
<1>4. \A n \in Nss : tH(n)' = tH(n) + hH(a, n) + hH(b, n) - hH(h, n)
  BY <1>1, <1>3, InWeights DEF tH
<1>5. \A n \in Nss : tK(n)' = tK(n) + hK(a, n) + hK(b, n) - hK(h, n)
  BY <1>1, <1>3, InWeights DEF tK
<1>6. \A n \in Nss : tP(n)' = tP(n) + hP(a, n) + hP(b, n) - hP(h, n)
  BY <1>1, <1>3, InWeights DEF tP
<1>7. \A n \in Sbs : tM(n)' = tM(n) + hM(a, n) + hM(b, n) - hM(h, n)
  BY <1>1, <1>3, InWeights DEF tM
<1>8. \A n \in Sbs : tX(n)' = tX(n) + hX(a, n) + hX(b, n) - hX(h, n)
  BY <1>1, <1>3, InWeights DEF tX
<1>9. \A n \in Queues : tO(n)' = tO(n) + hO(a, n) + hO(b, n) - hO(h, n)
  BY <1>1, <1>3, InWeights DEF tO
<1>10. \A n \in Nss : tC(n)' = tC(n) + hC(a, n) + hC(b, n) - hC(h, n)
  BY <1>1, <1>3, InWeights DEF tC
<1> QED BY <1>4, <1>5, <1>6, <1>7, <1>8, <1>9, <1>10

(* The frame that runs makes place for three frames.                       *)
LEMMA Pop3 ==
    ASSUME TypeInv, ShapeInv, NEW t \in Threads, NEW a \in FrameSet, ArgsOK(t, a), NEW b \in FrameSet, ArgsOK(t, b), NEW c \in FrameSet, ArgsOK(t, c),
           Moves(t, <<a, b, c>>), stack[t] # <<>>,
           NEW h, h = Head(stack[t])
    PROVE  /\ \A n \in Nss : tH(n)' = tH(n) + hH(a, n) + hH(b, n) + hH(c, n) - hH(h, n)
           /\ \A n \in Nss : tK(n)' = tK(n) + hK(a, n) + hK(b, n) + hK(c, n) - hK(h, n)
           /\ \A n \in Nss : tP(n)' = tP(n) + hP(a, n) + hP(b, n) + hP(c, n) - hP(h, n)
           /\ \A n \in Sbs : tM(n)' = tM(n) + hM(a, n) + hM(b, n) + hM(c, n) - hM(h, n)
           /\ \A n \in Sbs : tX(n)' = tX(n) + hX(a, n) + hX(b, n) + hX(c, n) - hX(h, n)
           /\ \A n \in Queues : tO(n)' = tO(n) + hO(a, n) + hO(b, n) + hO(c, n) - hO(h, n)
           /\ \A n \in Nss : tC(n)' = tC(n) + hC(a, n) + hC(b, n) + hC(c, n) - hC(h, n)
<1>0. stack \in [Threads -> Seq(FrameSet)]
  BY DEF TypeInv
<1>1. h \in FrameSet /\ ArgsOK(t, h)
  BY HeadFacts
<1>2. <<a, b, c>> \in Seq(FrameSet)
  OBVIOUS
<1>3. ASSUME NEW S
      PROVE  Total(S)' = Total(S) + In(a, S) + In(b, S) + In(c, S) - In(h, S)
  <2>1. Times(<<a, b, c>>, S) = In(a, S) + In(b, S) + In(c, S)
    BY TimesThree
  <2>2. PICK fs : fs = <<a, b, c>>
    OBVIOUS
  <2>3. /\ Total(S)' = Total(S) + Times(fs, S) - (IF stack[t] = <<>> THEN 0 ELSE In(Head(stack[t]), S))
        /\ Total(S) \in Nat
    BY <1>0, <1>2, <2>2, Deltas
  <2>4. \A x : In(x, S) \in Nat
    BY DEF In
  <2> QED BY <2>1, <2>2, <2>3, <2>4
<1>4. \A n \in Nss : tH(n)' = tH(n) + hH(a, n) + hH(b, n) + hH(c, n) - hH(h, n)
  BY <1>1, <1>3, InWeights DEF tH
<1>5. \A n \in Nss : tK(n)' = tK(n) + hK(a, n) + hK(b, n) + hK(c, n) - hK(h, n)
  BY <1>1, <1>3, InWeights DEF tK
<1>6. \A n \in Nss : tP(n)' = tP(n) + hP(a, n) + hP(b, n) + hP(c, n) - hP(h, n)
  BY <1>1, <1>3, InWeights DEF tP
<1>7. \A n \in Sbs : tM(n)' = tM(n) + hM(a, n) + hM(b, n) + hM(c, n) - hM(h, n)
  BY <1>1, <1>3, InWeights DEF tM
<1>8. \A n \in Sbs : tX(n)' = tX(n) + hX(a, n) + hX(b, n) + hX(c, n) - hX(h, n)
  BY <1>1, <1>3, InWeights DEF tX
<1>9. \A n \in Queues : tO(n)' = tO(n) + hO(a, n) + hO(b, n) + hO(c, n) - hO(h, n)
  BY <1>1, <1>3, InWeights DEF tO
<1>10. \A n \in Nss : tC(n)' = tC(n) + hC(a, n) + hC(b, n) + hC(c, n) - hC(h, n)
  BY <1>1, <1>3, InWeights DEF tC
<1> QED BY <1>4, <1>5, <1>6, <1>7, <1>8, <1>9, <1>10

(* The frame that runs makes place for five frames.                        *)
LEMMA Pop5 ==
    ASSUME TypeInv, ShapeInv, NEW t \in Threads, NEW a \in FrameSet, ArgsOK(t, a), NEW b \in FrameSet, ArgsOK(t, b), NEW c \in FrameSet, ArgsOK(t, c), NEW d \in FrameSet, ArgsOK(t, d), NEW e \in FrameSet, ArgsOK(t, e),
           Moves(t, <<a, b, c, d, e>>), stack[t] # <<>>,
           NEW h, h = Head(stack[t])
    PROVE  /\ \A n \in Nss : tH(n)' = tH(n) + hH(a, n) + hH(b, n) + hH(c, n) + hH(d, n) + hH(e, n) - hH(h, n)
           /\ \A n \in Nss : tK(n)' = tK(n) + hK(a, n) + hK(b, n) + hK(c, n) + hK(d, n) + hK(e, n) - hK(h, n)
           /\ \A n \in Nss : tP(n)' = tP(n) + hP(a, n) + hP(b, n) + hP(c, n) + hP(d, n) + hP(e, n) - hP(h, n)
           /\ \A n \in Sbs : tM(n)' = tM(n) + hM(a, n) + hM(b, n) + hM(c, n) + hM(d, n) + hM(e, n) - hM(h, n)
           /\ \A n \in Sbs : tX(n)' = tX(n) + hX(a, n) + hX(b, n) + hX(c, n) + hX(d, n) + hX(e, n) - hX(h, n)
           /\ \A n \in Queues : tO(n)' = tO(n) + hO(a, n) + hO(b, n) + hO(c, n) + hO(d, n) + hO(e, n) - hO(h, n)
           /\ \A n \in Nss : tC(n)' = tC(n) + hC(a, n) + hC(b, n) + hC(c, n) + hC(d, n) + hC(e, n) - hC(h, n)
<1>0. stack \in [Threads -> Seq(FrameSet)]
  BY DEF TypeInv
<1>1. h \in FrameSet /\ ArgsOK(t, h)
  BY HeadFacts
<1>2. <<a, b, c, d, e>> \in Seq(FrameSet)
  OBVIOUS
<1>3. ASSUME NEW S
      PROVE  Total(S)' = Total(S) + In(a, S) + In(b, S) + In(c, S) + In(d, S) + In(e, S) - In(h, S)
  <2>1. Times(<<a, b, c, d, e>>, S) = In(a, S) + In(b, S) + In(c, S) + In(d, S) + In(e, S)
    BY TimesFive
  <2>2. PICK fs : fs = <<a, b, c, d, e>>
    OBVIOUS
  <2>3. /\ Total(S)' = Total(S) + Times(fs, S) - (IF stack[t] = <<>> THEN 0 ELSE In(Head(stack[t]), S))
        /\ Total(S) \in Nat
    BY <1>0, <1>2, <2>2, Deltas
  <2>4. \A x : In(x, S) \in Nat
    BY DEF In
  <2>5. Times(fs, S) = In(a, S) + In(b, S) + In(c, S) + In(d, S) + In(e, S)
    BY <2>1, <2>2
  <2>6. Total(S)' = Total(S) + Times(fs, S) - In(h, S)
    BY <2>3
  <2>7. PICK q, r, p : q = Total(S)' /\ r = Times(fs, S) /\ p = Total(S)
    OBVIOUS
  <2>8. p \in Nat /\ q = p + r - In(h, S) /\ r = In(a, S) + In(b, S) + In(c, S) + In(d, S) + In(e, S)
    BY <2>3, <2>5, <2>6, <2>7
  <2>9. q = p + In(a, S) + In(b, S) + In(c, S) + In(d, S) + In(e, S) - In(h, S)
    BY ONLY <2>4, <2>8
  <2> QED BY <2>7, <2>9
<1>4. \A n \in Nss : tH(n)' = tH(n) + hH(a, n) + hH(b, n) + hH(c, n) + hH(d, n) + hH(e, n) - hH(h, n)
  BY <1>1, <1>3, InWeights DEF tH
<1>5. \A n \in Nss : tK(n)' = tK(n) + hK(a, n) + hK(b, n) + hK(c, n) + hK(d, n) + hK(e, n) - hK(h, n)
  BY <1>1, <1>3, InWeights DEF tK
<1>6. \A n \in Nss : tP(n)' = tP(n) + hP(a, n) + hP(b, n) + hP(c, n) + hP(d, n) + hP(e, n) - hP(h, n)
  BY <1>1, <1>3, InWeights DEF tP
<1>7. \A n \in Sbs : tM(n)' = tM(n) + hM(a, n) + hM(b, n) + hM(c, n) + hM(d, n) + hM(e, n) - hM(h, n)
  BY <1>1, <1>3, InWeights DEF tM
<1>8. \A n \in Sbs : tX(n)' = tX(n) + hX(a, n) + hX(b, n) + hX(c, n) + hX(d, n) + hX(e, n) - hX(h, n)
  BY <1>1, <1>3, InWeights DEF tX
<1>9. \A n \in Queues : tO(n)' = tO(n) + hO(a, n) + hO(b, n) + hO(c, n) + hO(d, n) + hO(e, n) - hO(h, n)
  BY <1>1, <1>3, InWeights DEF tO
<1>10. \A n \in Nss : tC(n)' = tC(n) + hC(a, n) + hC(b, n) + hC(c, n) + hC(d, n) + hC(e, n) - hC(h, n)
  BY <1>1, <1>3, InWeights DEF tC
<1> QED BY <1>4, <1>5, <1>6, <1>7, <1>8, <1>9, <1>10

(* A call pushes one frame.                                                *)
LEMMA Call1 ==
    ASSUME TypeInv, ShapeInv, NEW t \in Threads, NEW a \in FrameSet, ArgsOK(t, a),
           Moves(t, <<a>>), stack[t] = <<>>
    PROVE  /\ \A n \in Nss : tH(n)' = tH(n) + hH(a, n)
           /\ \A n \in Nss : tK(n)' = tK(n) + hK(a, n)
           /\ \A n \in Nss : tP(n)' = tP(n) + hP(a, n)
           /\ \A n \in Sbs : tM(n)' = tM(n) + hM(a, n)
           /\ \A n \in Sbs : tX(n)' = tX(n) + hX(a, n)
           /\ \A n \in Queues : tO(n)' = tO(n) + hO(a, n)
           /\ \A n \in Nss : tC(n)' = tC(n) + hC(a, n)
<1>0. stack \in [Threads -> Seq(FrameSet)]
  BY DEF TypeInv
<1>2. <<a>> \in Seq(FrameSet)
  OBVIOUS
<1>3. ASSUME NEW S
      PROVE  Total(S)' = Total(S) + In(a, S)
  <2>1. Times(<<a>>, S) = In(a, S)
    BY TimesOneFrame
  <2>2. PICK fs : fs = <<a>>
    OBVIOUS
  <2>3. /\ Total(S)' = Total(S) + Times(fs, S) - (IF stack[t] = <<>> THEN 0 ELSE In(Head(stack[t]), S))
        /\ Total(S) \in Nat
    BY <1>0, <1>2, <2>2, Deltas
  <2>4. \A x : In(x, S) \in Nat
    BY DEF In
  <2> QED BY <2>1, <2>2, <2>3, <2>4
<1>4. \A n \in Nss : tH(n)' = tH(n) + hH(a, n)
  BY <1>3, InWeights DEF tH
<1>5. \A n \in Nss : tK(n)' = tK(n) + hK(a, n)
  BY <1>3, InWeights DEF tK
<1>6. \A n \in Nss : tP(n)' = tP(n) + hP(a, n)
  BY <1>3, InWeights DEF tP
<1>7. \A n \in Sbs : tM(n)' = tM(n) + hM(a, n)
  BY <1>3, InWeights DEF tM
<1>8. \A n \in Sbs : tX(n)' = tX(n) + hX(a, n)
  BY <1>3, InWeights DEF tX
<1>9. \A n \in Queues : tO(n)' = tO(n) + hO(a, n)
  BY <1>3, InWeights DEF tO
<1>10. \A n \in Nss : tC(n)' = tC(n) + hC(a, n)
  BY <1>3, InWeights DEF tC
<1> QED BY <1>4, <1>5, <1>6, <1>7, <1>8, <1>9, <1>10

(* A call pushes two frames.                                               *)
LEMMA Call2 ==
    ASSUME TypeInv, ShapeInv, NEW t \in Threads, NEW a \in FrameSet, ArgsOK(t, a), NEW b \in FrameSet, ArgsOK(t, b),
           Moves(t, <<a, b>>), stack[t] = <<>>
    PROVE  /\ \A n \in Nss : tH(n)' = tH(n) + hH(a, n) + hH(b, n)
           /\ \A n \in Nss : tK(n)' = tK(n) + hK(a, n) + hK(b, n)
           /\ \A n \in Nss : tP(n)' = tP(n) + hP(a, n) + hP(b, n)
           /\ \A n \in Sbs : tM(n)' = tM(n) + hM(a, n) + hM(b, n)
           /\ \A n \in Sbs : tX(n)' = tX(n) + hX(a, n) + hX(b, n)
           /\ \A n \in Queues : tO(n)' = tO(n) + hO(a, n) + hO(b, n)
           /\ \A n \in Nss : tC(n)' = tC(n) + hC(a, n) + hC(b, n)
<1>0. stack \in [Threads -> Seq(FrameSet)]
  BY DEF TypeInv
<1>2. <<a, b>> \in Seq(FrameSet)
  OBVIOUS
<1>3. ASSUME NEW S
      PROVE  Total(S)' = Total(S) + In(a, S) + In(b, S)
  <2>1. Times(<<a, b>>, S) = In(a, S) + In(b, S)
    BY TimesTwo
  <2>2. PICK fs : fs = <<a, b>>
    OBVIOUS
  <2>3. /\ Total(S)' = Total(S) + Times(fs, S) - (IF stack[t] = <<>> THEN 0 ELSE In(Head(stack[t]), S))
        /\ Total(S) \in Nat
    BY <1>0, <1>2, <2>2, Deltas
  <2>4. \A x : In(x, S) \in Nat
    BY DEF In
  <2> QED BY <2>1, <2>2, <2>3, <2>4
<1>4. \A n \in Nss : tH(n)' = tH(n) + hH(a, n) + hH(b, n)
  BY <1>3, InWeights DEF tH
<1>5. \A n \in Nss : tK(n)' = tK(n) + hK(a, n) + hK(b, n)
  BY <1>3, InWeights DEF tK
<1>6. \A n \in Nss : tP(n)' = tP(n) + hP(a, n) + hP(b, n)
  BY <1>3, InWeights DEF tP
<1>7. \A n \in Sbs : tM(n)' = tM(n) + hM(a, n) + hM(b, n)
  BY <1>3, InWeights DEF tM
<1>8. \A n \in Sbs : tX(n)' = tX(n) + hX(a, n) + hX(b, n)
  BY <1>3, InWeights DEF tX
<1>9. \A n \in Queues : tO(n)' = tO(n) + hO(a, n) + hO(b, n)
  BY <1>3, InWeights DEF tO
<1>10. \A n \in Nss : tC(n)' = tC(n) + hC(a, n) + hC(b, n)
  BY <1>3, InWeights DEF tC
<1> QED BY <1>4, <1>5, <1>6, <1>7, <1>8, <1>9, <1>10

(* A call pushes five frames.                                              *)
LEMMA Call5 ==
    ASSUME TypeInv, ShapeInv, NEW t \in Threads, NEW a \in FrameSet, ArgsOK(t, a), NEW b \in FrameSet, ArgsOK(t, b), NEW c \in FrameSet, ArgsOK(t, c), NEW d \in FrameSet, ArgsOK(t, d), NEW e \in FrameSet, ArgsOK(t, e),
           Moves(t, <<a, b, c, d, e>>), stack[t] = <<>>
    PROVE  /\ \A n \in Nss : tH(n)' = tH(n) + hH(a, n) + hH(b, n) + hH(c, n) + hH(d, n) + hH(e, n)
           /\ \A n \in Nss : tK(n)' = tK(n) + hK(a, n) + hK(b, n) + hK(c, n) + hK(d, n) + hK(e, n)
           /\ \A n \in Nss : tP(n)' = tP(n) + hP(a, n) + hP(b, n) + hP(c, n) + hP(d, n) + hP(e, n)
           /\ \A n \in Sbs : tM(n)' = tM(n) + hM(a, n) + hM(b, n) + hM(c, n) + hM(d, n) + hM(e, n)
           /\ \A n \in Sbs : tX(n)' = tX(n) + hX(a, n) + hX(b, n) + hX(c, n) + hX(d, n) + hX(e, n)
           /\ \A n \in Queues : tO(n)' = tO(n) + hO(a, n) + hO(b, n) + hO(c, n) + hO(d, n) + hO(e, n)
           /\ \A n \in Nss : tC(n)' = tC(n) + hC(a, n) + hC(b, n) + hC(c, n) + hC(d, n) + hC(e, n)
<1>0. stack \in [Threads -> Seq(FrameSet)]
  BY DEF TypeInv
<1>2. <<a, b, c, d, e>> \in Seq(FrameSet)
  OBVIOUS
<1>3. ASSUME NEW S
      PROVE  Total(S)' = Total(S) + In(a, S) + In(b, S) + In(c, S) + In(d, S) + In(e, S)
  <2>1. Times(<<a, b, c, d, e>>, S) = In(a, S) + In(b, S) + In(c, S) + In(d, S) + In(e, S)
    BY TimesFive
  <2>2. PICK fs : fs = <<a, b, c, d, e>>
    OBVIOUS
  <2>3. /\ Total(S)' = Total(S) + Times(fs, S) - (IF stack[t] = <<>> THEN 0 ELSE In(Head(stack[t]), S))
        /\ Total(S) \in Nat
    BY <1>0, <1>2, <2>2, Deltas
  <2>4. \A x : In(x, S) \in Nat
    BY DEF In
  <2>5. Times(fs, S) = In(a, S) + In(b, S) + In(c, S) + In(d, S) + In(e, S)
    BY <2>1, <2>2
  <2> QED BY <2>3, <2>4, <2>5
<1>4. \A n \in Nss : tH(n)' = tH(n) + hH(a, n) + hH(b, n) + hH(c, n) + hH(d, n) + hH(e, n)
  BY <1>3, InWeights DEF tH
<1>5. \A n \in Nss : tK(n)' = tK(n) + hK(a, n) + hK(b, n) + hK(c, n) + hK(d, n) + hK(e, n)
  BY <1>3, InWeights DEF tK
<1>6. \A n \in Nss : tP(n)' = tP(n) + hP(a, n) + hP(b, n) + hP(c, n) + hP(d, n) + hP(e, n)
  BY <1>3, InWeights DEF tP
<1>7. \A n \in Sbs : tM(n)' = tM(n) + hM(a, n) + hM(b, n) + hM(c, n) + hM(d, n) + hM(e, n)
  BY <1>3, InWeights DEF tM
<1>8. \A n \in Sbs : tX(n)' = tX(n) + hX(a, n) + hX(b, n) + hX(c, n) + hX(d, n) + hX(e, n)
  BY <1>3, InWeights DEF tX
<1>9. \A n \in Queues : tO(n)' = tO(n) + hO(a, n) + hO(b, n) + hO(c, n) + hO(d, n) + hO(e, n)
  BY <1>3, InWeights DEF tO
<1>10. \A n \in Nss : tC(n)' = tC(n) + hC(a, n) + hC(b, n) + hC(c, n) + hC(d, n) + hC(e, n)
  BY <1>3, InWeights DEF tC
<1> QED BY <1>4, <1>5, <1>6, <1>7, <1>8, <1>9, <1>10

-----------------------------------------------------------------------------
(* The invariants, in the names of the counts.                             *)
nT(n) == Cardinality({t \in Tasks : nsproxy[t] = n})
nQ(n) == Cardinality({q \in Queues : inode[q] # NoQueue /\ inode[q].sb = mq_mnt[n]
                                       /\ inode[q].user # NoUser})
nU(u) == Cardinality({q \in Queues : inode[q] # NoQueue /\ inode[q].user = u})

LifeT ==
    /\ \A n \in Nss : tK(n) = IF n \in alive /\ count[n] = 0 THEN 1 ELSE 0
    /\ \A n \in Nss : tP(n) = IF n \in alive /\ count[n] = 0 /\ mq_mnt[n] # NoSb THEN 1 ELSE 0
RefT ==
    /\ \A n \in Nss : count[n] = nT(n) + tH(n) + (IF n = init_ipc_ns THEN 1 ELSE 0)
    /\ \A n \in Nss : count[n] > 0 => n \in alive
MountT ==
    /\ \A n \in Nss : count[n] > 0 => mq_mnt[n] \in Sbs /\ s_fs_info[mq_mnt[n]] = n
    /\ \A n \in Nss \ alive : mq_mnt[n] = NoSb
    /\ \A s \in Sbs : s_fs_info[s] \in Nss =>
         count[s_fs_info[s]] > 0 /\ mq_mnt[s_fs_info[s]] = s
    /\ \A s \in Sbs : s_fs_info[s] = NoSb => MntRefs(s) = 0
    /\ \A s \in Sbs : tX(s) = IF s_fs_info[s] # NoSb /\ MntRefs(s) = 0 THEN 1 ELSE 0
QueueT ==
    /\ \A q \in Queues : inode[q] = NoQueue => tO(q) = 0
    /\ \A q \in Queues : inode[q] # NoQueue =>
         /\ tO(q) \in {0, 1}
         /\ tO(q) = 0 => inode[q].link \/ inode[q].fds # {}
         /\ tO(q) = 1 /\ (inode[q].link \/ inode[q].fds # {}) => tX(inode[q].sb) = 1
         /\ s_fs_info[inode[q].sb] # NoSb
CountedT ==
    /\ \A n \in alive : count[n] > 0 =>
         mq_queues_count[n] = nQ(n) + tC(n)
    /\ \A u \in Users : mq_bytes[u] = nU(u)

(* The parts of the invariant about references, in terms of the counts of  *)
(* frames; before a step and after it.                                     *)
LEMMA Restated ==
    /\ (LifeInv => LifeT) /\ (LifeT' => LifeInv')
    /\ (RefCount => RefT) /\ (RefT' => RefCount')
    /\ (MountInv => MountT) /\ (MountT' => MountInv')
    /\ (QueueInv => QueueT) /\ (QueueT' => QueueInv')
    /\ (QueueCounts => CountedT) /\ (CountedT' => QueueCounts')
<1>1. (LifeInv => LifeT) /\ (LifeT' => LifeInv')
  BY DEF LifeInv, LifeT, tK, tP
<1>2. (RefCount => RefT) /\ (RefT' => RefCount')
  BY DEF RefCount, RefT, tH, nT
<1>3. (MountInv => MountT) /\ (MountT' => MountInv')
  BY DEF MountInv, MountT, tX
<1>4. (QueueInv => QueueT) /\ (QueueT' => QueueInv')
  BY DEF QueueInv, QueueT, tO, tX
<1>5. (QueueCounts => CountedT) /\ (CountedT' => QueueCounts')
  BY DEF QueueCounts, CountedT, tC, nQ, nU
<1> QED BY <1>1, <1>2, <1>3, <1>4, <1>5

(* What a step starts from.                                                *)
LEMMA Before ==
    ASSUME IInv
    PROVE  /\ TypeInv /\ ShapeInv /\ RefInv /\ stack \in [Threads -> Seq(FrameSet)]
           /\ LifeT /\ RefT /\ MountT /\ QueueT /\ CountedT /\ CountsNat
           /\ OwnerInv /\ CallInv
<1>1. TypeInv /\ ShapeInv /\ RefInv /\ stack \in [Threads -> Seq(FrameSet)]
  BY DEF IInv, RefInv, TypeInv
<1>2. CountsNat
  BY <1>1, CountsAre
<1> QED BY <1>1, <1>2, Restated DEF RefInv

(* What it has to arrive at.                                               *)
LEMMA Behind ==
    ASSUME LifeT', RefT', MountT', QueueT', OwnerInv', CallInv', CountedT'
    PROVE  RefInv'
    BY Restated DEF RefInv

(* The same counts in the other names.                                     *)
LEMMA SameCounts ==
    /\ (\A n \in Nss : tH(n)' = tH(n)) <=> HSame
    /\ (\A n \in Nss : tK(n)' = tK(n)) <=> KSame
    /\ (\A n \in Nss : tP(n)' = tP(n)) <=> PSame
    /\ (\A s \in Sbs : tM(s)' = tM(s)) <=> MSame
    /\ (\A s \in Sbs : tX(s)' = tX(s)) <=> XSame
    /\ (\A q \in Queues : tO(q)' = tO(q)) <=> OSame
    /\ (\A n \in Nss : tC(n)' = tC(n)) <=> CSame
    BY DEF HSame, KSame, PSame, MSame, XSame, OSame, CSame, tH, tK, tP, tM, tX, tO, tC

(* Nobody to own a queue is pushed, and no queue goes to another place.    *)
LEMMA OwnersStay ==
    ASSUME TypeInv, OwnerInv, NEW t \in Threads, NEW fs \in Seq(FrameSet), Moves(t, fs),
           \A i \in 1 .. Len(fs) : fs[i].at \notin {"delete", "release", "instantiate"},
           \A q \in Queues : inode'[q].sb = inode[q].sb
    PROVE  OwnerInv'
<1>1. \A i \in 1 .. Len(fs) : \A q \in Queues : fs[i] \notin Owners(q)
  BY DEF Owners
<1>2. stack \in [Threads -> Seq(FrameSet)]
  BY DEF TypeInv
<1> QED BY <1>1, <1>2, OwnerStep

(* No call of the file system gets anything, or loses it.                  *)
LEMMA CallsStay ==
    ASSUME TypeInv, CallInv, NEW t \in Threads, NEW fs \in Seq(FrameSet), Moves(t, fs),
           \A i \in 1 .. Len(fs) : fs[i].at \notin {"inode", "release", "instantiate"},
           inode' = inode, s_fs_info' = s_fs_info
    PROVE  CallInv'
<1>1. \A i \in 1 .. Len(fs) : CallOK(fs[i])'
  BY DEF CallOK
<1>2. \A f : CallOK(f) => CallOK(f)'
  BY DEF CallOK
<1>3. stack \in [Threads -> Seq(FrameSet)]
  BY DEF TypeInv
<1> QED BY <1>1, <1>2, <1>3, CallStep

(* A task goes from one namespace to another, or to none.                  *)
LEMMA TasksMove ==
    ASSUME TypeInv, NEW t \in Tasks, NEW v, nsproxy' = [nsproxy EXCEPT ![t] = v]
    PROVE  \A x \in Nss : /\ nT(x) \in Nat /\ nT(x)' \in Nat
                          /\ nT(x)' = nT(x) + (IF x = v THEN 1 ELSE 0) - (IF x = nsproxy[t] THEN 1 ELSE 0)
<1> SUFFICES ASSUME NEW x \in Nss
             PROVE  /\ nT(x) \in Nat /\ nT(x)' \in Nat
                    /\ nT(x)' = nT(x) + (IF x = v THEN 1 ELSE 0) - (IF x = nsproxy[t] THEN 1 ELSE 0)
  OBVIOUS
<1>1. PICK A, B : A = {u \in Tasks : nsproxy[u] = x} /\ B = {u \in Tasks : nsproxy'[u] = x}
  OBVIOUS
<1>2. /\ A \in SUBSET Tasks /\ B \in SUBSET Tasks
      /\ \A u \in Tasks : u # t => (u \in A <=> u \in B)
      /\ t \in A <=> x = nsproxy[t]
      /\ t \in B <=> x = v
  BY <1>1 DEF TypeInv
<1>3. /\ Cardinality(A) \in Nat /\ Cardinality(B) \in Nat
      /\ Cardinality(B) = Cardinality(A) + (IF t \in B THEN 1 ELSE 0) - (IF t \in A THEN 1 ELSE 0)
  BY <1>2, NsConstants, CardChange
<1>4. nT(x) = Cardinality(A) /\ nT(x)' = Cardinality(B)
  BY <1>1 DEF nT
<1> QED BY <1>2, <1>3, <1>4

(* A task goes over to its new namespace: the reference of the creation    *)
(* becomes its own, and its old one that of the frame.                     *)
LEMMA Ref_switch ==
    ASSUME IInv, NEW t \in Threads, switch(t), may' = may
    PROVE  RefInv'
<1>0. /\ TypeInv /\ ShapeInv /\ RefInv /\ stack \in [Threads -> Seq(FrameSet)]
      /\ LifeT /\ RefT /\ MountT /\ QueueT /\ CountedT /\ CountsNat /\ OwnerInv /\ CallInv
  BY Before
<1>1. Ends(t, <<Frame("put", nsproxy[t])>>)
  BY After_switch
<1>2. stack[t] # <<>> /\ At(t, "switch") /\ UNCHANGED <<alive, count, mq_mnt, s_fs_info, usermnt, inode, mq_queues_count, mq_bytes>>
  BY DEF switch, At, sbv, queuev
<1>3. PICK h, a, n, m : h = Head(stack[t]) /\ n = Arg(t) /\ m = nsproxy[t] /\ a = Frame("put", m)
  OBVIOUS
<1>4. /\ h \in FrameSet /\ ArgsOK(t, h) /\ h.at = "switch" /\ h.of = n /\ n \in Nss /\ h \in Frames(t)
      /\ t \in Tasks
  BY <1>0, <1>2, <1>3, HeadFacts, TaskRuns DEF At, Arg, ArgsOK, NsLabels
<1>5. m \in Nss /\ n # m
  BY <1>0, <1>3, <1>4 DEF IInv, TaskInv, TypeInv
<1>6. a \in FrameSet /\ ArgsOK(t, a) /\ a.at = "put" /\ a.of = m
  BY <1>3, <1>4, <1>5, PlainFrames DEF NsLabels
<1>7. Moves(t, <<a>>) /\ TypeInv' /\ <<a>> \in Seq(FrameSet)
  BY <1>1, <1>3 DEF Ends
<1>8. /\ \A x \in Nss : tH(x)' = tH(x) + hH(a, x) - hH(h, x)
      /\ \A x \in Nss : tK(x)' = tK(x) /\ tP(x)' = tP(x) /\ tC(x)' = tC(x)
      /\ \A s \in Sbs : tM(s)' = tM(s) /\ tX(s)' = tX(s)
      /\ \A q \in Queues : tO(q)' = tO(q)
    <2>1. /\ \A x : hK(a, x) = 0 /\ hP(a, x) = 0 /\ hM(a, x) = 0 /\ hX(a, x) = 0 /\ hO(a, x) = 0 /\ hC(a, x) = 0
          /\ \A x : hK(h, x) = 0 /\ hP(h, x) = 0 /\ hM(h, x) = 0 /\ hX(h, x) = 0 /\ hO(h, x) = 0 /\ hC(h, x) = 0
        BY <1>4, <1>6 DEF hK, hP, hM, hX, hO, hC
    <2> QED BY <1>0, <1>2, <1>3, <1>4, <1>6, <1>7, <2>1, Pop1 DEF CountsNat
<1>10. KSame /\ PSame /\ MSame /\ XSame /\ OSame /\ CSame
  BY <1>8, SameCounts
<1>11. LifeInv'
  BY <1>0, <1>2, <1>10, LifeSame DEF RefInv
<1>12. RefT'
  <2> SUFFICES ASSUME NEW x \in Nss
               PROVE  /\ count'[x] = nT(x)' + tH(x)' + (IF x = init_ipc_ns THEN 1 ELSE 0)
                      /\ count'[x] > 0 => x \in alive'
    BY DEF RefT
  <2>1. nT(x)' = nT(x) + (IF x = n THEN 1 ELSE 0) - (IF x = m THEN 1 ELSE 0) /\ nT(x) \in Nat
    <3>1. nsproxy' = [nsproxy EXCEPT ![t] = n]
        BY <1>3 DEF switch
    <3> QED BY <1>0, <1>3, <1>4, <3>1, TasksMove
  <2>6. tH(x)' = tH(x) + (IF x = m THEN 1 ELSE 0) - (IF x = n THEN 1 ELSE 0) /\ tH(x) \in Nat
    BY <1>0, <1>4, <1>6, <1>8 DEF hH, CountsNat
  <2>7. count[x] = nT(x) + tH(x) + (IF x = init_ipc_ns THEN 1 ELSE 0)
    BY <1>0 DEF RefT
  <2>8. count' = count /\ alive' = alive /\ (count[x] > 0 => x \in alive)
    BY <1>0, <1>2 DEF RefT
  <2>9. PICK i : i = IF x = init_ipc_ns THEN 1 ELSE 0
    OBVIOUS
  <2>10. nT(x)' + tH(x)' + i = nT(x) + tH(x) + i
    BY <2>1, <2>6, <2>9
  <2> QED BY <2>7, <2>8, <2>9, <2>10
<1>13. MountInv'
  BY <1>0, <1>2, <1>10, RefsSame, MountSame DEF RefInv
<1>14. QueueInv' /\ QueueCounts'
  BY <1>0, <1>2, <1>10, QueueSame, CountedSame DEF RefInv, TypeInv
<1>15. \A i \in 1 .. Len(<<a>>) : <<a>>[i].at = "put"
  BY <1>6
<1>16. OwnerInv' /\ CallInv'
  <2>1. PICK fs : fs = <<a>>
    OBVIOUS
  <2> QED BY <1>0, <1>2, <1>7, <1>15, <2>1, OwnersStay, CallsStay
<1> QED BY <1>11, <1>12, <1>13, <1>14, <1>16, Restated DEF RefInv

-----------------------------------------------------------------------------
(* Mounts, queues and the references to both, when one of them changes.    *)

(* The references to the mounts of every super block, by their kinds.      *)
RefsAdd ==
    \A s \in Sbs :
        /\ MntRefs(s) = OwnMounts(s) + UserMount(s) + Fds(s) + tM(s)
        /\ OwnMounts(s) \in Nat /\ UserMount(s) \in Nat /\ Fds(s) \in Nat /\ tM(s) \in Nat
        /\ UserMount(s) = (IF s \in usermnt THEN 1 ELSE 0)
        /\ MntRefs(s) \in Nat

(* The references to a super block are the sum of those of namespaces,     *)
(* user mounts, open files and frames.                                     *)
LEMMA RefsAre ==
    ASSUME TypeInv
    PROVE  RefsAdd
<1> SUFFICES ASSUME NEW s \in Sbs
             PROVE  /\ MntRefs(s) = OwnMounts(s) + UserMount(s) + Fds(s) + tM(s)
                    /\ OwnMounts(s) \in Nat /\ UserMount(s) \in Nat /\ Fds(s) \in Nat /\ tM(s) \in Nat
                    /\ UserMount(s) = (IF s \in usermnt THEN 1 ELSE 0)
                    /\ MntRefs(s) \in Nat
  BY DEF RefsAdd
<1>1. /\ MntRefs(s) = OwnMounts(s) + UserMount(s) + Fds(s) + tM(s)
      /\ OwnMounts(s) \in Nat /\ UserMount(s) = (IF s \in usermnt THEN 1 ELSE 0)
      /\ Fds(s) \in Nat /\ tM(s) \in Nat
  BY MntRefsSum DEF tM
<1> QED BY <1>1

(* Only frames come or go.                                                 *)
LEMMA FrameRefs ==
    ASSUME TypeInv, TypeInv', UNCHANGED <<mq_mnt, usermnt, inode>>
    PROVE  \A s \in Sbs : /\ MntRefs(s)' = MntRefs(s) + tM(s)' - tM(s)
                          /\ MntRefs(s) \in Nat /\ MntRefs(s)' \in Nat /\ tM(s) \in Nat /\ tM(s)' \in Nat
<1>1. RefsAdd /\ RefsAdd'
  BY RefsAre, PTL
<1>2. \A s : OwnMounts(s)' = OwnMounts(s) /\ UserMount(s)' = UserMount(s) /\ Fds(s)' = Fds(s)
  BY DEF OwnMounts, UserMount, Fds, FdsOf
<1> QED BY <1>1, <1>2 DEF RefsAdd

(* The mount of one namespace changes.                                     *)
LEMMA MountsChange ==
    ASSUME TypeInv, NEW n \in Nss, NEW v, mq_mnt' = [mq_mnt EXCEPT ![n] = v]
    PROVE  \A s \in Sbs : OwnMounts(s)' = OwnMounts(s) + (IF s = v THEN 1 ELSE 0)
                                            - (IF s = mq_mnt[n] THEN 1 ELSE 0)
<1> SUFFICES ASSUME NEW s \in Sbs
             PROVE  OwnMounts(s)' = OwnMounts(s) + (IF s = v THEN 1 ELSE 0)
                                            - (IF s = mq_mnt[n] THEN 1 ELSE 0)
  OBVIOUS
<1>1. PICK A, B : A = {x \in Nss : mq_mnt[x] = s} /\ B = {x \in Nss : mq_mnt'[x] = s}
  OBVIOUS
<1>2. /\ A \in SUBSET Nss /\ B \in SUBSET Nss
      /\ \A x \in Nss : x # n => (x \in A <=> x \in B)
      /\ n \in A <=> s = mq_mnt[n]
      /\ n \in B <=> s = v
  BY <1>1 DEF TypeInv
<1>9. IsFiniteSet(Nss)
  BY NsConstants
<1>3. Cardinality(B) = Cardinality(A) + (IF n \in B THEN 1 ELSE 0) - (IF n \in A THEN 1 ELSE 0)
  BY <1>2, <1>9, CardChange
<1>4. OwnMounts(s) = Cardinality(A) /\ OwnMounts(s)' = Cardinality(B)
  BY <1>1 DEF OwnMounts
<1> QED BY <1>2, <1>3, <1>4

(* What a queue counts for: the queues of a namespace, of a user.          *)
cQ(q, n) == IF inode[q] # NoQueue /\ inode[q].sb = mq_mnt[n] /\ inode[q].user # NoUser THEN 1 ELSE 0
cU(q, u) == IF inode[q] # NoQueue /\ inode[q].user = u THEN 1 ELSE 0

(* One queue changes.                                                      *)
LEMMA QueuesChange ==
    ASSUME NEW p \in Queues, \A q \in Queues : q # p => inode'[q] = inode[q], mq_mnt' = mq_mnt
    PROVE  /\ \A n \in Nss : nQ(n)' = nQ(n) + cQ(p, n)' - cQ(p, n) /\ nQ(n) \in Nat /\ nQ(n)' \in Nat
           /\ \A u \in Users : nU(u)' = nU(u) + cU(p, u)' - cU(p, u) /\ nU(u) \in Nat /\ nU(u)' \in Nat
<1>1. ASSUME NEW n \in Nss
      PROVE  nQ(n)' = nQ(n) + cQ(p, n)' - cQ(p, n) /\ nQ(n) \in Nat /\ nQ(n)' \in Nat
  <2>1. PICK A, B : /\ A = {q \in Queues : inode[q] # NoQueue /\ inode[q].sb = mq_mnt[n]
                                             /\ inode[q].user # NoUser}
                    /\ B = {q \in Queues : inode'[q] # NoQueue /\ inode'[q].sb = mq_mnt'[n]
                                             /\ inode'[q].user # NoUser}
    OBVIOUS
  <2>2. /\ A \in SUBSET Queues /\ B \in SUBSET Queues
        /\ \A q \in Queues : q # p => (q \in A <=> q \in B)
    BY <2>1
  <2>3. cQ(p, n) = (IF p \in A THEN 1 ELSE 0) /\ cQ(p, n)' = (IF p \in B THEN 1 ELSE 0)
    BY <2>1 DEF cQ
  <2>9. IsFiniteSet(Queues)
    BY NsConstants
  <2>4. /\ Cardinality(A) \in Nat /\ Cardinality(B) \in Nat
        /\ Cardinality(B) = Cardinality(A) + (IF p \in B THEN 1 ELSE 0) - (IF p \in A THEN 1 ELSE 0)
    BY <2>2, <2>9, CardChange
  <2>5. nQ(n) = Cardinality(A) /\ nQ(n)' = Cardinality(B)
    BY <2>1 DEF nQ
  <2> QED BY <2>3, <2>4, <2>5
<1>2. ASSUME NEW u \in Users
      PROVE  nU(u)' = nU(u) + cU(p, u)' - cU(p, u) /\ nU(u) \in Nat /\ nU(u)' \in Nat
  <2>1. PICK A, B : /\ A = {q \in Queues : inode[q] # NoQueue /\ inode[q].user = u}
                    /\ B = {q \in Queues : inode'[q] # NoQueue /\ inode'[q].user = u}
    OBVIOUS
  <2>2. /\ A \in SUBSET Queues /\ B \in SUBSET Queues
        /\ \A q \in Queues : q # p => (q \in A <=> q \in B)
    BY <2>1
  <2>3. cU(p, u) = (IF p \in A THEN 1 ELSE 0) /\ cU(p, u)' = (IF p \in B THEN 1 ELSE 0)
    BY <2>1 DEF cU
  <2>9. IsFiniteSet(Queues)
    BY NsConstants
  <2>4. /\ Cardinality(A) \in Nat /\ Cardinality(B) \in Nat
        /\ Cardinality(B) = Cardinality(A) + (IF p \in B THEN 1 ELSE 0) - (IF p \in A THEN 1 ELSE 0)
    BY <2>2, <2>9, CardChange
  <2>5. nU(u) = Cardinality(A) /\ nU(u)' = Cardinality(B)
    BY <2>1 DEF nU
  <2> QED BY <2>3, <2>4, <2>5
<1> QED BY <1>1, <1>2

-----------------------------------------------------------------------------
(* Counts of references that only move.                                    *)
ZeroSame == \A x \in Nss : (count'[x] = 0 <=> count[x] = 0) /\ (count'[x] > 0 <=> count[x] > 0)
RZero == \A s \in Sbs : MntRefs(s)' = 0 <=> MntRefs(s) = 0

(* What is known of the life of a namespace survives when no count reaches *)
(* or leaves zero.                                                         *)
LEMMA LifeKept ==
    ASSUME LifeT, ZeroSame, UNCHANGED <<alive, mq_mnt>>,
           \A x \in Nss : tK(x)' = tK(x) /\ tP(x)' = tP(x)
    PROVE  LifeT'
    BY DEF LifeT, ZeroSame

(* The same for the mounts.                                                *)
LEMMA MountKept ==
    ASSUME MountT, TypeInv, ZeroSame, RZero, UNCHANGED <<alive, mq_mnt, s_fs_info>>,
           \A s \in Sbs : tX(s)' = tX(s)
    PROVE  MountT'
<1>1. /\ \A n \in Nss : count'[n] > 0 => mq_mnt'[n] \in Sbs /\ s_fs_info'[mq_mnt'[n]] = n
      /\ \A n \in Nss \ alive' : mq_mnt'[n] = NoSb
  BY DEF MountT, ZeroSame
<1>2. \A s \in Sbs : s_fs_info'[s] \in Nss => count'[s_fs_info'[s]] > 0 /\ mq_mnt'[s_fs_info'[s]] = s
  BY DEF MountT, ZeroSame
<1>3. /\ \A s \in Sbs : s_fs_info'[s] = NoSb => MntRefs(s)' = 0
      /\ \A s \in Sbs : tX(s)' = IF s_fs_info'[s] # NoSb /\ MntRefs(s)' = 0 THEN 1 ELSE 0
  BY DEF MountT, RZero
<1> QED BY <1>1, <1>2, <1>3 DEF MountT

(* The same for the queues.                                                *)
LEMMA QueueKept ==
    ASSUME QueueT, TypeInv, inode' = inode,
           \A s \in Sbs : s_fs_info'[s] = NoSb <=> s_fs_info[s] = NoSb,
           \A s \in Sbs : tX(s) = 1 => tX(s)' = 1, \A q \in Queues : tO(q)' = tO(q)
    PROVE  QueueT'
<1>1. \A q \in Queues : inode[q] # NoQueue => inode[q].sb \in Sbs
  BY DEF TypeInv, QueueRecord
<1> QED BY <1>1 DEF QueueT

(* The same for the counts of queues.                                      *)
LEMMA CountedKept ==
    ASSUME CountedT, TypeInv, ZeroSame, UNCHANGED <<alive, mq_mnt, inode, mq_queues_count, mq_bytes>>,
           \A x \in Nss : tC(x)' = tC(x)
    PROVE  CountedT'
<1>1. \A x : nQ(x)' = nQ(x) /\ nU(x)' = nU(x)
  BY DEF nQ, nU
<1>2. alive \subseteq Nss
  BY DEF TypeInv
<1> QED BY <1>1, <1>2 DEF CountedT, ZeroSame

(* A reference for a reference.                                            *)
LEMMA RefMoves ==
    ASSUME RefT, alive' = alive,
           \A x \in Nss : count'[x] \in Int /\ count[x] \in Int /\ nT(x) \in Int /\ tH(x) \in Int
                            /\ nT(x)' \in Int /\ tH(x)' \in Int,
           \A x \in Nss : count'[x] - count[x] = (nT(x)' - nT(x)) + (tH(x)' - tH(x)),
           \A x \in Nss : count'[x] > 0 => count[x] > 0
    PROVE  RefT'
<1>1. ASSUME NEW x \in Nss
      PROVE  count'[x] = nT(x)' + tH(x)' + (IF x = init_ipc_ns THEN 1 ELSE 0)
  <2>1. PICK i : i = IF x = init_ipc_ns THEN 1 ELSE 0
    OBVIOUS
  <2>2. i \in Int /\ count[x] = nT(x) + tH(x) + i
    BY <2>1 DEF RefT
  <2>3. count'[x] = nT(x)' + tH(x)' + i
    BY <2>2
  <2> QED BY <2>1, <2>3
<1> QED BY <1>1 DEF RefT

(* The tasks stay where they are.                                          *)
LEMMA TasksStay ==
    ASSUME nsproxy' = nsproxy
    PROVE  \A x : nT(x)' = nT(x)
    BY DEF nT

(* Finitely many tasks use a namespace.                                    *)
LEMMA TasksNat ==
    \A x : nT(x) \in Nat
<1> SUFFICES ASSUME NEW x PROVE nT(x) \in Nat
  OBVIOUS
<1>1. IsFiniteSet({t \in Tasks : nsproxy[t] = x})
  BY NsConstants, FS_Subset
<1> QED BY <1>1, FS_CardinalityType DEF nT

(* A queue with no owner counted has none.                                 *)
Unowned == \A q \in Queues : tO(q) = 0 => \A u \in Threads : \A f \in Frames(u) : f \notin Owners(q)
(* A queue of which no frame is counted is in no frame.                    *)
LEMMA NoOwners ==
    ASSUME TypeInv
    PROVE  Unowned
<1> SUFFICES ASSUME NEW q \in Queues, tO(q) = 0, NEW u \in Threads, NEW f \in Frames(u)
             PROVE  f \notin Owners(q)
  BY DEF Unowned
<1>1. PICK S : S = Owners(q)
  OBVIOUS
<1>2. f \in S => Total(S) > 0
  BY Counted DEF TypeInv
<1> QED BY <1>1, <1>2 DEF tO

(* The owner of a queue has one of its keepers below; what keeps a super   *)
(* block with a mount keeps it from being taken down.                      *)
LEMMA MntputRefs ==
    ASSUME TypeInv, NEW t \in Threads, NEW i \in DOMAIN stack[t], NEW s \in Sbs,
           Below(t, i, {Frame("mntput", s)})
    PROVE  MntRefs(s) > 0
<1>1. Frame("mntput", s) \in Frames(t)
  BY DEF Below, Frames
<1> QED BY <1>1, SbParts

(* Who can name the files of a super block refers to it.                   *)
LEMMA ReachRefs ==
    ASSUME TypeInv, NEW t \in Tasks, NEW s \in Sbs, Reaches(t, s)
    PROVE  MntRefs(s) > 0
<1>1. s \in usermnt \/ (nsproxy[t] \in Nss /\ mq_mnt[nsproxy[t]] = s)
  BY DEF Reaches, TypeInv
<1> QED BY <1>1, SbParts

(* Nobody else has a reference.                                            *)
LEMMA OneHolder ==
    ASSUME IInv, NEW t \in Threads, At(t, "put"), count[Arg(t)] = 1
    PROVE  \A u \in Threads : \A f \in Frames(u) : f \in Holders(Arg(t)) => f = Head(stack[t])
<1>0. TypeInv /\ ShapeInv /\ stack \in [Threads -> Seq(FrameSet)] /\ RefCount
  BY DEF IInv, TypeInv
<1>1. /\ stack[t] # <<>> /\ 1 \in DOMAIN stack[t] /\ Head(stack[t]) = stack[t][1]
      /\ Head(stack[t]).at = "put" /\ Head(stack[t]) \in FrameSet /\ ArgsOK(t, Head(stack[t]))
  BY <1>0, HeadFacts DEF At
<1>2. PICK n : n = Arg(t)
  OBVIOUS
<1>3. n \in Nss /\ count[n] = 1 /\ stack[t][1] \in Holders(n)
  BY <1>1, <1>2 DEF Arg, ArgsOK, NsLabels, Holders
<1>4. PICK S : S = Holders(n)
  OBVIOUS
<1>5. Total(S) \in Nat /\ Total(S) <= 1
  <2>1. Cardinality({x \in Tasks : nsproxy[x] = n}) \in Nat
    BY <1>0, <1>3, CountParts
  <2>2. Total(S) \in Nat
    BY <1>0, Counted
  <2>3. 1 = Cardinality({x \in Tasks : nsproxy[x] = n}) + Total(S) + (IF n = init_ipc_ns THEN 1 ELSE 0)
    BY <1>0, <1>3, <1>4 DEF RefCount
  <2> QED BY <2>1, <2>2, <2>3
<1> SUFFICES ASSUME NEW u \in Threads, NEW i \in DOMAIN stack[u], stack[u][i] \in S
             PROVE  stack[u][i] = stack[t][1]
  BY <1>1, <1>2, <1>4 DEF Frames
<1>6. u = t /\ i = 1
  BY <1>0, <1>1, <1>3, <1>4, <1>5, TotalPlaces
<1> QED BY <1>6

-----------------------------------------------------------------------------
(* References, mounts and queues, step by step.                            *)

(* A task leaves its namespace: its reference becomes that of the frame.   *)
LEMMA Ref_exit ==
    ASSUME IInv, NEW t \in Tasks, exit(t), may' = may
    PROVE  RefInv'
<1>0. /\ TypeInv /\ ShapeInv /\ RefInv /\ stack \in [Threads -> Seq(FrameSet)]
      /\ LifeT /\ RefT /\ MountT /\ QueueT /\ CountedT /\ CountsNat /\ OwnerInv /\ CallInv
  BY Before
<1>00. RefsAdd /\ Unowned
  BY <1>0, RefsAre, NoOwners
<1>1. t \in Threads /\ nsproxy[t] \in Nss /\ Ends(t, <<Frame("put", nsproxy[t])>>)
  BY After_exit DEF Threads
<1>2. /\ stack[t] = <<>> /\ nsproxy' = [nsproxy EXCEPT ![t] = NoNs]
      /\ UNCHANGED <<alive, count, mq_mnt, s_fs_info, usermnt, inode, mq_queues_count, mq_bytes>>
  BY DEF exit, Idle, sbv, queuev
<1>3. PICK n, a : n = nsproxy[t] /\ a = Frame("put", n)
  OBVIOUS
<1>4. n \in Nss /\ a \in FrameSet /\ ArgsOK(t, a) /\ a.at = "put" /\ a.of = n
  BY <1>1, <1>3, PlainFrames DEF NsLabels
<1>7. Moves(t, <<a>>) /\ TypeInv' /\ <<a>> \in Seq(FrameSet)
  BY <1>1, <1>3 DEF Ends
<1>8. /\ \A x \in Nss : tH(x)' = tH(x) + (IF x = n THEN 1 ELSE 0)
      /\ \A x \in Nss : tK(x)' = tK(x)
      /\ \A x \in Nss : tP(x)' = tP(x)
      /\ \A x \in Sbs : tM(x)' = tM(x)
      /\ \A x \in Sbs : tX(x)' = tX(x)
      /\ \A x \in Queues : tO(x)' = tO(x)
      /\ \A x \in Nss : tC(x)' = tC(x)
  <2>1. /\ \A x : hH(a, x) = IF x = n THEN 1 ELSE 0
        /\ \A x : hK(a, x) = 0
        /\ \A x : hP(a, x) = 0
        /\ \A x : hM(a, x) = 0
        /\ \A x : hX(a, x) = 0
        /\ \A x : hO(a, x) = 0
        /\ \A x : hC(a, x) = 0
    BY <1>0, <1>1, <1>2, <1>4, <1>7 DEF hH, hK, hP, hM, hX, hO, hC
  <2>2. /\ \A x \in Nss : tH(x)' = tH(x) + hH(a, x)
        /\ \A x \in Nss : tK(x)' = tK(x) + hK(a, x)
        /\ \A x \in Nss : tP(x)' = tP(x) + hP(a, x)
        /\ \A x \in Sbs : tM(x)' = tM(x) + hM(a, x)
        /\ \A x \in Sbs : tX(x)' = tX(x) + hX(a, x)
        /\ \A x \in Queues : tO(x)' = tO(x) + hO(a, x)
        /\ \A x \in Nss : tC(x)' = tC(x) + hC(a, x)
    BY <1>0, <1>1, <1>2, <1>4, <1>7, Call1
  <2>3. \A x \in Nss : tH(x)' = tH(x) + (IF x = n THEN 1 ELSE 0)
    BY <1>0, <2>1, <2>2 DEF CountsNat
  <2>4. \A x \in Nss : tK(x)' = tK(x)
    BY <1>0, <2>1, <2>2 DEF CountsNat
  <2>5. \A x \in Nss : tP(x)' = tP(x)
    BY <1>0, <2>1, <2>2 DEF CountsNat
  <2>6. \A x \in Sbs : tM(x)' = tM(x)
    BY <1>0, <2>1, <2>2 DEF CountsNat
  <2>7. \A x \in Sbs : tX(x)' = tX(x)
    BY <1>0, <2>1, <2>2 DEF CountsNat
  <2>8. \A x \in Queues : tO(x)' = tO(x)
    BY <1>0, <2>1, <2>2 DEF CountsNat
  <2>9. \A x \in Nss : tC(x)' = tC(x)
    BY <1>0, <2>1, <2>2 DEF CountsNat
  <2> QED BY <2>3, <2>4, <2>5, <2>6, <2>7, <2>8, <2>9
<1>9. RefT'
  <2>1. \A x \in Nss : nT(x)' = nT(x) - (IF x = n THEN 1 ELSE 0) /\ nT(x) \in Nat /\ nT(x)' \in Nat
    <3>1. NoNs \notin Nss
        BY NsConstants
    <3>2. \A x \in Nss : /\ nT(x) \in Nat /\ nT(x)' \in Nat
                         /\ nT(x)' = nT(x) + (IF x = NoNs THEN 1 ELSE 0) - (IF x = nsproxy[t] THEN 1 ELSE 0)
        BY <1>0, <1>2, TasksMove
    <3> QED BY <1>3, <3>1, <3>2
  <2>2. \A x \in Nss : count'[x] = count[x] /\ count[x] \in Int
    BY <1>0, <1>2 DEF TypeInv
  <2>3. \A x \in Nss : tH(x) \in Nat /\ tH(x)' = tH(x) + (IF x = n THEN 1 ELSE 0)
    BY <1>0, <1>8 DEF CountsNat
  <2>4. \A x \in Nss : count'[x] - count[x] = (nT(x)' - nT(x)) + (tH(x)' - tH(x)) /\ tH(x)' \in Int
    BY <2>1, <2>2, <2>3
  <2> QED BY <1>0, <1>2, <2>1, <2>2, <2>3, <2>4, RefMoves
<1>10. KSame /\ PSame /\ MSame /\ XSame /\ OSame /\ CSame
  BY <1>8, SameCounts
<1>11. LifeInv' /\ MountInv'
  BY <1>0, <1>2, <1>10, LifeSame, RefsSame, MountSame DEF RefInv
<1>12. QueueInv' /\ QueueCounts'
  BY <1>0, <1>2, <1>10, QueueSame, CountedSame DEF RefInv, TypeInv
<1>13. OwnerInv' /\ CallInv'
  <2>1. \A i \in 1 .. Len(<<a>>) : <<a>>[i].at = "put"
    BY <1>4
  <2>2. PICK fs : fs = <<a>>
    OBVIOUS
  <2> QED BY <1>0, <1>1, <1>2, <1>7, <2>1, <2>2, OwnersStay, CallsStay
<1> QED BY <1>9, <1>11, <1>12, <1>13, Restated DEF RefInv

(* A reference that is not the last one is dropped.                        *)
LEMMA Ref_put_some ==
    ASSUME IInv, NEW t \in Threads, put_ipc_ns(t), may' = may, count[Arg(t)] # 1
    PROVE  RefInv'
<1>0. /\ TypeInv /\ ShapeInv /\ RefInv /\ stack \in [Threads -> Seq(FrameSet)]
      /\ LifeT /\ RefT /\ MountT /\ QueueT /\ CountedT /\ CountsNat /\ OwnerInv /\ CallInv
  BY Before
<1>00. RefsAdd /\ Unowned
  BY <1>0, RefsAre, NoOwners
<1>1. stack[t] # <<>> /\ At(t, "put") /\ UNCHANGED <<alive, nsproxy, mq_mnt, usermnt, inode, mq_queues_count, mq_bytes>>
  BY DEF put_ipc_ns, At, queuev
<1>2. PICK h, n : h = Head(stack[t]) /\ n = Arg(t)
  OBVIOUS
<1>3. /\ h \in FrameSet /\ ArgsOK(t, h) /\ h.at = "put" /\ h.of = n /\ n \in Nss /\ h \in Frames(t)
      /\ t \in Tasks
  BY <1>0, <1>1, <1>2, HeadFacts, TaskRuns DEF At, Arg, ArgsOK, NsLabels
<1>4. count[n] > 0 /\ count[n] \in Nat /\ \A x \in Nss : count[x] \in Nat
  <2>1. \A x \in Nss : count[x] \in Nat
    BY <1>0, CountParts DEF RefInv
  <2> QED BY <1>3, <2>1, Held
<1>5. count' = [count EXCEPT ![n] = @ - 1]
  BY <1>2 DEF put_ipc_ns
<1>6. \A x \in Nss : count'[x] = count[x] - (IF x = n THEN 1 ELSE 0) /\ count[x] \in Int
  BY <1>0, <1>3, <1>5 DEF TypeInv
<1>7. Moves(t, <<>>) /\ TypeInv' /\ <<>> \in Seq(FrameSet) /\ s_fs_info' = s_fs_info
  BY After_put_ipc_ns DEF Ends, put_ipc_ns
<1>8. /\ \A x \in Nss : tH(x)' = tH(x) - (IF x = n THEN 1 ELSE 0)
      /\ \A x \in Nss : tK(x)' = tK(x)
      /\ \A x \in Nss : tP(x)' = tP(x)
      /\ \A x \in Sbs : tM(x)' = tM(x)
      /\ \A x \in Sbs : tX(x)' = tX(x)
      /\ \A x \in Queues : tO(x)' = tO(x)
      /\ \A x \in Nss : tC(x)' = tC(x)
  <2>1. /\ \A x : hH(h, x) = IF x = n THEN 1 ELSE 0
        /\ \A x : hK(h, x) = 0
        /\ \A x : hP(h, x) = 0
        /\ \A x : hM(h, x) = 0
        /\ \A x : hX(h, x) = 0
        /\ \A x : hO(h, x) = 0
        /\ \A x : hC(h, x) = 0
    BY <1>0, <1>1, <1>2, <1>3, <1>7 DEF hH, hK, hP, hM, hX, hO, hC
  <2>2. /\ \A x \in Nss : tH(x)' = tH(x) - hH(h, x)
        /\ \A x \in Nss : tK(x)' = tK(x) - hK(h, x)
        /\ \A x \in Nss : tP(x)' = tP(x) - hP(h, x)
        /\ \A x \in Sbs : tM(x)' = tM(x) - hM(h, x)
        /\ \A x \in Sbs : tX(x)' = tX(x) - hX(h, x)
        /\ \A x \in Queues : tO(x)' = tO(x) - hO(h, x)
        /\ \A x \in Nss : tC(x)' = tC(x) - hC(h, x)
    BY <1>0, <1>1, <1>2, <1>3, <1>7, Pop0
  <2>3. \A x \in Nss : tH(x)' = tH(x) - (IF x = n THEN 1 ELSE 0)
    BY <1>0, <2>1, <2>2 DEF CountsNat
  <2>4. \A x \in Nss : tK(x)' = tK(x)
    BY <1>0, <2>1, <2>2 DEF CountsNat
  <2>5. \A x \in Nss : tP(x)' = tP(x)
    BY <1>0, <2>1, <2>2 DEF CountsNat
  <2>6. \A x \in Sbs : tM(x)' = tM(x)
    BY <1>0, <2>1, <2>2 DEF CountsNat
  <2>7. \A x \in Sbs : tX(x)' = tX(x)
    BY <1>0, <2>1, <2>2 DEF CountsNat
  <2>8. \A x \in Queues : tO(x)' = tO(x)
    BY <1>0, <2>1, <2>2 DEF CountsNat
  <2>9. \A x \in Nss : tC(x)' = tC(x)
    BY <1>0, <2>1, <2>2 DEF CountsNat
  <2> QED BY <2>3, <2>4, <2>5, <2>6, <2>7, <2>8, <2>9
<1>9. ZeroSame
  BY <1>2, <1>4, <1>6 DEF ZeroSame
<1>10. RefT'
  <2>1. \A x \in Nss : nT(x)' = nT(x) /\ nT(x) \in Nat
    BY <1>1, TasksStay, TasksNat
  <2>3. \A x \in Nss : tH(x) \in Nat /\ tH(x)' = tH(x) - (IF x = n THEN 1 ELSE 0)
    BY <1>0, <1>8 DEF CountsNat
  <2>4. \A x \in Nss : /\ count'[x] - count[x] = (nT(x)' - nT(x)) + (tH(x)' - tH(x)) /\ tH(x)' \in Int
                       /\ count'[x] \in Int
    BY <1>6, <2>1, <2>3
  <2> QED BY <1>1, <1>0, <1>6, <1>9, <2>1, <2>3, <2>4, RefMoves DEF ZeroSame
<1>11. LifeT'
  BY <1>0, <1>1, <1>8, <1>9, LifeKept
<1>12. RZero
  BY <1>0, <1>1, <1>7, <1>8, FrameRefs DEF RZero
<1>13. MountT' /\ CountedT'
  BY <1>0, <1>1, <1>7, <1>8, <1>9, <1>12, MountKept, CountedKept
<1>14. QueueT'
  BY <1>0, <1>1, <1>7, <1>8, QueueKept
<1>15. OwnerInv' /\ CallInv'
  <2>2. PICK fs : fs = <<>>
    OBVIOUS
  <2>1. fs \in Seq(FrameSet) /\ \A i \in 1 .. Len(fs) : FALSE
    BY <2>2
  <2> QED BY <1>0, <1>1, <1>7, <2>1, <2>2, OwnersStay, CallsStay
<1> QED BY <1>10, <1>11, <1>13, <1>14, <1>15, Behind

(* The last reference goes: the way back from the super block goes with it. *)
LEMMA Ref_put_last ==
    ASSUME IInv, NEW t \in Threads, put_ipc_ns(t), may' = may, count[Arg(t)] = 1
    PROVE  RefInv'
<1>0. /\ TypeInv /\ ShapeInv /\ RefInv /\ stack \in [Threads -> Seq(FrameSet)]
      /\ LifeT /\ RefT /\ MountT /\ QueueT /\ CountedT /\ CountsNat /\ OwnerInv /\ CallInv
  BY Before
<1>00. RefsAdd /\ Unowned
  BY <1>0, RefsAre, NoOwners
<1>1. stack[t] # <<>> /\ At(t, "put") /\ UNCHANGED <<alive, nsproxy, mq_mnt, usermnt, inode, mq_queues_count, mq_bytes>>
  BY DEF put_ipc_ns, At, queuev
<1>2. PICK h, n : h = Head(stack[t]) /\ n = Arg(t)
  OBVIOUS
<1>3. /\ h \in FrameSet /\ ArgsOK(t, h) /\ h.at = "put" /\ h.of = n /\ n \in Nss /\ h \in Frames(t)
      /\ t \in Tasks
  BY <1>0, <1>1, <1>2, HeadFacts, TaskRuns DEF At, Arg, ArgsOK, NsLabels
<1>4. count[n] > 0 /\ count[n] \in Nat /\ \A x \in Nss : count[x] \in Nat
  <2>1. \A x \in Nss : count[x] \in Nat
    BY <1>0, CountParts DEF RefInv
  <2> QED BY <1>3, <2>1, Held
<1>5. count' = [count EXCEPT ![n] = @ - 1]
  BY <1>2 DEF put_ipc_ns
<1>6. \A x \in Nss : count'[x] = count[x] - (IF x = n THEN 1 ELSE 0) /\ count[x] \in Int
  <2>1. count \in [Nss -> Int]
    BY <1>0 DEF TypeInv
  <2> QED BY <1>3, <1>5, <2>1
<1>70. PICK a, b, c, d, e, s : /\ a = Frame("mq_put_mnt", n) /\ b = Frame("unregister", n) /\ c = Frame("kfree", n)
                            /\ d = Frame("nr_dec", NoNs) /\ e = Frame("notify", NoNs) /\ s = mq_mnt[n]
  OBVIOUS
<1>71. /\ a \in FrameSet /\ ArgsOK(t, a) /\ a.at = "mq_put_mnt" /\ a.of = n
       /\ b \in FrameSet /\ ArgsOK(t, b) /\ b.at = "unregister" /\ b.of = n
       /\ c \in FrameSet /\ ArgsOK(t, c) /\ c.at = "kfree" /\ c.of = n
       /\ d \in FrameSet /\ ArgsOK(t, d) /\ d.at = "nr_dec" /\ d.of = NoNs
       /\ e \in FrameSet /\ ArgsOK(t, e) /\ e.at = "notify" /\ e.of = NoNs
  BY <1>3, <1>70, PlainFrames DEF NsLabels, Threads
<1>7. Moves(t, <<a, b, c, d, e>>) /\ TypeInv' /\ <<a, b, c, d, e>> \in Seq(FrameSet)
  BY <1>2, <1>70, After_put_ipc_ns DEF Ends
<1>72. s_fs_info' = [s_fs_info EXCEPT ![s] = NoNs]
  BY <1>2, <1>70 DEF put_ipc_ns, mq_clear_sbinfo
<1>73. s \in Sbs /\ s_fs_info[s] = n /\ n \in alive /\ count[n] = 1
  BY <1>2, <1>3, <1>4, <1>70, HeldNs
<1>74. NoNs \notin Nss /\ NoSb \notin Nss /\ NoNs # NoSb /\ NoSb \notin Sbs
  BY NsConstants
<1>75. \A x \in Sbs : s_fs_info'[x] = IF x = s THEN NoNs ELSE s_fs_info[x]
  BY <1>0, <1>72, <1>73 DEF TypeInv
<1>8. /\ \A x \in Nss : tH(x)' = tH(x) - (IF x = n THEN 1 ELSE 0)
      /\ \A x \in Nss : tK(x)' = tK(x) + (IF x = n THEN 1 ELSE 0)
      /\ \A x \in Nss : tP(x)' = tP(x) + (IF x = n THEN 1 ELSE 0)
      /\ \A x \in Sbs : tM(x)' = tM(x)
      /\ \A x \in Sbs : tX(x)' = tX(x)
      /\ \A x \in Queues : tO(x)' = tO(x)
      /\ \A x \in Nss : tC(x)' = tC(x)
  <2>1. /\ \A x : hH(a, x) = 0
        /\ \A x : hK(a, x) = 0
        /\ \A x : hP(a, x) = IF x = n THEN 1 ELSE 0
        /\ \A x : hM(a, x) = 0
        /\ \A x : hX(a, x) = 0
        /\ \A x : hO(a, x) = 0
        /\ \A x : hC(a, x) = 0
        /\ \A x : hH(b, x) = 0
        /\ \A x : hK(b, x) = 0
        /\ \A x : hP(b, x) = 0
        /\ \A x : hM(b, x) = 0
        /\ \A x : hX(b, x) = 0
        /\ \A x : hO(b, x) = 0
        /\ \A x : hC(b, x) = 0
        /\ \A x : hH(c, x) = 0
        /\ \A x : hK(c, x) = IF x = n THEN 1 ELSE 0
        /\ \A x : hP(c, x) = 0
        /\ \A x : hM(c, x) = 0
        /\ \A x : hX(c, x) = 0
        /\ \A x : hO(c, x) = 0
        /\ \A x : hC(c, x) = 0
        /\ \A x : hH(d, x) = 0
        /\ \A x : hK(d, x) = 0
        /\ \A x : hP(d, x) = 0
        /\ \A x : hM(d, x) = 0
        /\ \A x : hX(d, x) = 0
        /\ \A x : hO(d, x) = 0
        /\ \A x : hC(d, x) = 0
        /\ \A x : hH(e, x) = 0
        /\ \A x : hK(e, x) = 0
        /\ \A x : hP(e, x) = 0
        /\ \A x : hM(e, x) = 0
        /\ \A x : hX(e, x) = 0
        /\ \A x : hO(e, x) = 0
        /\ \A x : hC(e, x) = 0
        /\ \A x : hH(h, x) = IF x = n THEN 1 ELSE 0
        /\ \A x : hK(h, x) = 0
        /\ \A x : hP(h, x) = 0
        /\ \A x : hM(h, x) = 0
        /\ \A x : hX(h, x) = 0
        /\ \A x : hO(h, x) = 0
        /\ \A x : hC(h, x) = 0
    BY <1>0, <1>1, <1>2, <1>3, <1>71, <1>7 DEF hH, hK, hP, hM, hX, hO, hC
  <2>2. /\ \A x \in Nss : tH(x)' = tH(x) + hH(a, x) + hH(b, x) + hH(c, x) + hH(d, x) + hH(e, x) - hH(h, x)
        /\ \A x \in Nss : tK(x)' = tK(x) + hK(a, x) + hK(b, x) + hK(c, x) + hK(d, x) + hK(e, x) - hK(h, x)
        /\ \A x \in Nss : tP(x)' = tP(x) + hP(a, x) + hP(b, x) + hP(c, x) + hP(d, x) + hP(e, x) - hP(h, x)
        /\ \A x \in Sbs : tM(x)' = tM(x) + hM(a, x) + hM(b, x) + hM(c, x) + hM(d, x) + hM(e, x) - hM(h, x)
        /\ \A x \in Sbs : tX(x)' = tX(x) + hX(a, x) + hX(b, x) + hX(c, x) + hX(d, x) + hX(e, x) - hX(h, x)
        /\ \A x \in Queues : tO(x)' = tO(x) + hO(a, x) + hO(b, x) + hO(c, x) + hO(d, x) + hO(e, x) - hO(h, x)
        /\ \A x \in Nss : tC(x)' = tC(x) + hC(a, x) + hC(b, x) + hC(c, x) + hC(d, x) + hC(e, x) - hC(h, x)
    <3>1. a \in FrameSet /\ ArgsOK(t, a) /\ b \in FrameSet /\ ArgsOK(t, b) /\ c \in FrameSet /\ ArgsOK(t, c) /\ d \in FrameSet /\ ArgsOK(t, d) /\ e \in FrameSet /\ ArgsOK(t, e)
          /\ Moves(t, <<a, b, c, d, e>>) /\ t \in Threads /\ TypeInv /\ ShapeInv /\ stack[t] # <<>> /\ h = Head(stack[t])
        BY <1>0, <1>1, <1>2, <1>3, <1>71, <1>7
    <3> QED BY <3>1, Pop5, SMT
  <2>3. \A x \in Nss : tH(x)' = tH(x) - (IF x = n THEN 1 ELSE 0)
    BY <1>0, <2>1, <2>2 DEF CountsNat
  <2>4. \A x \in Nss : tK(x)' = tK(x) + (IF x = n THEN 1 ELSE 0)
    BY <1>0, <2>1, <2>2 DEF CountsNat
  <2>5. \A x \in Nss : tP(x)' = tP(x) + (IF x = n THEN 1 ELSE 0)
    BY <1>0, <2>1, <2>2 DEF CountsNat
  <2>6. \A x \in Sbs : tM(x)' = tM(x)
    BY <1>0, <2>1, <2>2 DEF CountsNat
  <2>7. \A x \in Sbs : tX(x)' = tX(x)
    BY <1>0, <2>1, <2>2 DEF CountsNat
  <2>8. \A x \in Queues : tO(x)' = tO(x)
    BY <1>0, <2>1, <2>2 DEF CountsNat
  <2>9. \A x \in Nss : tC(x)' = tC(x)
    BY <1>0, <2>1, <2>2 DEF CountsNat
  <2> QED BY <2>3, <2>4, <2>5, <2>6, <2>7, <2>8, <2>9
<1>10. RefT'
  <2>1. \A x \in Nss : nT(x)' = nT(x) /\ nT(x) \in Nat
    BY <1>1, TasksStay, TasksNat
  <2>3. \A x \in Nss : tH(x) \in Nat /\ tH(x)' = tH(x) - (IF x = n THEN 1 ELSE 0)
    BY <1>0, <1>8 DEF CountsNat
  <2>4. \A x \in Nss : /\ count'[x] - count[x] = (nT(x)' - nT(x)) + (tH(x)' - tH(x)) /\ tH(x)' \in Int
                       /\ count'[x] \in Int
    BY <1>6, <2>1, <2>3
  <2>5. \A x \in Nss : count'[x] > 0 => count[x] > 0
    BY <1>6
  <2> QED BY <1>1, <1>0, <1>6, <2>1, <2>3, <2>4, <2>5, RefMoves
<1>11. LifeT'
  <2>1. \A x \in Nss : x # n => count'[x] = count[x] /\ tK(x)' = tK(x) /\ tP(x)' = tP(x)
    BY <1>0, <1>6, <1>8 DEF CountsNat
  <2>2. count'[n] = 0 /\ tK(n)' = 1 /\ tP(n)' = 1
    <3>1. tK(n) = 0 /\ tP(n) = 0
        BY <1>0, <1>3, <1>73 DEF LifeT
    <3> QED BY <1>3, <1>6, <1>8, <1>73, <3>1
  <2>3. mq_mnt' = mq_mnt /\ alive' = alive /\ mq_mnt[n] # NoSb
    BY <1>1, <1>70, <1>73, <1>74
  <2> QED BY <1>0, <1>73, <2>1, <2>2, <2>3 DEF LifeT
<1>12. \A x \in Sbs : MntRefs(x)' = MntRefs(x) /\ tX(x)' = tX(x)
  BY <1>0, <1>1, <1>7, <1>8, FrameRefs
<1>13. MountT'
  <2>1. ASSUME NEW x \in Nss, count'[x] > 0 PROVE mq_mnt'[x] \in Sbs /\ s_fs_info'[mq_mnt'[x]] = x
    <3>1. x # n /\ count[x] > 0
        BY <1>6, <1>73, <2>1
    <3>2. mq_mnt[x] \in Sbs /\ s_fs_info[mq_mnt[x]] = x
        BY <1>0, <3>1 DEF MountT
    <3> QED BY <1>1, <1>73, <1>75, <3>1, <3>2
  <2>2. \A x \in Nss \ alive' : mq_mnt'[x] = NoSb
    BY <1>0, <1>1 DEF MountT
  <2>3. ASSUME NEW x \in Sbs, s_fs_info'[x] \in Nss
        PROVE  count'[s_fs_info'[x]] > 0 /\ mq_mnt'[s_fs_info'[x]] = x
    <3>1. x # s /\ s_fs_info'[x] = s_fs_info[x]
        BY <1>74, <1>75, <2>3
    <3>2. count[s_fs_info[x]] > 0 /\ mq_mnt[s_fs_info[x]] = x
        BY <1>0, <2>3, <3>1 DEF MountT
    <3>3. s_fs_info[x] # n
        BY <1>70, <3>1, <3>2
    <3> QED BY <1>1, <1>6, <2>3, <3>1, <3>2, <3>3
  <2>4. \A x \in Sbs : s_fs_info'[x] = NoSb <=> s_fs_info[x] = NoSb
    BY <1>3, <1>73, <1>74, <1>75
  <2>5. /\ \A x \in Sbs : s_fs_info'[x] = NoSb => MntRefs(x)' = 0
        /\ \A x \in Sbs : tX(x)' = IF s_fs_info'[x] # NoSb /\ MntRefs(x)' = 0 THEN 1 ELSE 0
    BY <1>0, <1>12, <2>4 DEF MountT
  <2> QED BY <2>1, <2>2, <2>3, <2>5 DEF MountT
<1>14. QueueT'
  <2>4. \A x \in Sbs : s_fs_info'[x] = NoSb <=> s_fs_info[x] = NoSb
    BY <1>3, <1>73, <1>74, <1>75
  <2> QED BY <1>0, <1>1, <1>8, <2>4, QueueKept
<1>15. CountedT'
  <2>1. \A x : nQ(x)' = nQ(x) /\ nU(x)' = nU(x)
    BY <1>1 DEF nQ, nU
  <2>2. \A x \in Nss : count'[x] > 0 => count[x] > 0 /\ tC(x)' = tC(x)
    BY <1>6, <1>8
  <2>3. alive' = alive /\ alive \subseteq Nss /\ mq_queues_count' = mq_queues_count /\ mq_bytes' = mq_bytes
    BY <1>0, <1>1 DEF TypeInv
  <2> QED BY <1>0, <2>1, <2>2, <2>3 DEF CountedT
<1>16. PICK fs : fs = <<a, b, c, d, e>>
  OBVIOUS
<1>17. /\ fs \in Seq(FrameSet) /\ Moves(t, fs)
       /\ \A i \in 1 .. Len(fs) : fs[i].at \notin {"inode", "delete", "release", "instantiate"}
  <2>1. \A i \in 1 .. Len(fs) : fs[i] \in {a, b, c, d, e}
    BY <1>16
  <2> QED BY <1>7, <1>16, <1>71, <2>1
<1>18. OwnerInv'
  BY <1>0, <1>1, <1>17, OwnersStay
<1>19. CallInv'
  <2>1. \A i \in 1 .. Len(fs) : CallOK(fs[i])'
    BY <1>17 DEF CallOK
  <2>2. ASSUME NEW u \in Threads, NEW f \in Frames(u), CallOK(f)
        PROVE  CallOK(f)'
    <3>1. f \in FrameSet /\ ArgsOK(u, f)
        BY <1>0, AllArgs
    <3>2. f.at \in {"inode", "release"} => f.ns # n
        BY <1>1, <1>2, <1>3, <3>1, OneHolder DEF Holders
    <3>3. f.at = "release" => inode[f.of].sb \in Sbs
        BY OwnedQueue DEF QueueRecord
    <3>4. f.at = "inode" => f.of \in Sbs
        BY <3>1 DEF ArgsOK
    <3> QED BY <1>1, <1>73, <1>75, <2>2, <3>2, <3>3, <3>4 DEF CallOK
  <2> QED BY <1>0, <1>17, <2>1, <2>2, CallStep
<1> QED BY <1>10, <1>11, <1>13, <1>14, <1>15, <1>18, <1>19, Behind

-----------------------------------------------------------------------------
(* Tearing down.                                                           *)

(* The mount of the namespace becomes the reference of the frame.          *)
LEMMA Ref_mq_put_mnt ==
    ASSUME IInv, NEW t \in Threads, mq_put_mnt(t), may' = may
    PROVE  RefInv'
<1>0. /\ TypeInv /\ ShapeInv /\ RefInv /\ stack \in [Threads -> Seq(FrameSet)]
      /\ LifeT /\ RefT /\ MountT /\ QueueT /\ CountedT /\ CountsNat /\ OwnerInv /\ CallInv
  BY Before
<1>00. RefsAdd /\ Unowned
  BY <1>0, RefsAre, NoOwners
<1>1. stack[t] # <<>> /\ At(t, "mq_put_mnt") /\ UNCHANGED <<alive, count, nsproxy, s_fs_info, usermnt, inode, mq_queues_count, mq_bytes>>
  BY DEF mq_put_mnt, At, nsv, queuev
<1>2. PICK h, n : h = Head(stack[t]) /\ n = Arg(t)
  OBVIOUS
<1>3. /\ h \in FrameSet /\ ArgsOK(t, h) /\ h.at = "mq_put_mnt" /\ h.of = n /\ n \in Nss /\ h \in Frames(t)
      /\ t \in Tasks
  BY <1>0, <1>1, <1>2, HeadFacts, TaskRuns DEF At, Arg, ArgsOK, NsLabels
<1>4. PICK s, a : s = mq_mnt[n] /\ a = Frame("mntput", s)
  OBVIOUS
<1>5. s \in Sbs /\ n \in alive /\ count[n] = 0 /\ tP(n) = 1
  BY <1>3, <1>4, Doomed DEF tP
<1>6. a \in FrameSet /\ ArgsOK(t, a) /\ a.at = "mntput" /\ a.of = s
  BY <1>3, <1>4, <1>5, PlainFrames
<1>7. Moves(t, <<a>>) /\ TypeInv' /\ <<a>> \in Seq(FrameSet)
  BY <1>2, <1>4, After_mq_put_mnt DEF Ends
<1>70. mq_mnt' = [mq_mnt EXCEPT ![n] = NoSb] /\ NoSb \notin Sbs
  BY <1>2, NsConstants DEF mq_put_mnt
<1>71. \A x \in Nss : mq_mnt'[x] = IF x = n THEN NoSb ELSE mq_mnt[x]
  BY <1>0, <1>70 DEF TypeInv
<1>8. /\ \A x \in Nss : tH(x)' = tH(x)
      /\ \A x \in Nss : tK(x)' = tK(x)
      /\ \A x \in Nss : tP(x)' = tP(x) - (IF x = n THEN 1 ELSE 0)
      /\ \A x \in Sbs : tM(x)' = tM(x) + (IF x = s THEN 1 ELSE 0)
      /\ \A x \in Sbs : tX(x)' = tX(x)
      /\ \A x \in Queues : tO(x)' = tO(x)
      /\ \A x \in Nss : tC(x)' = tC(x)
  <2>1. /\ \A x : hH(a, x) = 0
        /\ \A x : hK(a, x) = 0
        /\ \A x : hP(a, x) = 0
        /\ \A x : hM(a, x) = IF x = s THEN 1 ELSE 0
        /\ \A x : hX(a, x) = 0
        /\ \A x : hO(a, x) = 0
        /\ \A x : hC(a, x) = 0
        /\ \A x : hH(h, x) = 0
        /\ \A x : hK(h, x) = 0
        /\ \A x : hP(h, x) = IF x = n THEN 1 ELSE 0
        /\ \A x : hM(h, x) = 0
        /\ \A x : hX(h, x) = 0
        /\ \A x : hO(h, x) = 0
        /\ \A x : hC(h, x) = 0
    BY <1>0, <1>1, <1>2, <1>3, <1>6, <1>7 DEF hH, hK, hP, hM, hX, hO, hC
  <2>2. /\ \A x \in Nss : tH(x)' = tH(x) + hH(a, x) - hH(h, x)
        /\ \A x \in Nss : tK(x)' = tK(x) + hK(a, x) - hK(h, x)
        /\ \A x \in Nss : tP(x)' = tP(x) + hP(a, x) - hP(h, x)
        /\ \A x \in Sbs : tM(x)' = tM(x) + hM(a, x) - hM(h, x)
        /\ \A x \in Sbs : tX(x)' = tX(x) + hX(a, x) - hX(h, x)
        /\ \A x \in Queues : tO(x)' = tO(x) + hO(a, x) - hO(h, x)
        /\ \A x \in Nss : tC(x)' = tC(x) + hC(a, x) - hC(h, x)
    BY <1>0, <1>1, <1>2, <1>3, <1>6, <1>7, Pop1
  <2>3. \A x \in Nss : tH(x)' = tH(x)
    BY <1>0, <2>1, <2>2 DEF CountsNat
  <2>4. \A x \in Nss : tK(x)' = tK(x)
    BY <1>0, <2>1, <2>2 DEF CountsNat
  <2>5. \A x \in Nss : tP(x)' = tP(x) - (IF x = n THEN 1 ELSE 0)
    BY <1>0, <2>1, <2>2 DEF CountsNat
  <2>6. \A x \in Sbs : tM(x)' = tM(x) + (IF x = s THEN 1 ELSE 0)
    BY <1>0, <2>1, <2>2 DEF CountsNat
  <2>7. \A x \in Sbs : tX(x)' = tX(x)
    BY <1>0, <2>1, <2>2 DEF CountsNat
  <2>8. \A x \in Queues : tO(x)' = tO(x)
    BY <1>0, <2>1, <2>2 DEF CountsNat
  <2>9. \A x \in Nss : tC(x)' = tC(x)
    BY <1>0, <2>1, <2>2 DEF CountsNat
  <2> QED BY <2>3, <2>4, <2>5, <2>6, <2>7, <2>8, <2>9
<1>9. RefCount'
  <2>1. HSame
    BY <1>8, SameCounts
  <2> QED BY <1>0, <1>1, <2>1, RefSame DEF RefInv
<1>10. \A x \in Sbs : MntRefs(x)' = MntRefs(x) /\ tX(x)' = tX(x)
  <2>1. RefsAdd /\ RefsAdd'
    BY <1>0, <1>7, RefsAre, PTL
  <2>2. \A x \in Sbs : OwnMounts(x)' = OwnMounts(x) + (IF x = NoSb THEN 1 ELSE 0)
                                            - (IF x = mq_mnt[n] THEN 1 ELSE 0)
    <3>1. TypeInv /\ n \in Nss /\ mq_mnt' = [mq_mnt EXCEPT ![n] = NoSb]
        BY <1>0, <1>3, <1>70
    <3> QED BY <3>1, MountsChange
  <2>3. \A x : UserMount(x)' = UserMount(x) /\ Fds(x)' = Fds(x)
    BY <1>1 DEF UserMount, Fds, FdsOf
  <2>4. \A x \in Sbs : tM(x)' = tM(x) + (IF x = s THEN 1 ELSE 0) /\ tX(x)' = tX(x)
    BY <1>8
  <2>5. \A x \in Sbs : OwnMounts(x)' = OwnMounts(x) - (IF x = s THEN 1 ELSE 0)
    BY <1>4, <1>70, <2>1, <2>2 DEF RefsAdd
  <2> QED BY <2>1, <2>3, <2>4, <2>5 DEF RefsAdd
<1>11. LifeT'
  <2>1. \A x \in Nss : tK(x)' = tK(x) /\ tP(x)' = tP(x) - (IF x = n THEN 1 ELSE 0)
    BY <1>8
  <2>2. tP(n)' = 0
    BY <1>3, <1>5, <2>1
  <2>3. \A x \in Nss : x # n => tP(x)' = tP(x) /\ mq_mnt'[x] = mq_mnt[x]
    BY <1>0, <1>71, <2>1 DEF CountsNat
  <2>4. mq_mnt'[n] = NoSb
    BY <1>3, <1>71
  <2>5. alive' = alive /\ count' = count
    BY <1>1
  <2> QED BY <1>0, <2>1, <2>2, <2>3, <2>4, <2>5 DEF LifeT
<1>12. MountT'
  <2>0. alive' = alive /\ count' = count /\ s_fs_info' = s_fs_info
    BY <1>1
  <2>1. \A x \in Nss : count[x] > 0 => x # n /\ mq_mnt'[x] = mq_mnt[x]
    BY <1>5, <1>71
  <2>2. /\ \A x \in Nss : count'[x] > 0 => mq_mnt'[x] \in Sbs /\ s_fs_info'[mq_mnt'[x]] = x
        /\ \A x \in Nss \ alive' : mq_mnt'[x] = NoSb
    BY <1>0, <1>71, <2>0, <2>1 DEF MountT
  <2>3. \A x \in Sbs : s_fs_info'[x] \in Nss => count'[s_fs_info'[x]] > 0 /\ mq_mnt'[s_fs_info'[x]] = x
    BY <1>0, <2>0, <2>1 DEF MountT
  <2>4. /\ \A x \in Sbs : s_fs_info'[x] = NoSb => MntRefs(x)' = 0
        /\ \A x \in Sbs : tX(x)' = IF s_fs_info'[x] # NoSb /\ MntRefs(x)' = 0 THEN 1 ELSE 0
    BY <1>0, <1>10, <2>0 DEF MountT
  <2> QED BY <2>2, <2>3, <2>4 DEF MountT
<1>13. QueueT'
  BY <1>0, <1>1, <1>8, QueueKept
<1>14. CountedT'
  <2>1. \A x \in Nss : count[x] > 0 => mq_mnt'[x] = mq_mnt[x]
    BY <1>5, <1>71
  <2>2. \A x \in Nss : count[x] > 0 => nQ(x)' = nQ(x)
    BY <1>1, <2>1 DEF nQ
  <2>3. \A x : nU(x)' = nU(x)
    BY <1>1 DEF nU
  <2>4. alive \subseteq Nss /\ \A x \in Nss : tC(x)' = tC(x)
    BY <1>0, <1>8 DEF TypeInv
  <2> QED BY <1>0, <1>1, <2>2, <2>3, <2>4 DEF CountedT
<1>15. OwnerInv' /\ CallInv'
  <2>1. \A i \in 1 .. Len(<<a>>) : <<a>>[i].at = "mntput"
    BY <1>6
  <2>2. PICK fs : fs = <<a>>
    OBVIOUS
  <2> QED BY <1>0, <1>1, <1>7, <2>1, <2>2, OwnersStay, CallsStay
<1> QED BY <1>9, <1>11, <1>12, <1>13, <1>14, <1>15, Restated DEF RefInv

(* The namespace is freed; its mount is given back already.                *)
LEMMA Ref_kfree ==
    ASSUME IInv, NEW t \in Threads, kfree_ns(t), may' = may
    PROVE  RefInv'
<1>0. /\ TypeInv /\ ShapeInv /\ RefInv /\ stack \in [Threads -> Seq(FrameSet)]
      /\ LifeT /\ RefT /\ MountT /\ QueueT /\ CountedT /\ CountsNat /\ OwnerInv /\ CallInv
  BY Before
<1>00. RefsAdd /\ Unowned
  BY <1>0, RefsAre, NoOwners
<1>1. stack[t] # <<>> /\ At(t, "kfree") /\ UNCHANGED <<count, nsproxy, mq_mnt, s_fs_info, usermnt, inode, mq_bytes>>
  BY DEF kfree_ns, At, sbv
<1>2. PICK h, n : h = Head(stack[t]) /\ n = Arg(t)
  OBVIOUS
<1>3. /\ h \in FrameSet /\ ArgsOK(t, h) /\ h.at = "kfree" /\ h.of = n /\ n \in Nss /\ h \in Frames(t)
      /\ t \in Tasks
  BY <1>0, <1>1, <1>2, HeadFacts, TaskRuns DEF At, Arg, ArgsOK, NsLabels
<1>4. n \in alive /\ count[n] = 0 /\ tK(n) = 1 /\ mq_mnt[n] = NoSb
  BY <1>1, <1>2, <1>3, Doomed, NoMountLeft DEF tK
<1>5. alive' = alive \ {n} /\ mq_queues_count' = [mq_queues_count EXCEPT ![n] = 0]
  BY <1>2 DEF kfree_ns
<1>7. Moves(t, <<>>) /\ TypeInv' /\ <<>> \in Seq(FrameSet)
  BY After_kfree_ns DEF Ends
<1>8. /\ \A x \in Nss : tH(x)' = tH(x)
      /\ \A x \in Nss : tK(x)' = tK(x) - (IF x = n THEN 1 ELSE 0)
      /\ \A x \in Nss : tP(x)' = tP(x)
      /\ \A x \in Sbs : tM(x)' = tM(x)
      /\ \A x \in Sbs : tX(x)' = tX(x)
      /\ \A x \in Queues : tO(x)' = tO(x)
      /\ \A x \in Nss : tC(x)' = tC(x)
  <2>1. /\ \A x : hH(h, x) = 0
        /\ \A x : hK(h, x) = IF x = n THEN 1 ELSE 0
        /\ \A x : hP(h, x) = 0
        /\ \A x : hM(h, x) = 0
        /\ \A x : hX(h, x) = 0
        /\ \A x : hO(h, x) = 0
        /\ \A x : hC(h, x) = 0
    BY <1>0, <1>1, <1>2, <1>3, <1>7 DEF hH, hK, hP, hM, hX, hO, hC
  <2>2. /\ \A x \in Nss : tH(x)' = tH(x) - hH(h, x)
        /\ \A x \in Nss : tK(x)' = tK(x) - hK(h, x)
        /\ \A x \in Nss : tP(x)' = tP(x) - hP(h, x)
        /\ \A x \in Sbs : tM(x)' = tM(x) - hM(h, x)
        /\ \A x \in Sbs : tX(x)' = tX(x) - hX(h, x)
        /\ \A x \in Queues : tO(x)' = tO(x) - hO(h, x)
        /\ \A x \in Nss : tC(x)' = tC(x) - hC(h, x)
    BY <1>0, <1>1, <1>2, <1>3, <1>7, Pop0
  <2>3. \A x \in Nss : tH(x)' = tH(x)
    BY <1>0, <2>1, <2>2 DEF CountsNat
  <2>4. \A x \in Nss : tK(x)' = tK(x) - (IF x = n THEN 1 ELSE 0)
    BY <1>0, <2>1, <2>2 DEF CountsNat
  <2>5. \A x \in Nss : tP(x)' = tP(x)
    BY <1>0, <2>1, <2>2 DEF CountsNat
  <2>6. \A x \in Sbs : tM(x)' = tM(x)
    BY <1>0, <2>1, <2>2 DEF CountsNat
  <2>7. \A x \in Sbs : tX(x)' = tX(x)
    BY <1>0, <2>1, <2>2 DEF CountsNat
  <2>8. \A x \in Queues : tO(x)' = tO(x)
    BY <1>0, <2>1, <2>2 DEF CountsNat
  <2>9. \A x \in Nss : tC(x)' = tC(x)
    BY <1>0, <2>1, <2>2 DEF CountsNat
  <2> QED BY <2>3, <2>4, <2>5, <2>6, <2>7, <2>8, <2>9
<1>9. RefT'
  <2>1. \A x : nT(x)' = nT(x)
    BY <1>1, TasksStay
  <2>2. \A x \in Nss : tH(x)' = tH(x) /\ (count[x] > 0 => x # n)
    BY <1>4, <1>8
  <2>3. count' = count
    BY <1>1
  <2> QED BY <1>0, <1>5, <2>1, <2>2, <2>3 DEF RefT
<1>10. LifeT'
  <2>1. \A x \in Nss : tP(x)' = tP(x) /\ tK(x)' = tK(x) - (IF x = n THEN 1 ELSE 0)
    BY <1>8
  <2>2. tK(n)' = 0 /\ tP(n) = 0
    BY <1>0, <1>3, <1>4, <2>1 DEF LifeT
  <2>3. \A x \in Nss : x # n => tK(x)' = tK(x) /\ (x \in alive' <=> x \in alive)
    BY <1>0, <1>5, <2>1 DEF CountsNat
  <2>4. n \notin alive' /\ count' = count /\ mq_mnt' = mq_mnt
    BY <1>1, <1>5
  <2> QED BY <1>0, <2>1, <2>2, <2>3, <2>4 DEF LifeT
<1>11. MountT'
  <2>1. \A x \in Sbs : MntRefs(x)' = MntRefs(x) /\ tX(x)' = tX(x)
    BY <1>0, <1>1, <1>7, <1>8, FrameRefs
  <2>2. \A x \in Nss \ alive' : mq_mnt[x] = NoSb
    BY <1>0, <1>4, <1>5 DEF MountT
  <2>3. count' = count /\ mq_mnt' = mq_mnt /\ s_fs_info' = s_fs_info
    BY <1>1
  <2> QED BY <1>0, <2>1, <2>2, <2>3 DEF MountT
<1>12. QueueT'
  BY <1>0, <1>1, <1>8, QueueKept
<1>13. CountedT'
  <2>1. \A x : nQ(x)' = nQ(x) /\ nU(x)' = nU(x)
    BY <1>1 DEF nQ, nU
  <2>2. \A x \in alive' : x \in alive /\ x \in Nss /\ x # n /\ mq_queues_count'[x] = mq_queues_count[x]
    BY <1>0, <1>5 DEF TypeInv
  <2>3. \A x \in Nss : tC(x)' = tC(x)
    BY <1>8
  <2> QED BY <1>0, <1>1, <2>1, <2>2, <2>3 DEF CountedT
<1>14. OwnerInv' /\ CallInv'
  <2>2. PICK fs : fs = <<>>
    OBVIOUS
  <2>1. fs \in Seq(FrameSet) /\ \A i \in 1 .. Len(fs) : FALSE
    BY <2>2
  <2> QED BY <1>0, <1>1, <1>7, <2>1, <2>2, OwnersStay, CallsStay
<1> QED BY <1>9, <1>10, <1>11, <1>12, <1>13, <1>14, Behind

(* The last reference to a super block goes: it is taken down.             *)
LEMMA Ref_mntput_last ==
    ASSUME IInv, NEW t \in Threads, mntput(t), may' = may, MntRefs(Arg(t)) = 1
    PROVE  RefInv'
<1>0. /\ TypeInv /\ ShapeInv /\ RefInv /\ stack \in [Threads -> Seq(FrameSet)]
      /\ LifeT /\ RefT /\ MountT /\ QueueT /\ CountedT /\ CountsNat /\ OwnerInv /\ CallInv
  BY Before
<1>00. RefsAdd /\ Unowned
  BY <1>0, RefsAre, NoOwners
<1>1. stack[t] # <<>> /\ At(t, "mntput") /\ UNCHANGED <<alive, count, nsproxy, mq_mnt, s_fs_info, usermnt, inode, mq_queues_count, mq_bytes>>
  BY DEF mntput, At, nsv, sbv, queuev
<1>2. PICK h, s : h = Head(stack[t]) /\ s = Arg(t)
  OBVIOUS
<1>3. /\ h \in FrameSet /\ ArgsOK(t, h) /\ h.at = "mntput" /\ h.of = s /\ s \in Sbs /\ h \in Frames(t)
      /\ t \in Tasks
  BY <1>0, <1>1, <1>2, HeadFacts, TaskRuns DEF At, Arg, ArgsOK, NsLabels
<1>4. PICK a : a = Frame("kill", s)
  OBVIOUS
<1>5. a \in FrameSet /\ ArgsOK(t, a) /\ a.at = "kill" /\ a.of = s
  BY <1>3, <1>4, PlainFrames
<1>7. Moves(t, <<a>>) /\ TypeInv' /\ <<a>> \in Seq(FrameSet)
  BY <1>2, <1>4, After_mntput DEF Ends
<1>8. /\ \A x \in Nss : tH(x)' = tH(x)
      /\ \A x \in Nss : tK(x)' = tK(x)
      /\ \A x \in Nss : tP(x)' = tP(x)
      /\ \A x \in Sbs : tM(x)' = tM(x) - (IF x = s THEN 1 ELSE 0)
      /\ \A x \in Sbs : tX(x)' = tX(x) + (IF x = s THEN 1 ELSE 0)
      /\ \A x \in Queues : tO(x)' = tO(x)
      /\ \A x \in Nss : tC(x)' = tC(x)
  <2>1. /\ \A x : hH(a, x) = 0
        /\ \A x : hK(a, x) = 0
        /\ \A x : hP(a, x) = 0
        /\ \A x : hM(a, x) = 0
        /\ \A x : hX(a, x) = IF x = s THEN 1 ELSE 0
        /\ \A x : hO(a, x) = 0
        /\ \A x : hC(a, x) = 0
        /\ \A x : hH(h, x) = 0
        /\ \A x : hK(h, x) = 0
        /\ \A x : hP(h, x) = 0
        /\ \A x : hM(h, x) = IF x = s THEN 1 ELSE 0
        /\ \A x : hX(h, x) = 0
        /\ \A x : hO(h, x) = 0
        /\ \A x : hC(h, x) = 0
    BY <1>0, <1>1, <1>2, <1>3, <1>7, <1>5 DEF hH, hK, hP, hM, hX, hO, hC
  <2>2. /\ \A x \in Nss : tH(x)' = tH(x) + hH(a, x) - hH(h, x)
        /\ \A x \in Nss : tK(x)' = tK(x) + hK(a, x) - hK(h, x)
        /\ \A x \in Nss : tP(x)' = tP(x) + hP(a, x) - hP(h, x)
        /\ \A x \in Sbs : tM(x)' = tM(x) + hM(a, x) - hM(h, x)
        /\ \A x \in Sbs : tX(x)' = tX(x) + hX(a, x) - hX(h, x)
        /\ \A x \in Queues : tO(x)' = tO(x) + hO(a, x) - hO(h, x)
        /\ \A x \in Nss : tC(x)' = tC(x) + hC(a, x) - hC(h, x)
    BY <1>0, <1>1, <1>2, <1>3, <1>7, <1>5, Pop1
  <2>3. \A x \in Nss : tH(x)' = tH(x)
    BY <1>0, <2>1, <2>2 DEF CountsNat
  <2>4. \A x \in Nss : tK(x)' = tK(x)
    BY <1>0, <2>1, <2>2 DEF CountsNat
  <2>5. \A x \in Nss : tP(x)' = tP(x)
    BY <1>0, <2>1, <2>2 DEF CountsNat
  <2>6. \A x \in Sbs : tM(x)' = tM(x) - (IF x = s THEN 1 ELSE 0)
    BY <1>0, <2>1, <2>2 DEF CountsNat
  <2>7. \A x \in Sbs : tX(x)' = tX(x) + (IF x = s THEN 1 ELSE 0)
    BY <1>0, <2>1, <2>2 DEF CountsNat
  <2>8. \A x \in Queues : tO(x)' = tO(x)
    BY <1>0, <2>1, <2>2 DEF CountsNat
  <2>9. \A x \in Nss : tC(x)' = tC(x)
    BY <1>0, <2>1, <2>2 DEF CountsNat
  <2> QED BY <2>3, <2>4, <2>5, <2>6, <2>7, <2>8, <2>9
<1>9. MntRefs(s) > 0 /\ MntRefs(s) \in Nat /\ s_fs_info[s] # NoSb /\ tX(s) = 0
  <2>1. h = Frame("mntput", s)
    BY <1>3 DEF ArgsOK
  <2>2. MntRefs(s) > 0 /\ MntRefs(s) \in Nat
    BY <1>0, <1>3, <2>1, SbParts
  <2> QED BY <1>0, <1>3, <2>2 DEF MountT
<1>10. \A x \in Sbs : MntRefs(x)' = MntRefs(x) - (IF x = s THEN 1 ELSE 0) /\ MntRefs(x) \in Nat
  <2>1. \A x \in Sbs : /\ MntRefs(x)' = MntRefs(x) + tM(x)' - tM(x)
                       /\ MntRefs(x) \in Nat /\ MntRefs(x)' \in Nat /\ tM(x) \in Nat /\ tM(x)' \in Nat
    BY <1>0, <1>1, <1>7, FrameRefs
  <2>2. \A x \in Sbs : tM(x)' = tM(x) - (IF x = s THEN 1 ELSE 0)
    BY <1>8
  <2> QED BY <2>1, <2>2
<1>11. KSame /\ PSame /\ HSame /\ CSame
  BY <1>8, SameCounts
<1>12. LifeInv' /\ RefCount' /\ QueueCounts'
  BY <1>0, <1>1, <1>11, LifeSame, RefSame, CountedSame DEF RefInv, TypeInv
<1>13. MountT'
  <2>1. MntRefs(s) = 1
    BY <1>2
  <2>2. MntRefs(s)' = 0 /\ tX(s)' = 1
    BY <1>3, <1>8, <1>9, <1>10, <2>1
  <2>3. \A x \in Sbs : x # s => MntRefs(x)' = MntRefs(x) /\ tX(x)' = tX(x)
    BY <1>0, <1>8, <1>10 DEF CountsNat
  <2>4. /\ \A x \in Sbs : s_fs_info[x] = NoSb => MntRefs(x)' = 0
        /\ \A x \in Sbs : tX(x)' = IF s_fs_info[x] # NoSb /\ MntRefs(x)' = 0 THEN 1 ELSE 0
    BY <1>0, <1>9, <2>2, <2>3 DEF MountT
  <2>5. alive' = alive /\ count' = count /\ mq_mnt' = mq_mnt /\ s_fs_info' = s_fs_info
    BY <1>1
  <2> QED BY <1>0, <2>4, <2>5 DEF MountT
<1>14. QueueT'
  <2>1. \A x \in Sbs : tX(x) = 1 => tX(x)' = 1
    BY <1>8, <1>9
  <2> QED BY <1>0, <1>1, <1>8, <2>1, QueueKept
<1>15. OwnerInv' /\ CallInv'
  <2>1. \A i \in 1 .. Len(<<a>>) : <<a>>[i].at = "kill"
    BY <1>5
  <2>2. PICK fs : fs = <<a>>
    OBVIOUS
  <2> QED BY <1>0, <1>1, <1>7, <2>1, <2>2, OwnersStay, CallsStay
<1> QED BY <1>12, <1>13, <1>14, <1>15, Restated DEF RefInv

(* A reference to a super block goes that is not the last one.             *)
LEMMA Ref_mntput_some ==
    ASSUME IInv, NEW t \in Threads, mntput(t), may' = may, MntRefs(Arg(t)) # 1
    PROVE  RefInv'
<1>0. /\ TypeInv /\ ShapeInv /\ RefInv /\ stack \in [Threads -> Seq(FrameSet)]
      /\ LifeT /\ RefT /\ MountT /\ QueueT /\ CountedT /\ CountsNat /\ OwnerInv /\ CallInv
  BY Before
<1>00. RefsAdd /\ Unowned
  BY <1>0, RefsAre, NoOwners
<1>1. stack[t] # <<>> /\ At(t, "mntput") /\ UNCHANGED <<alive, count, nsproxy, mq_mnt, s_fs_info, usermnt, inode, mq_queues_count, mq_bytes>>
  BY DEF mntput, At, nsv, sbv, queuev
<1>2. PICK h, s : h = Head(stack[t]) /\ s = Arg(t)
  OBVIOUS
<1>3. /\ h \in FrameSet /\ ArgsOK(t, h) /\ h.at = "mntput" /\ h.of = s /\ s \in Sbs /\ h \in Frames(t)
      /\ t \in Tasks
  BY <1>0, <1>1, <1>2, HeadFacts, TaskRuns DEF At, Arg, ArgsOK, NsLabels
<1>7. Moves(t, <<>>) /\ TypeInv' /\ <<>> \in Seq(FrameSet)
  BY After_mntput DEF Ends
<1>8. /\ \A x \in Nss : tH(x)' = tH(x)
      /\ \A x \in Nss : tK(x)' = tK(x)
      /\ \A x \in Nss : tP(x)' = tP(x)
      /\ \A x \in Sbs : tM(x)' = tM(x) - (IF x = s THEN 1 ELSE 0)
      /\ \A x \in Sbs : tX(x)' = tX(x)
      /\ \A x \in Queues : tO(x)' = tO(x)
      /\ \A x \in Nss : tC(x)' = tC(x)
  <2>1. /\ \A x : hH(h, x) = 0
        /\ \A x : hK(h, x) = 0
        /\ \A x : hP(h, x) = 0
        /\ \A x : hM(h, x) = IF x = s THEN 1 ELSE 0
        /\ \A x : hX(h, x) = 0
        /\ \A x : hO(h, x) = 0
        /\ \A x : hC(h, x) = 0
    BY <1>0, <1>1, <1>2, <1>3, <1>7 DEF hH, hK, hP, hM, hX, hO, hC
  <2>2. /\ \A x \in Nss : tH(x)' = tH(x) - hH(h, x)
        /\ \A x \in Nss : tK(x)' = tK(x) - hK(h, x)
        /\ \A x \in Nss : tP(x)' = tP(x) - hP(h, x)
        /\ \A x \in Sbs : tM(x)' = tM(x) - hM(h, x)
        /\ \A x \in Sbs : tX(x)' = tX(x) - hX(h, x)
        /\ \A x \in Queues : tO(x)' = tO(x) - hO(h, x)
        /\ \A x \in Nss : tC(x)' = tC(x) - hC(h, x)
    BY <1>0, <1>1, <1>2, <1>3, <1>7, Pop0
  <2>3. \A x \in Nss : tH(x)' = tH(x)
    BY <1>0, <2>1, <2>2 DEF CountsNat
  <2>4. \A x \in Nss : tK(x)' = tK(x)
    BY <1>0, <2>1, <2>2 DEF CountsNat
  <2>5. \A x \in Nss : tP(x)' = tP(x)
    BY <1>0, <2>1, <2>2 DEF CountsNat
  <2>6. \A x \in Sbs : tM(x)' = tM(x) - (IF x = s THEN 1 ELSE 0)
    BY <1>0, <2>1, <2>2 DEF CountsNat
  <2>7. \A x \in Sbs : tX(x)' = tX(x)
    BY <1>0, <2>1, <2>2 DEF CountsNat
  <2>8. \A x \in Queues : tO(x)' = tO(x)
    BY <1>0, <2>1, <2>2 DEF CountsNat
  <2>9. \A x \in Nss : tC(x)' = tC(x)
    BY <1>0, <2>1, <2>2 DEF CountsNat
  <2> QED BY <2>3, <2>4, <2>5, <2>6, <2>7, <2>8, <2>9
<1>9. MntRefs(s) > 0 /\ MntRefs(s) \in Nat /\ s_fs_info[s] # NoSb /\ tX(s) = 0
  <2>1. h = Frame("mntput", s)
    BY <1>3 DEF ArgsOK
  <2>2. MntRefs(s) > 0 /\ MntRefs(s) \in Nat
    BY <1>0, <1>3, <2>1, SbParts
  <2> QED BY <1>0, <1>3, <2>2 DEF MountT
<1>10. \A x \in Sbs : MntRefs(x)' = MntRefs(x) - (IF x = s THEN 1 ELSE 0) /\ MntRefs(x) \in Nat
  <2>1. \A x \in Sbs : /\ MntRefs(x)' = MntRefs(x) + tM(x)' - tM(x)
                       /\ MntRefs(x) \in Nat /\ MntRefs(x)' \in Nat /\ tM(x) \in Nat /\ tM(x)' \in Nat
    BY <1>0, <1>1, <1>7, FrameRefs
  <2>2. \A x \in Sbs : tM(x)' = tM(x) - (IF x = s THEN 1 ELSE 0)
    BY <1>8
  <2> QED BY <2>1, <2>2
<1>11. KSame /\ PSame /\ HSame /\ CSame
  BY <1>8, SameCounts
<1>12. LifeInv' /\ RefCount' /\ QueueCounts'
  BY <1>0, <1>1, <1>11, LifeSame, RefSame, CountedSame DEF RefInv, TypeInv
<1>13. MountT'
  <2>1. MntRefs(s) # 1
    BY <1>2
  <2>2. MntRefs(s)' # 0 /\ tX(s)' = 0
    BY <1>3, <1>8, <1>9, <1>10, <2>1
  <2>3. \A x \in Sbs : x # s => MntRefs(x)' = MntRefs(x) /\ tX(x)' = tX(x)
    BY <1>0, <1>8, <1>10 DEF CountsNat
  <2>4. /\ \A x \in Sbs : s_fs_info[x] = NoSb => MntRefs(x)' = 0
        /\ \A x \in Sbs : tX(x)' = IF s_fs_info[x] # NoSb /\ MntRefs(x)' = 0 THEN 1 ELSE 0
    BY <1>0, <1>9, <2>2, <2>3 DEF MountT
  <2>5. alive' = alive /\ count' = count /\ mq_mnt' = mq_mnt /\ s_fs_info' = s_fs_info
    BY <1>1
  <2> QED BY <1>0, <2>4, <2>5 DEF MountT
<1>14. QueueT'
  <2>1. \A x \in Sbs : tX(x) = 1 => tX(x)' = 1
    BY <1>8, <1>9
  <2> QED BY <1>0, <1>1, <1>8, <2>1, QueueKept
<1>15. OwnerInv' /\ CallInv'
  <2>2. PICK fs : fs = <<>>
    OBVIOUS
  <2>1. fs \in Seq(FrameSet) /\ \A i \in 1 .. Len(fs) : FALSE
    BY <2>2
  <2> QED BY <1>0, <1>1, <1>7, <2>1, <2>2, OwnersStay, CallsStay
<1> QED BY <1>12, <1>13, <1>14, <1>15, Restated DEF RefInv

(* The super block is empty and goes.                                      *)
LEMMA Ref_kill_empty ==
    ASSUME IInv, NEW t \in Threads, kill_litter_super(t), may' = may,
           {q \in Queues : inode[q] # NoQueue /\ inode[q].sb = Arg(t)} = {}
    PROVE  RefInv'
<1>0. /\ TypeInv /\ ShapeInv /\ RefInv /\ stack \in [Threads -> Seq(FrameSet)]
      /\ LifeT /\ RefT /\ MountT /\ QueueT /\ CountedT /\ CountsNat /\ OwnerInv /\ CallInv
  BY Before
<1>00. RefsAdd /\ Unowned
  BY <1>0, RefsAre, NoOwners
<1>1. stack[t] # <<>> /\ At(t, "kill") /\ UNCHANGED <<alive, count, nsproxy, mq_mnt, usermnt, inode, mq_queues_count, mq_bytes>>
  BY DEF kill_litter_super, At, nsv, queuev
<1>2. PICK h, s : h = Head(stack[t]) /\ s = Arg(t)
  OBVIOUS
<1>3. /\ h \in FrameSet /\ ArgsOK(t, h) /\ h.at = "kill" /\ h.of = s /\ s \in Sbs /\ h \in Frames(t)
      /\ t \in Tasks
  BY <1>0, <1>1, <1>2, HeadFacts, TaskRuns DEF At, Arg, ArgsOK, NsLabels
<1>4. s_fs_info[s] # NoSb /\ MntRefs(s) = 0 /\ tX(s) = 1
  <2>1. h = Frame("kill", s)
    BY <1>3 DEF ArgsOK
  <2>2. PICK S : S = {Frame("kill", s)}
    OBVIOUS
  <2>3. Total(S) > 0 /\ Total(S) \in Nat
    BY <1>0, <1>3, <2>1, <2>2, Counted
  <2>4. tX(s) # 0
    BY <2>2, <2>3 DEF tX
  <2> QED BY <1>0, <1>3, <2>4 DEF MountT
<1>7. Moves(t, <<>>) /\ TypeInv' /\ <<>> \in Seq(FrameSet) /\ s_fs_info' = [s_fs_info EXCEPT ![s] = NoSb]
  BY <1>2, After_kill_litter_super DEF Ends
<1>5. \A q \in Queues : inode[q] # NoQueue => inode[q].sb # s
  BY <1>2
<1>6. \A x \in Sbs : s_fs_info'[x] = IF x = s THEN NoSb ELSE s_fs_info[x]
  BY <1>0, <1>3, <1>7 DEF TypeInv
<1>70. NoSb \notin Nss /\ NoSb # NoNs
  BY NsConstants
<1>8. /\ \A x \in Nss : tH(x)' = tH(x)
      /\ \A x \in Nss : tK(x)' = tK(x)
      /\ \A x \in Nss : tP(x)' = tP(x)
      /\ \A x \in Sbs : tM(x)' = tM(x)
      /\ \A x \in Sbs : tX(x)' = tX(x) - (IF x = s THEN 1 ELSE 0)
      /\ \A x \in Queues : tO(x)' = tO(x)
      /\ \A x \in Nss : tC(x)' = tC(x)
  <2>1. /\ \A x : hH(h, x) = 0
        /\ \A x : hK(h, x) = 0
        /\ \A x : hP(h, x) = 0
        /\ \A x : hM(h, x) = 0
        /\ \A x : hX(h, x) = IF x = s THEN 1 ELSE 0
        /\ \A x : hO(h, x) = 0
        /\ \A x : hC(h, x) = 0
    BY <1>0, <1>1, <1>2, <1>3, <1>7 DEF hH, hK, hP, hM, hX, hO, hC
  <2>2. /\ \A x \in Nss : tH(x)' = tH(x) - hH(h, x)
        /\ \A x \in Nss : tK(x)' = tK(x) - hK(h, x)
        /\ \A x \in Nss : tP(x)' = tP(x) - hP(h, x)
        /\ \A x \in Sbs : tM(x)' = tM(x) - hM(h, x)
        /\ \A x \in Sbs : tX(x)' = tX(x) - hX(h, x)
        /\ \A x \in Queues : tO(x)' = tO(x) - hO(h, x)
        /\ \A x \in Nss : tC(x)' = tC(x) - hC(h, x)
    BY <1>0, <1>1, <1>2, <1>3, <1>7, Pop0
  <2>3. \A x \in Nss : tH(x)' = tH(x)
    BY <1>0, <2>1, <2>2 DEF CountsNat
  <2>4. \A x \in Nss : tK(x)' = tK(x)
    BY <1>0, <2>1, <2>2 DEF CountsNat
  <2>5. \A x \in Nss : tP(x)' = tP(x)
    BY <1>0, <2>1, <2>2 DEF CountsNat
  <2>6. \A x \in Sbs : tM(x)' = tM(x)
    BY <1>0, <2>1, <2>2 DEF CountsNat
  <2>7. \A x \in Sbs : tX(x)' = tX(x) - (IF x = s THEN 1 ELSE 0)
    BY <1>0, <2>1, <2>2 DEF CountsNat
  <2>8. \A x \in Queues : tO(x)' = tO(x)
    BY <1>0, <2>1, <2>2 DEF CountsNat
  <2>9. \A x \in Nss : tC(x)' = tC(x)
    BY <1>0, <2>1, <2>2 DEF CountsNat
  <2> QED BY <2>3, <2>4, <2>5, <2>6, <2>7, <2>8, <2>9
<1>9. KSame /\ PSame /\ HSame /\ CSame
  BY <1>8, SameCounts
<1>10. LifeInv' /\ RefCount' /\ QueueCounts'
  BY <1>0, <1>1, <1>9, LifeSame, RefSame, CountedSame DEF RefInv, TypeInv
<1>11. MountT'
  <2>0. alive' = alive /\ count' = count /\ mq_mnt' = mq_mnt
    BY <1>1
  <2>1. \A x \in Sbs : MntRefs(x)' = MntRefs(x)
    BY <1>0, <1>1, <1>7, <1>8, FrameRefs
  <2>2. \A x \in Nss : mq_mnt[x] # s
    BY <1>0, <1>3, <1>4, SbParts
  <2>3. /\ \A x \in Nss : count'[x] > 0 => mq_mnt'[x] \in Sbs /\ s_fs_info'[mq_mnt'[x]] = x
        /\ \A x \in Nss \ alive' : mq_mnt'[x] = NoSb
    BY <1>0, <1>6, <2>0, <2>2 DEF MountT
  <2>4. \A x \in Sbs : s_fs_info'[x] \in Nss => count'[s_fs_info'[x]] > 0 /\ mq_mnt'[s_fs_info'[x]] = x
    BY <1>0, <1>6, <1>70, <2>0 DEF MountT
  <2>5. tX(s)' = 0 /\ \A x \in Sbs : x # s => tX(x)' = tX(x)
    BY <1>0, <1>3, <1>4, <1>8 DEF CountsNat
  <2>6. /\ \A x \in Sbs : s_fs_info'[x] = NoSb => MntRefs(x)' = 0
        /\ \A x \in Sbs : tX(x)' = IF s_fs_info'[x] # NoSb /\ MntRefs(x)' = 0 THEN 1 ELSE 0
    BY <1>0, <1>4, <1>6, <2>1, <2>5 DEF MountT
  <2> QED BY <2>3, <2>4, <2>6 DEF MountT
<1>12. QueueT'
  <2>1. \A q \in Queues : inode[q] # NoQueue => inode[q].sb \in Sbs
    BY <1>0 DEF TypeInv, QueueRecord
  <2>2. \A x \in Sbs : x # s => tX(x)' = tX(x) /\ s_fs_info'[x] = s_fs_info[x]
    BY <1>0, <1>6, <1>8 DEF CountsNat
  <2>3. \A q \in Queues : tO(q)' = tO(q)
    BY <1>8
  <2>4. inode' = inode
    BY <1>1
  <2> QED BY <1>0, <1>5, <2>1, <2>2, <2>3, <2>4 DEF QueueT
<1>13. PICK fs : fs = <<>>
  OBVIOUS
<1>14. fs \in Seq(FrameSet) /\ Moves(t, fs) /\ \A i \in 1 .. Len(fs) : FALSE
  BY <1>7, <1>13
<1>15. OwnerInv'
  BY <1>0, <1>1, <1>14, OwnersStay
<1>16. CallInv'
  <2>1. ASSUME NEW u \in Threads, NEW f \in Frames(u), CallOK(f)
        PROVE  CallOK(f)'
    <3>1. f \in FrameSet /\ ArgsOK(u, f)
        BY <1>0, AllArgs
    <3>2. f.at = "release" => inode[f.of].sb \in Sbs /\ inode[f.of].sb # s
        BY <1>5, OwnedQueue DEF QueueRecord
    <3>3. f.at = "inode" => f.of \in Sbs /\ f.of # s
      <4> SUFFICES ASSUME f.at = "inode" PROVE f.of \in Sbs /\ f.of # s
        OBVIOUS
      <4>1. f.of \in Sbs
        BY <3>1 DEF ArgsOK
      <4>2. PICK i \in DOMAIN stack[u] : stack[u][i] = f
        BY DEF Frames
      <4>3. Below(u, i, {Frame("mntput", f.of)})
        BY <1>0, <4>2 DEF ShapeInv, Shape
      <4>4. MntRefs(f.of) > 0
        BY <1>0, <4>1, <4>3, MntputRefs
      <4> QED BY <1>4, <4>1, <4>4
    <3> QED BY <1>1, <1>6, <2>1, <3>2, <3>3 DEF CallOK
  <2> QED BY <1>0, <1>14, <2>1, CallStep
<1> QED BY <1>10, <1>11, <1>12, <1>15, <1>16, Restated DEF RefInv

(* A queue that is left is deleted with its super block; nobody else sees  *)
(* to it.                                                                  *)
LEMMA Ref_kill_left ==
    ASSUME IInv, NEW t \in Threads, kill_litter_super(t), may' = may,
           {q \in Queues : inode[q] # NoQueue /\ inode[q].sb = Arg(t)} # {}
    PROVE  RefInv'
<1>0. /\ TypeInv /\ ShapeInv /\ RefInv /\ stack \in [Threads -> Seq(FrameSet)]
      /\ LifeT /\ RefT /\ MountT /\ QueueT /\ CountedT /\ CountsNat /\ OwnerInv /\ CallInv
  BY Before
<1>00. RefsAdd /\ Unowned
  BY <1>0, RefsAre, NoOwners
<1>1. stack[t] # <<>> /\ At(t, "kill") /\ UNCHANGED <<alive, count, nsproxy, mq_mnt, usermnt, inode, mq_queues_count, mq_bytes>>
  BY DEF kill_litter_super, At, nsv, queuev
<1>2. PICK h, s : h = Head(stack[t]) /\ s = Arg(t)
  OBVIOUS
<1>3. /\ h \in FrameSet /\ ArgsOK(t, h) /\ h.at = "kill" /\ h.of = s /\ s \in Sbs /\ h \in Frames(t)
      /\ t \in Tasks
  BY <1>0, <1>1, <1>2, HeadFacts, TaskRuns DEF At, Arg, ArgsOK, NsLabels
<1>4. s_fs_info[s] # NoSb /\ MntRefs(s) = 0 /\ tX(s) = 1
  <2>1. h = Frame("kill", s)
    BY <1>3 DEF ArgsOK
  <2>2. PICK S : S = {Frame("kill", s)}
    OBVIOUS
  <2>3. Total(S) > 0 /\ Total(S) \in Nat
    BY <1>0, <1>3, <2>1, <2>2, Counted
  <2>4. tX(s) # 0
    BY <2>2, <2>3 DEF tX
  <2> QED BY <1>0, <1>3, <2>4 DEF MountT
<1>50. s_fs_info' = s_fs_info /\ \E q \in Queues : inode[q] # NoQueue /\ inode[q].sb = s
                     /\ Ends(t, <<Frame("delete", q), Frame("kill", s)>>)
  BY <1>2, After_kill_litter_super
<1>5. PICK p \in Queues : inode[p] # NoQueue /\ inode[p].sb = s /\ Ends(t, <<Frame("delete", p), Frame("kill", s)>>)
  BY <1>50
<1>6. PICK a, b : a = Frame("delete", p) /\ b = Frame("kill", s)
  OBVIOUS
<1>60. /\ a \in FrameSet /\ ArgsOK(t, a) /\ a.at = "delete" /\ a.of = p
       /\ b \in FrameSet /\ ArgsOK(t, b) /\ b.at = "kill" /\ b.of = s
  BY <1>3, <1>6, PlainFrames
<1>7. Moves(t, <<a, b>>) /\ TypeInv' /\ <<a, b>> \in Seq(FrameSet)
  BY <1>5, <1>6 DEF Ends
<1>8. /\ \A x \in Nss : tH(x)' = tH(x)
      /\ \A x \in Nss : tK(x)' = tK(x)
      /\ \A x \in Nss : tP(x)' = tP(x)
      /\ \A x \in Sbs : tM(x)' = tM(x)
      /\ \A x \in Sbs : tX(x)' = tX(x) + (IF x = s THEN 1 ELSE 0) - (IF x = s THEN 1 ELSE 0)
      /\ \A x \in Queues : tO(x)' = tO(x) + (IF x = p THEN 1 ELSE 0)
      /\ \A x \in Nss : tC(x)' = tC(x)
  <2>1. /\ \A x : hH(a, x) = 0
        /\ \A x : hK(a, x) = 0
        /\ \A x : hP(a, x) = 0
        /\ \A x : hM(a, x) = 0
        /\ \A x : hX(a, x) = 0
        /\ \A x : hO(a, x) = IF x = p THEN 1 ELSE 0
        /\ \A x : hC(a, x) = 0
        /\ \A x : hH(b, x) = 0
        /\ \A x : hK(b, x) = 0
        /\ \A x : hP(b, x) = 0
        /\ \A x : hM(b, x) = 0
        /\ \A x : hX(b, x) = IF x = s THEN 1 ELSE 0
        /\ \A x : hO(b, x) = 0
        /\ \A x : hC(b, x) = 0
        /\ \A x : hH(h, x) = 0
        /\ \A x : hK(h, x) = 0
        /\ \A x : hP(h, x) = 0
        /\ \A x : hM(h, x) = 0
        /\ \A x : hX(h, x) = IF x = s THEN 1 ELSE 0
        /\ \A x : hO(h, x) = 0
        /\ \A x : hC(h, x) = 0
    BY <1>0, <1>1, <1>2, <1>3, <1>60, <1>7 DEF hH, hK, hP, hM, hX, hO, hC
  <2>2. /\ \A x \in Nss : tH(x)' = tH(x) + hH(a, x) + hH(b, x) - hH(h, x)
        /\ \A x \in Nss : tK(x)' = tK(x) + hK(a, x) + hK(b, x) - hK(h, x)
        /\ \A x \in Nss : tP(x)' = tP(x) + hP(a, x) + hP(b, x) - hP(h, x)
        /\ \A x \in Sbs : tM(x)' = tM(x) + hM(a, x) + hM(b, x) - hM(h, x)
        /\ \A x \in Sbs : tX(x)' = tX(x) + hX(a, x) + hX(b, x) - hX(h, x)
        /\ \A x \in Queues : tO(x)' = tO(x) + hO(a, x) + hO(b, x) - hO(h, x)
        /\ \A x \in Nss : tC(x)' = tC(x) + hC(a, x) + hC(b, x) - hC(h, x)
    BY <1>0, <1>1, <1>2, <1>3, <1>60, <1>7, Pop2
  <2>3. \A x \in Nss : tH(x)' = tH(x)
    BY <1>0, <2>1, <2>2 DEF CountsNat
  <2>4. \A x \in Nss : tK(x)' = tK(x)
    BY <1>0, <2>1, <2>2 DEF CountsNat
  <2>5. \A x \in Nss : tP(x)' = tP(x)
    BY <1>0, <2>1, <2>2 DEF CountsNat
  <2>6. \A x \in Sbs : tM(x)' = tM(x)
    BY <1>0, <2>1, <2>2 DEF CountsNat
  <2>7. \A x \in Sbs : tX(x)' = tX(x) + (IF x = s THEN 1 ELSE 0) - (IF x = s THEN 1 ELSE 0)
    BY <1>0, <2>1, <2>2 DEF CountsNat
  <2>8. \A x \in Queues : tO(x)' = tO(x) + (IF x = p THEN 1 ELSE 0)
    BY <1>0, <2>1, <2>2 DEF CountsNat
  <2>9. \A x \in Nss : tC(x)' = tC(x)
    BY <1>0, <2>1, <2>2 DEF CountsNat
  <2> QED BY <2>3, <2>4, <2>5, <2>6, <2>7, <2>8, <2>9
<1>80. \A x \in Sbs : tX(x)' = tX(x)
  BY <1>0, <1>8 DEF CountsNat
<1>9. KSame /\ PSame /\ HSame /\ CSame /\ MSame /\ XSame
  BY <1>8, <1>80, SameCounts
<1>10. LifeInv' /\ RefCount' /\ QueueCounts'
  BY <1>0, <1>1, <1>9, LifeSame, RefSame, CountedSame DEF RefInv, TypeInv
<1>11. MountInv'
  BY <1>0, <1>1, <1>9, <1>50, RefsSame, MountSame DEF RefInv
<1>12. tO(p) = 0
  <2> SUFFICES ASSUME tO(p) # 0 PROVE FALSE
    OBVIOUS
  <2>1. PICK S : S = Owners(p)
    OBVIOUS
  <2>2. Total(S) > 0
    BY <1>0, <2>1 DEF tO, CountsNat
  <2>3. PICK u \in Threads : \E f \in Frames(u) : f \in S
    BY <1>0, <2>2, Counted
  <2>4. PICK i \in DOMAIN stack[u] : stack[u][i] \in S
    BY <2>3 DEF Frames
  <2>5. Below(u, i, Keepers(stack[u][i], s))
    BY <1>0, <1>5, <2>1, <2>4 DEF OwnerInv
  <2>6. PICK j \in DOMAIN stack[u] : j > i /\ stack[u][j] \in {Frame("mntput", s), Frame("kill", s)}
    BY <2>5 DEF Below, Keepers
  <2>7. stack[u][j] # Frame("mntput", s)
    <3> SUFFICES ASSUME stack[u][j] = Frame("mntput", s) PROVE FALSE
        OBVIOUS
    <3>1. Below(u, i, {Frame("mntput", s)})
        BY <2>6 DEF Below
    <3> QED BY <1>0, <1>3, <1>4, <3>1, MntputRefs
  <2>8. PICK Z : Z = {Frame("kill", s)}
    OBVIOUS
  <2>9. Total(Z) <= 1
    BY <1>4, <2>8 DEF tX
  <2>10. h = Frame("kill", s) /\ h = stack[t][1] /\ 1 \in DOMAIN stack[t]
    BY <1>0, <1>1, <1>2, <1>3, HeadFacts DEF ArgsOK
  <2>11. j = 1
    BY <1>0, <2>6, <2>7, <2>8, <2>9, <2>10, TotalPlaces
  <2>12. i \in Nat /\ i >= 1
    BY <1>0
  <2> QED BY <2>6, <2>11, <2>12
<1>13. QueueT'
  <2>1. \A q \in Queues : inode[q] # NoQueue => inode[q].sb \in Sbs
    BY <1>0 DEF TypeInv, QueueRecord
  <2>2. tO(p)' = 1 /\ \A q \in Queues : q # p => tO(q)' = tO(q)
    BY <1>0, <1>8, <1>12 DEF CountsNat
  <2>3. inode' = inode /\ s_fs_info' = s_fs_info
    BY <1>1, <1>50
  <2> QED BY <1>0, <1>3, <1>4, <1>5, <1>80, <2>1, <2>2, <2>3 DEF QueueT
<1>14. PICK fs : fs = <<a, b>>
  OBVIOUS
<1>15. /\ fs \in Seq(FrameSet) /\ Moves(t, fs) /\ Len(fs) = 2 /\ fs[1] = a /\ fs[2] = b
       /\ \A i \in 1 .. Len(fs) : i \in {1, 2} /\ fs[i] \in {a, b}
  BY <1>7, <1>14
<1>16. CallInv'
  BY <1>0, <1>1, <1>15, <1>50, <1>60, CallsStay
<1>17. OwnerInv'
  <2>1. ASSUME NEW i \in 1 .. Len(fs), NEW q \in Queues, fs[i] \in Owners(q)
        PROVE  Below(t, i, Keepers(fs[i], inode[q].sb))'
    <3>1. i = 1 /\ q = p /\ fs[i] = a
        BY <1>15, <1>60, <2>1 DEF Owners
    <3>2. stack' \in [Threads -> Seq(FrameSet)] /\ Len(stack'[t]) = Len(fs) + Len(stack[t]) - Drop(t)
          /\ \A k \in 1 .. Len(fs) : stack'[t][k] = fs[k]
        BY <1>0, <1>15, MoveStack
    <3>20. stack'[t][2] = b
        BY <1>15, <3>2
    <3>3. 2 \in DOMAIN stack'[t]
        BY <1>0, <1>1, <1>15, <3>2 DEF Drop
    <3>4. inode'[q].sb = s /\ b \in Keepers(a, inode'[q].sb)
        BY <1>1, <1>5, <1>6, <1>60, <3>1 DEF Keepers
    <3> QED BY <3>1, <3>20, <3>3, <3>4 DEF Below, Keepers
  <2>2. \A q \in Queues : inode'[q].sb = inode[q].sb
    BY <1>1
  <2> QED BY <1>0, <1>15, <2>1, <2>2, OwnerStep
<1> QED BY <1>10, <1>11, <1>13, <1>16, <1>17, Restated DEF RefInv
=============================================================================
