------------------------------ MODULE FoldFacts ------------------------------
(***************************************************************************)
(* What the folds of the community modules compute, one element after the  *)
(* other, for any operator Op.  A module that folds with an operator of    *)
(* its own instantiates this one.                                          *)
(***************************************************************************)
EXTENDS Integers, SequencesExt, SequenceTheorems, WellFoundedInduction, NaturalsInduction, TLAPS

CONSTANT Op(_, _)

(***************************************************************************)
(* Least and greatest elements, which stand in for induction               *)
(***************************************************************************)
LEMMA LeastElement ==
    ASSUME NEW T \in SUBSET Nat, T # {}
    PROVE  \E x \in T : \A y \in T : x <= y
<1> DEFINE R == {ss \in Nat \X Nat : ss[1] < ss[2]}
<1>1. IsWellFoundedOn(R, Nat)
  BY NatLessThanWellFounded DEF OpToRel
<1>2. PICK x \in T : \A y \in T : ~(<<y, x>> \in R)
  BY <1>1, WFMin
<1>3. \A y \in T : ~(y < x)
  BY <1>2
<1> QED
  BY <1>3

\* Induction up to n, for the set of the numbers that have a property.
LEMMA CountUp ==
    ASSUME NEW n \in Nat, NEW T \in SUBSET (0..n), 0 \in T,
           \A i \in 1..n : i - 1 \in T => i \in T
    PROVE  T = 0..n
<1> DEFINE U == (0..n) \ T
<1> SUFFICES ASSUME U # {} PROVE FALSE
  OBVIOUS
<1>1. U \in SUBSET Nat
  OBVIOUS
<1>2. PICK m \in U : \A k \in U : m <= k
  BY <1>1, LeastElement
<1>3. m \in 1..n /\ m - 1 \in 0..n /\ m - 1 \notin U
  BY <1>2
<1> QED
  BY <1>3

LEMMA MaxIsGreatest ==
    ASSUME NEW n \in Nat, NEW T \in SUBSET (1..n), T # {}
    PROVE  Max(T) \in T /\ \A y \in T : Max(T) >= y
<1> DEFINE D == {i \in Nat : \E y \in T : i = n - y}
<1>1. D \in SUBSET Nat /\ D # {}
  <2>1. PICK y \in T : TRUE
    OBVIOUS
  <2>2. n - y \in D
    OBVIOUS
  <2> QED
    BY <2>2
<1>2. PICK d \in D : \A e \in D : d <= e
  BY <1>1, LeastElement
<1>3. PICK x \in T : d = n - x
  OBVIOUS
<1>4. \A y \in T : x >= y
  <2> SUFFICES ASSUME NEW y \in T PROVE x >= y
    OBVIOUS
  <2>1. n - y \in D
    OBVIOUS
  <2> QED
    BY <1>2, <1>3, <2>1
<1> QED
  BY <1>3, <1>4 DEF Max

LEMMA MaxOfInterval ==
    ASSUME NEW n \in Nat, n > 0
    PROVE  Max(1..n) = n
<1>1. Max(1..n) \in 1..n /\ \A y \in 1..n : Max(1..n) >= y
  <2>1. 1 \in 1..n
    OBVIOUS
  <2> QED
    BY <2>1, MaxIsGreatest
<1> QED
  BY <1>1

(***************************************************************************)
(* FoldLeft                                                                *)
(***************************************************************************)
\* The function that MapThenFoldSet defines on the subsets of 1..m.
Iterates(g, base, s, m) ==
    g = [x \in SUBSET (1..m) |-> IF x = {} THEN base ELSE Op(g[x \ {Max(x)}], s[Max(x)])]

LEMMA IterationExists ==
    ASSUME NEW n \in Nat, NEW s, NEW base
    PROVE  \E g : Iterates(g, base, s, n)
<1> DEFINE T == {m \in 0..n : ~ \E g : Iterates(g, base, s, m)}
<1> SUFFICES ASSUME T # {} PROVE FALSE
  OBVIOUS
<1>1. T \in SUBSET Nat
  OBVIOUS
<1>2. PICK m \in T : \A k \in T : m <= k
  BY <1>1, LeastElement
<1>3. CASE m = 0
  <2> DEFINE g == [x \in SUBSET (1..0) |-> base]
  <2>1. \A x \in SUBSET (1..0) : x = {}
    OBVIOUS
  <2>2. Iterates(g, base, s, 0)
    BY <2>1 DEF Iterates
  <2> QED
    BY <1>3, <2>2
<1>4. CASE m # 0
  <2>1. m - 1 \in 0..n /\ m \in 1..n /\ m \in Nat
    BY <1>4
  <2>2. m - 1 \notin T
    BY <1>2, <2>1
  <2>3. PICK h : Iterates(h, base, s, m - 1)
    BY <2>1, <2>2
  <2> DEFINE g == [x \in SUBSET (1..m) |-> IF m \in x THEN Op(h[x \ {m}], s[m]) ELSE h[x]]
  <2>4. \A x \in SUBSET (1..m) : x # {} => Max(x) \in x /\ \A y \in x : Max(x) >= y
    BY <2>1, MaxIsGreatest
  <2>5. ASSUME NEW x \in SUBSET (1..m)
        PROVE  g[x] = IF x = {} THEN base ELSE Op(g[x \ {Max(x)}], s[Max(x)])
    <3>1. CASE m \in x
      <4>1. Max(x) = m
        <5>1. Max(x) \in x /\ Max(x) >= m
          BY <2>4, <3>1
        <5>2. Max(x) \in 1..m
          BY <5>1
        <5> QED
          BY <2>1, <5>1, <5>2
      <4>2. x \ {m} \in SUBSET (1..m) /\ m \notin x \ {m}
        OBVIOUS
      <4>3. g[x \ {m}] = h[x \ {m}]
        BY <4>2
      <4>4. g[x] = Op(h[x \ {m}], s[m])
        BY <3>1
      <4> HIDE DEF g
      <4> QED
        BY <3>1, <4>1, <4>3, <4>4
    <3>2. CASE m \notin x
      <4>1. x \in SUBSET (1..(m - 1))
        BY <2>1, <3>2
      <4>2. g[x] = h[x]
        BY <3>2
      <4>3. h[x] = IF x = {} THEN base ELSE Op(h[x \ {Max(x)}], s[Max(x)])
        BY <2>3, <4>1 DEF Iterates
      <4>4. g[x \ {Max(x)}] = h[x \ {Max(x)}]
        BY <3>2
      <4> HIDE DEF g
      <4> QED
        BY <4>2, <4>3, <4>4
    <3> QED
      BY <3>1, <3>2
  <2>6. Iterates(g, base, s, m)
    <3>1. g = [x \in SUBSET (1..m) |-> g[x]]
      OBVIOUS
    <3> HIDE DEF g
    <3> QED
      BY <2>5, <3>1, Zenon DEF Iterates
  <2> QED
    BY <2>6
<1> QED
  BY <1>3, <1>4

\* The results so far, from the base to the fold of all of s.
Run(run, base, s, n) ==
    run[0] = base /\ \A i \in 1..n : run[i] = Op(run[i - 1], s[i])

LEMMA FoldLeftRuns ==
    ASSUME NEW n \in Nat, NEW s, DOMAIN s = 1..n, NEW base
    PROVE  \E run : Run(run, base, s, n) /\ FoldLeft(Op, base, s) = run[n]
<1> DEFINE it == CHOOSE g : Iterates(g, base, s, n)
           run == [i \in 0..n |-> it[1..i]]
<1>1. Iterates(it, base, s, n)
  BY IterationExists
<1>2. FoldLeft(Op, base, s) = it[DOMAIN s]
  BY DEF FoldLeft, MapThenFoldSet, Iterates
<1> HIDE DEF it
<1>3. \A i \in 0..n : it[1..i] = IF 1..i = {} THEN base ELSE Op(it[(1..i) \ {Max(1..i)}], s[Max(1..i)])
  <2>1. \A i \in 0..n : 1..i \in SUBSET (1..n)
    OBVIOUS
  <2> QED
    BY <1>1, <2>1 DEF Iterates
<1>4. run[0] = base
  <2>1. 0 \in 0..n /\ 1..0 = {}
    OBVIOUS
  <2>2. it[1..0] = base
    BY <1>3, <2>1, Zenon
  <2> QED
    BY <2>1, <2>2
<1>5. ASSUME NEW i \in 1..n PROVE run[i] = Op(run[i - 1], s[i])
  <2>1. i \in Nat /\ i > 0 /\ i \in 0..n /\ (1..i) \ {i} = 1..(i - 1) /\ 1..i # {}
    <3>1. \A k \in 1..i : k # i => k \in 1..(i - 1)
      OBVIOUS
    <3>2. 1..(i - 1) \subseteq 1..i /\ i \notin 1..(i - 1) /\ i \in 1..i
      OBVIOUS
    <3>3. (1..i) \ {i} = 1..(i - 1) /\ 1..i # {}
      BY <3>1, <3>2, Zenon
    <3>4. i \in Nat /\ i > 0 /\ i \in 0..n
      OBVIOUS
    <3> QED
      BY <3>3, <3>4
  <2>2. Max(1..i) = i
    BY <2>1, MaxOfInterval
  <2>3. it[1..i] = Op(it[(1..i) \ {Max(1..i)}], s[Max(1..i)])
    BY <1>3, <2>1, Zenon
  <2>4. it[1..i] = Op(it[1..(i - 1)], s[i])
    BY <2>1, <2>2, <2>3, Zenon
  <2> QED
    BY <2>4
<1>6. run[n] = it[DOMAIN s]
  OBVIOUS
<1> HIDE DEF run
<1> QED
  BY <1>2, <1>4, <1>5, <1>6 DEF Run

\* A fold is one run: two that begin alike go on alike.
LEMMA RunsAgree ==
    ASSUME NEW n \in Nat, NEW s, NEW t, NEW base, NEW f, NEW g,
           Run(f, base, s, n), Run(g, base, t, n), \A i \in 1..n : s[i] = t[i]
    PROVE  \A i \in 0..n : f[i] = g[i]
<1> DEFINE T == {i \in 0..n : f[i] # g[i]}
<1> SUFFICES ASSUME T # {} PROVE FALSE
  OBVIOUS
<1>1. T \in SUBSET Nat
  OBVIOUS
<1>2. PICK m \in T : \A k \in T : m <= k
  BY <1>1, LeastElement
<1>3. m # 0
  BY DEF Run
<1>4. m - 1 \in 0..n /\ m \in 1..n /\ f[m - 1] = g[m - 1]
  BY <1>2, <1>3
<1> QED
  BY <1>4 DEF Run

LEMMA FoldLeftEmpty ==
    ASSUME NEW base
    PROVE  FoldLeft(Op, base, <<>>) = base
<1>1. DOMAIN <<>> = 1..0
  OBVIOUS
<1>2. \E run : Run(run, base, <<>>, 0) /\ FoldLeft(Op, base, <<>>) = run[0]
  BY <1>1, FoldLeftRuns
<1> QED
  BY <1>2 DEF Run

LEMMA FoldLeftAppends ==
    ASSUME NEW S, NEW s \in Seq(S), NEW x \in S, NEW base
    PROVE  FoldLeft(Op, base, Append(s, x)) = Op(FoldLeft(Op, base, s), x)
<1> DEFINE n == Len(s)
           t == Append(s, x)
<1>1. /\ n \in Nat /\ DOMAIN s = 1..n /\ t \in Seq(S) /\ DOMAIN t = 1..(n + 1)
      /\ \A i \in 1..n : t[i] = s[i]
      /\ t[n + 1] = x
  BY AppendProperties, LenProperties
<1> HIDE DEF n, t
<1>2. PICK f : Run(f, base, s, n) /\ FoldLeft(Op, base, s) = f[n]
  BY <1>1, FoldLeftRuns
<1>3. PICK g : Run(g, base, t, n + 1) /\ FoldLeft(Op, base, t) = g[n + 1]
  BY <1>1, FoldLeftRuns
<1>4. Run(g, base, t, n)
  BY <1>1, <1>3 DEF Run
<1>5. f[n] = g[n]
  BY <1>1, <1>2, <1>4, RunsAgree
<1>6. g[n + 1] = Op(g[n + 1 - 1], t[n + 1]) /\ n + 1 - 1 = n
  BY <1>1, <1>3 DEF Run
<1> QED
  BY <1>1, <1>2, <1>3, <1>5, <1>6 DEF t

LEMMA FoldLeftConcat ==
    ASSUME NEW S, NEW s \in Seq(S), NEW t \in Seq(S), NEW base
    PROVE  FoldLeft(Op, base, s \o t) = FoldLeft(Op, FoldLeft(Op, base, s), t)
<1> DEFINE n == Len(s)
           k == Len(t)
           u == s \o t
<1>1. /\ n \in Nat /\ k \in Nat /\ DOMAIN s = 1..n /\ DOMAIN t = 1..k
      /\ DOMAIN u = 1..(n + k)
      /\ \A i \in 1..n : u[i] = s[i]
      /\ \A i \in 1..k : u[n + i] = t[i]
  BY ConcatProperties, LenProperties
<1> HIDE DEF n, k, u
<1>2. PICK f : Run(f, base, s, n) /\ FoldLeft(Op, base, s) = f[n]
  BY <1>1, FoldLeftRuns
<1>3. PICK g : Run(g, f[n], t, k) /\ FoldLeft(Op, f[n], t) = g[k]
  BY <1>1, FoldLeftRuns
<1>4. PICK h : Run(h, base, u, n + k) /\ FoldLeft(Op, base, u) = h[n + k]
  BY <1>1, FoldLeftRuns
<1>5. h[n] = f[n]
  <2>1. Run(h, base, u, n)
    BY <1>1, <1>4 DEF Run
  <2> QED
    BY <1>1, <1>2, <2>1, RunsAgree
<1> DEFINE r == [i \in 0..k |-> h[n + i]]
<1>6. Run(r, f[n], t, k)
  <2>1. r[0] = f[n]
    BY <1>1, <1>5
  <2>2. ASSUME NEW i \in 1..k PROVE r[i] = Op(r[i - 1], t[i])
    <3>1. h[n + i] = Op(h[n + i - 1], u[n + i]) /\ n + i - 1 = n + (i - 1)
      BY <1>1, <1>4 DEF Run
    <3> QED
      BY <1>1, <3>1
  <2> QED
    BY <2>1, <2>2 DEF Run
<1>7. r[k] = g[k] /\ r[k] = h[n + k]
  BY <1>1, <1>3, <1>6, RunsAgree
<1> QED
  BY <1>2, <1>3, <1>4, <1>7 DEF u

(***************************************************************************)
(* Chains: the elements of s joined by Op, as FlattenSeq joins sequences   *)
(***************************************************************************)
Chain(s) ==
    LET chain[i \in 1..Len(s)] == IF i = 1 THEN s[i] ELSE Op(chain[i - 1], s[i])
    IN chain

Chains(f, s, m) ==
    f = [i \in 1..m |-> IF i = 1 THEN s[i] ELSE Op(f[i - 1], s[i])]

LEMMA ChainRuns ==
    ASSUME NEW S, NEW s \in Seq(S)
    PROVE  /\ Chain(s) = [i \in 1..Len(s) |-> Chain(s)[i]]
           /\ Len(s) > 0 => Chain(s)[1] = s[1]
           /\ \A i \in 2..Len(s) : Chain(s)[i] = Op(Chain(s)[i - 1], s[i])
<1> DEFINE n == Len(s)
           T == {m \in 0..n : ~ \E f : Chains(f, s, m)}
<1>1. n \in Nat /\ T \in SUBSET Nat
  OBVIOUS
<1>2. ASSUME T # {} PROVE FALSE
  <2>1. PICK m \in T : \A k \in T : m <= k
    BY <1>1, <1>2, LeastElement
  <2>2. CASE m = 0
    <3>1. Chains([i \in 1..0 |-> 0], s, 0)
      BY DEF Chains
    <3> QED
      BY <2>2, <3>1
  <2>3. CASE m # 0
    <3>1. m - 1 \in 0..n /\ m \in 1..n
      BY <2>3
    <3>2. m - 1 \notin T
      BY <2>1, <3>1
    <3>3. PICK h : Chains(h, s, m - 1)
      BY <3>1, <3>2
    <3> DEFINE f == [i \in 1..m |-> IF i < m THEN h[i] ELSE IF m = 1 THEN s[1] ELSE Op(h[m - 1], s[m])]
    <3>4. ASSUME NEW i \in 1..m
          PROVE  f[i] = IF i = 1 THEN s[i] ELSE Op(f[i - 1], s[i])
      <4>1. CASE i < m
        <5>1. i \in 1..(m - 1) /\ f[i] = h[i] /\ (i # 1 => f[i - 1] = h[i - 1])
          BY <3>1, <4>1
        <5> HIDE DEF f
        <5> QED
          BY <3>3, <5>1 DEF Chains
      <4>2. CASE i = m
        <5>1. m # 1 => f[m - 1] = h[m - 1]
          BY <3>1
        <5>2. f[m] = IF m = 1 THEN s[1] ELSE Op(h[m - 1], s[m])
          BY <3>1
        <5> HIDE DEF f
        <5> QED
          BY <4>2, <5>1, <5>2
      <4> QED
        BY <3>1, <4>1, <4>2
    <3>5. f = [i \in 1..m |-> f[i]]
      OBVIOUS
    <3>6. Chains(f, s, m)
      <4> HIDE DEF f
      <4> QED
        BY <3>4, <3>5, Zenon DEF Chains
    <3> QED
      BY <3>6
  <2> QED
    BY <2>2, <2>3
<1>3. \E f : Chains(f, s, n)
  BY <1>1, <1>2
<1>4. Chains(Chain(s), s, n)
  BY <1>3, Zenon DEF Chain, Chains
<1> HIDE DEF n, T
<1>5. Chain(s) = [i \in 1..n |-> Chain(s)[i]]
  BY <1>4 DEF Chains
<1>6. ASSUME NEW i \in 1..n
      PROVE  Chain(s)[i] = IF i = 1 THEN s[i] ELSE Op(Chain(s)[i - 1], s[i])
  BY <1>4 DEF Chains
<1>7. n > 0 => Chain(s)[1] = s[1]
  BY <1>1, <1>6
<1>8. \A i \in 2..n : Chain(s)[i] = Op(Chain(s)[i - 1], s[i])
  BY <1>1, <1>6
<1> QED
  BY <1>5, <1>7, <1>8 DEF n

LEMMA ChainAppends ==
    ASSUME NEW S, NEW s \in Seq(S), Len(s) > 0, NEW x \in S
    PROVE  Chain(Append(s, x))[Len(s) + 1] = Op(Chain(s)[Len(s)], x)
<1> DEFINE n == Len(s)
           t == Append(s, x)
           c == Chain(s)
           d == Chain(t)
           T == {0} \cup {i \in 1..n : c[i] = d[i]}
<1>1. /\ n \in Nat /\ t \in Seq(S) /\ Len(t) = n + 1
      /\ \A i \in 1..n : t[i] = s[i]
      /\ t[n + 1] = x
  BY AppendProperties, LenProperties
<1>2. /\ c[1] = s[1] /\ d[1] = t[1]
      /\ \A i \in 2..n : c[i] = Op(c[i - 1], s[i])
      /\ \A i \in 2..(n + 1) : d[i] = Op(d[i - 1], t[i])
  <2>1. c[1] = s[1] /\ \A i \in 2..n : c[i] = Op(c[i - 1], s[i])
    BY ChainRuns
  <2>2. Len(t) > 0 => d[1] = t[1]
    BY <1>1, ChainRuns, Zenon
  <2>3. \A i \in 2..Len(t) : d[i] = Op(d[i - 1], t[i])
    BY <1>1, ChainRuns, Zenon
  <2> HIDE DEF n, t, c, d
  <2>4. Len(t) > 0
    BY <1>1
  <2>5. \A i \in 2..(n + 1) : d[i] = Op(d[i - 1], t[i])
    BY <1>1, <2>3
  <2> QED
    BY <2>1, <2>2, <2>4, <2>5
<1> HIDE DEF n, t, c, d
<1>3. \A i \in 1..n : i - 1 \in T => i \in T
  <2> SUFFICES ASSUME NEW i \in 1..n, i - 1 \in T PROVE c[i] = d[i]
    OBVIOUS
  <2>1. CASE i = 1
    BY <1>1, <1>2, <2>1
  <2>2. CASE i # 1
    BY <1>1, <1>2, <2>2
  <2> QED
    BY <2>1, <2>2
<1>4. T \in SUBSET (0..n) /\ 0 \in T
  BY <1>1
<1>5. T = 0..n
  <2> HIDE DEF T
  <2> QED
    BY <1>1, <1>3, <1>4, CountUp
<1>6. n \in 1..n /\ n + 1 \in 2..(n + 1)
  BY <1>1 DEF n
<1>7. c[n] = d[n]
  BY <1>5, <1>6
<1>8. d[n + 1] = Op(c[n], x)
  BY <1>1, <1>2, <1>6, <1>7
<1> QED
  BY <1>8 DEF c, d, n, t
==============================================================================
