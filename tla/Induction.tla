------------------------------ MODULE Induction ------------------------------
(***************************************************************************)
(* Induction over numbers and sequences, for the proofs about folds. Every  *)
(* lemma is about functions, none about an operator: a property is proved   *)
(* for all numbers by taking the least one that does not have it.           *)
(***************************************************************************)
EXTENDS Integers, Sequences, SequencesExt, NaturalsInduction, WellFoundedInduction,
        SequenceTheorems, FiniteSetTheorems, TLAPS

\* Natural numbers are well ordered: a set of them has a least one.
LEMMA LeastNat ==
    ASSUME NEW T, T \subseteq Nat, T # {}
    PROVE  \E x \in T : \A y \in T : x <= y
<1> DEFINE R == OpToRel(<, Nat)
<1>1. IsWellFoundedOn(R, Nat)
  BY NatLessThanWellFounded
<1>3. \A x, y \in T : y < x => <<y, x>> \in R
  BY DEF OpToRel
<1> HIDE DEF R
<1>2. PICK x \in T : \A y \in T : ~ (<<y, x>> \in R)
  BY <1>1, WFMin
<1>4. x \in Nat /\ \A y \in T : y \in Nat /\ ~ (y < x)
  BY <1>2, <1>3
<1>5. \A y \in T : x <= y
  BY <1>4
<1> QED  BY <1>5

\* The greatest number of a set.
LEMMA MaxOf ==
    ASSUME NEW S, NEW k \in S, \A i \in S : i <= k, S \subseteq Int
    PROVE  Max(S) = k
<1>1. \A y \in S : k >= y
  OBVIOUS
<1>2. Max(S) \in S /\ \A y \in S : Max(S) >= y
  BY <1>1 DEF Max
<1>3. Max(S) \in Int /\ k \in Int /\ Max(S) <= k /\ Max(S) >= k
  BY <1>2
<1> QED  BY <1>3

\* Some of the first n numbers: the greatest of them is one of them.
LEMMA MaxIn ==
    ASSUME NEW n \in Nat, NEW S \in SUBSET (1 .. n), S # {}
    PROVE  Max(S) \in S /\ Max(S) \in 1 .. n
<1> DEFINE T == {n - i : i \in S}
<1>1. T \subseteq Nat /\ T # {}
  OBVIOUS
<1>2. PICK x \in T : \A y \in T : x <= y
  <2> HIDE DEF T
  <2> QED  BY <1>1, LeastNat
<1>3. PICK k \in S : x = n - k
  BY <1>2
<1>4. \A i \in S : i <= k
  <2>1. \A i \in S : n - k <= n - i
    BY <1>2, <1>3
  <2>2. S \subseteq Int /\ n \in Int
    OBVIOUS
  <2>3. k \in Int
    BY <2>2
  <2> HIDE DEF T
  <2> QED  BY <2>1, <2>2, <2>3
<1>5. Max(S) = k
  <2>1. S \subseteq Int
    OBVIOUS
  <2> HIDE DEF T
  <2> QED  BY <1>4, <2>1, MaxOf
<1> HIDE DEF T
<1> QED  BY <1>3, <1>5

\* h has, for each set of the first n numbers, the fold of the steps G over it from base.
FoldsOver(h, n, A, base, G) ==
    /\ h \in [SUBSET (1 .. n) -> A]
    /\ \A s \in SUBSET (1 .. n) :
         h[s] = IF s = {} THEN base ELSE G[Max(s)][h[s \ {Max(s)}]]

\* There is such a function, whatever the steps.
LEMMA FoldExists ==
    ASSUME NEW n \in Nat, NEW A, NEW base \in A, NEW G \in [1 .. n -> [A -> A]]
    PROVE  \E h : FoldsOver(h, n, A, base, G)
<1> DEFINE Fold(k, h) ==
             /\ h \in [SUBSET (1 .. k) -> A]
             /\ \A s \in SUBSET (1 .. k) :
                  h[s] = IF s = {} THEN base ELSE G[Max(s)][h[s \ {Max(s)}]]
<1> DEFINE T == {k \in 0 .. n : ~ \E h : Fold(k, h)}
<1>1. 0 \notin T
  <2> DEFINE h0 == [s \in SUBSET (1 .. 0) |-> base]
  <2>1. Fold(0, h0)
    <3>1. \A s \in SUBSET (1 .. 0) : s = {}
      OBVIOUS
    <3> QED  BY <3>1
  <2> HIDE DEF h0, Fold
  <2> QED  BY <2>1
<1>2. ASSUME NEW k \in 0 .. n, k # 0, k - 1 \notin T
      PROVE  k \notin T
  <2>1. PICK h : Fold(k - 1, h)
    <3>1. k - 1 \in 0 .. n
      BY <1>2
    <3> HIDE DEF Fold
    <3> QED  BY <1>2, <3>1
  <2> DEFINE g == [s \in SUBSET (1 .. k) |-> IF k \in s THEN G[k][h[s \ {k}]] ELSE h[s]]
  <2>2. \A s \in SUBSET (1 .. k) : s \ {k} \in SUBSET (1 .. (k - 1))
    OBVIOUS
  <2>3. g \in [SUBSET (1 .. k) -> A]
    <3>1. ASSUME NEW s \in SUBSET (1 .. k)
          PROVE  g[s] \in A
      <4>1. CASE k \in s
        <5>1. h[s \ {k}] \in A
          BY <2>1, <2>2
        <5>2. k \in 1 .. n
          BY <1>2 DEF T
        <5>3. G[k][h[s \ {k}]] \in A
          BY <5>1, <5>2
        <5> QED  BY <4>1, <5>3
      <4>2. CASE k \notin s
        <5>1. s \in SUBSET (1 .. (k - 1))
          BY <4>2
        <5> QED  BY <4>2, <2>1, <5>1
      <4> QED  BY <4>1, <4>2
    <3> QED  BY <3>1
  <2>4. ASSUME NEW s \in SUBSET (1 .. k)
        PROVE  g[s] = IF s = {} THEN base ELSE G[Max(s)][g[s \ {Max(s)}]]
    <3>1. CASE k \in s
      <4>1. Max(s) = k
        <5>1. s \subseteq Int /\ \A i \in s : i <= k
          OBVIOUS
        <5> QED  BY <3>1, <5>1, MaxOf
      <4>2. g[s] = G[k][h[s \ {k}]]
        BY <3>1
      <4>3. g[s \ {k}] = h[s \ {k}]
        OBVIOUS
      <4> HIDE DEF g
      <4> QED  BY <3>1, <4>1, <4>2, <4>3
    <3>2. CASE k \notin s
      <4>1. s \in SUBSET (1 .. (k - 1))
        BY <3>2
      <4>2. g[s] = h[s] /\ \A x : g[s \ {x}] = h[s \ {x}]
        BY <3>2
      <4>3. h[s] = IF s = {} THEN base ELSE G[Max(s)][h[s \ {Max(s)}]]
        BY <2>1, <4>1
      <4> HIDE DEF g
      <4> QED  BY <4>2, <4>3
    <3> QED  BY <3>1, <3>2
  <2>5. Fold(k, g)
    <3> HIDE DEF g
    <3> QED  BY <2>3, <2>4
  <2> HIDE DEF g, Fold
  <2> QED  BY <2>5
<1>3. T = {}
  <2> SUFFICES ASSUME T # {}
               PROVE  FALSE
    OBVIOUS
  <2>1. T \subseteq 0 .. n
    OBVIOUS
  <2> HIDE DEF T
  <2>2. PICK k \in T : \A j \in T : k <= j
    <3>1. T \subseteq Nat
      BY <2>1
    <3> QED  BY <3>1, LeastNat
  <2>3. k \in 0 .. n /\ k # 0 /\ k - 1 \notin T
    BY <1>1, <2>1, <2>2
  <2> QED  BY <1>2, <2>2, <2>3
<1>4. PICK h : Fold(n, h)
  <2>1. n \in 0 .. n
    OBVIOUS
  <2> HIDE DEF Fold
  <2> QED  BY <1>3, <2>1
<1> QED  BY <1>4 DEF FoldsOver

\* Where the difference of two sums may stand.
LEMMA Moved == \A a, b, d \in Int : (a + d) + b = (a + b) + d /\ a + (b + d) = (a + b) + d
OBVIOUS

\* Two running sums whose terms differ at one place, by d, differ by d from there on.
LEMMA SumsDiffer ==
    ASSUME NEW n \in Nat, NEW p \in [0 .. n -> Int], NEW q \in [0 .. n -> Int],
           NEW v \in [1 .. n -> Int], NEW w \in [1 .. n -> Int],
           NEW k \in 1 .. n, NEW d \in Int,
           p[0] = 0, q[0] = 0,
           \A i \in 1 .. n : p[i] = p[i - 1] + v[i] /\ q[i] = q[i - 1] + w[i],
           \A i \in 1 .. n : w[i] = v[i] + (IF i = k THEN d ELSE 0)
    PROVE  q[n] = p[n] + d
<1> DEFINE T == {i \in 0 .. n : q[i] # p[i] + (IF i >= k THEN d ELSE 0)}
<1>1. T = {}
  <2> SUFFICES ASSUME T # {}
               PROVE  FALSE
    OBVIOUS
  <2>1. T \subseteq Nat
    OBVIOUS
  <2>2. PICK i \in T : \A j \in T : i <= j
    <3> HIDE DEF T
    <3> QED  BY <2>1, LeastNat
  <2>3. i # 0 /\ i \in 1 .. n /\ i - 1 \in 0 .. n /\ i - 1 \notin T
    <3>1. 0 \notin T
      OBVIOUS
    <3>2. i \in 0 .. n /\ i # 0
      BY <2>2, <3>1
    <3>3. \A j \in T : i <= j
      BY <2>2
    <3> HIDE DEF T
    <3> QED  BY <3>2, <3>3
  <2>4. q[i - 1] = p[i - 1] + (IF i - 1 >= k THEN d ELSE 0)
    BY <2>3
  <2>5. /\ p[i] = p[i - 1] + v[i] /\ q[i] = q[i - 1] + w[i]
        /\ w[i] = v[i] + (IF i = k THEN d ELSE 0)
        /\ p[i - 1] \in Int /\ v[i] \in Int
    BY <2>3
  <2>6. q[i] = p[i] + (IF i >= k THEN d ELSE 0)
    <3> HIDE DEF T
    <3>1. i \in Int /\ k \in Int
      BY <2>3
    <3>2. CASE i < k
      <4>1. ~ (i - 1 >= k) /\ ~ (i >= k) /\ i # k
        BY <3>1, <3>2
      <4>2. q[i - 1] = p[i - 1] /\ w[i] = v[i]
        BY <2>4, <2>5, <3>1, <4>1
      <4>3. q[i] = p[i] /\ p[i] \in Int
        BY <2>5, <3>1, <4>2
      <4> QED  BY <3>1, <4>1, <4>3
    <3>3. CASE i = k
      <4>1. ~ (i - 1 >= k) /\ i >= k
        BY <3>1, <3>3
      <4>2. q[i - 1] = p[i - 1] /\ w[i] = v[i] + d
        BY <2>4, <2>5, <3>1, <3>3, <4>1
      <4>3. q[i] = p[i] + d
        <5> PICK a, x : a = p[i - 1] /\ x = v[i]
          OBVIOUS
        <5>1. a \in Int /\ x \in Int /\ p[i] = a + x /\ q[i] = a + (x + d)
          BY <2>5, <4>2, Zenon
        <5>2. a + (x + d) = (a + x) + d
          BY <5>1, Moved, Zenon
        <5> QED  BY <5>1, <5>2, Zenon
      <4> QED  BY <3>1, <4>1, <4>3
    <3>4. CASE i > k
      <4>1. i - 1 >= k /\ i >= k /\ i # k
        BY <3>1, <3>4
      <4>2. q[i - 1] = p[i - 1] + d /\ w[i] = v[i]
        BY <2>4, <2>5, <3>1, <4>1
      <4>3. q[i] = p[i] + d
        <5> PICK a, x : a = p[i - 1] /\ x = v[i]
          OBVIOUS
        <5>1. a \in Int /\ x \in Int /\ p[i] = a + x /\ q[i] = (a + d) + x
          BY <2>5, <4>2, Zenon
        <5>2. (a + d) + x = (a + x) + d
          BY <5>1, Moved, Zenon
        <5> QED  BY <5>1, <5>2, Zenon
      <4> QED  BY <3>1, <4>1, <4>3
    <3> QED  BY <3>1, <3>2, <3>3, <3>4
  <2> QED  BY <2>2, <2>6
<1>2. n \in 0 .. n /\ n >= k
  OBVIOUS
<1> QED  BY <1>1, <1>2

\* What holds of a function's first value, and of each value if of the one before, holds of all.
LEMMA StepByStep ==
    ASSUME NEW n \in Nat, NEW p, NEW A, p[0] \in A,
           \A i \in 1 .. n : p[i - 1] \in A => p[i] \in A
    PROVE  \A i \in 0 .. n : p[i] \in A
<1> DEFINE T == {i \in 0 .. n : p[i] \notin A}
<1>1. T = {}
  <2> SUFFICES ASSUME T # {}
               PROVE  FALSE
    OBVIOUS
  <2>1. T \subseteq Nat
    OBVIOUS
  <2>2. PICK i \in T : \A j \in T : i <= j
    <3> HIDE DEF T
    <3> QED  BY <2>1, LeastNat
  <2>3. i # 0 /\ i \in 1 .. n /\ i - 1 \in 0 .. n /\ i - 1 \notin T
    BY <2>2
  <2> QED  BY <2>2, <2>3
<1> QED  BY <1>1

\* So a fold that stays in a set from one number to the next ends in it.
LEMMA FoldReaches ==
    ASSUME NEW n \in Nat, NEW f, NEW A, f[{}] \in A,
           \A i \in 1 .. n : f[1 .. (i - 1)] \in A => f[1 .. i] \in A
    PROVE  f[1 .. n] \in A
<1> DEFINE p == [i \in 0 .. n |-> f[1 .. i]]
<1>1. p[0] \in A
  <2>1. 1 .. 0 = {} /\ 0 \in 0 .. n
    OBVIOUS
  <2> QED  BY <2>1
<1>2. \A i \in 1 .. n : p[i] = f[1 .. i] /\ p[i - 1] = f[1 .. (i - 1)]
  OBVIOUS
<1>3. n \in 0 .. n /\ p[n] = f[1 .. n]
  OBVIOUS
<1>4. \A i \in 1 .. n : p[i - 1] \in A => p[i] \in A
  <2> HIDE DEF p
  <2> QED  BY <1>2
<1>5. \A i \in 0 .. n : p[i] \in A
  <2> HIDE DEF p
  <2> QED  BY <1>1, <1>4, StepByStep
<1> HIDE DEF p
<1> QED  BY <1>3, <1>5

\* Running sums of the same terms are the same.
LEMMA SumsAgree ==
    ASSUME NEW n \in Nat, NEW p, NEW q, p[0] = q[0],
           NEW v \in [1 .. n -> Int],
           \A i \in 1 .. n : p[i] = p[i - 1] + v[i] /\ q[i] = q[i - 1] + v[i]
    PROVE  p[n] = q[n]
<1> DEFINE T == {i \in 0 .. n : q[i] # p[i]}
<1>1. T = {}
  <2> SUFFICES ASSUME T # {}
               PROVE  FALSE
    OBVIOUS
  <2>1. T \subseteq Nat
    OBVIOUS
  <2>2. PICK i \in T : \A j \in T : i <= j
    <3> HIDE DEF T
    <3> QED  BY <2>1, LeastNat
  <2>3. i # 0 /\ i \in 1 .. n /\ i - 1 \in 0 .. n /\ i - 1 \notin T
    BY <2>2
  <2>4. q[i - 1] = p[i - 1]
    BY <2>3
  <2> QED  BY <2>2, <2>3, <2>4
<1>2. n \in 0 .. n
  OBVIOUS
<1> QED  BY <1>1, <1>2

\* The first k numbers, of which k is the greatest, and what is left without it.
LEMMA MaxOfFirst ==
    ASSUME NEW n \in Nat, NEW k \in 1 .. n
    PROVE  Max(1 .. k) = k
<1>1. k \in 1 .. k /\ (1 .. k) \subseteq Int /\ \A i \in 1 .. k : i <= k
  OBVIOUS
<1>2. QED  BY <1>1, MaxOf

LEMMA FirstLess ==
    ASSUME NEW n \in Nat, NEW k \in 1 .. n
    PROVE  /\ (1 .. k) \in SUBSET (1 .. n) /\ (1 .. k) # {}
           /\ (1 .. k) \ {k} = 1 .. (k - 1)
OBVIOUS

-----------------------------------------------------------------------------
(* Functions defined by recursion, and folds as such.                      *)

\* What holds of 0, and of each number if of the one before, holds of all.
LEMMA UpTo ==
    ASSUME NEW n \in Nat, NEW T, 0 \in T, \A i \in 1 .. n : i - 1 \in T => i \in T
    PROVE  \A i \in 0 .. n : i \in T
<1> DEFINE p == [i \in 0 .. n |-> i]
<1>1. p[0] \in T /\ \A i \in 1 .. n : p[i] = i /\ p[i - 1] = i - 1
  OBVIOUS
<1>2. \A i \in 1 .. n : p[i - 1] \in T => p[i] \in T
  BY <1>1
<1>3. \A i \in 0 .. n : p[i] \in T
  <2> HIDE DEF p
  <2> QED  BY <1>1, <1>2, StepByStep
<1> QED  BY <1>3

\* h is defined by recursion over the first n numbers, from base, by the steps G.
Recurs(h, n, A, base, G) ==
    /\ h \in [0 .. n -> A]
    /\ h[0] = base
    /\ \A i \in 1 .. n : h[i] = G[i][h[i - 1]]

\* There is such a function, whatever the steps.
LEMMA RecursionExists ==
    ASSUME NEW n \in Nat, NEW A, NEW base \in A, NEW G \in [1 .. n -> [A -> A]]
    PROVE  \E h : Recurs(h, n, A, base, G)
<1>1. PICK f : FoldsOver(f, n, A, base, G)
  BY FoldExists
<1> DEFINE h == [i \in 0 .. n |-> f[1 .. i]]
<1>2. h \in [0 .. n -> A]
  <2>1. \A i \in 0 .. n : (1 .. i) \in SUBSET (1 .. n)
    OBVIOUS
  <2> QED  BY <1>1, <2>1 DEF FoldsOver
<1>3. h[0] = base
  <2>1. 1 .. 0 = {} /\ 0 \in 0 .. n
    OBVIOUS
  <2>2. f[{}] = base
    BY <1>1 DEF FoldsOver
  <2> QED  BY <2>1, <2>2
<1>4. ASSUME NEW i \in 1 .. n
      PROVE  h[i] = G[i][h[i - 1]]
  <2>1. /\ (1 .. i) \in SUBSET (1 .. n) /\ (1 .. i) # {}
        /\ (1 .. i) \ {i} = 1 .. (i - 1) /\ Max(1 .. i) = i
    BY FirstLess, MaxOfFirst
  <2>2. f[1 .. i] = G[Max(1 .. i)][f[(1 .. i) \ {Max(1 .. i)}]]
    BY <1>1, <2>1 DEF FoldsOver
  <2>3. h[i] = f[1 .. i] /\ h[i - 1] = f[1 .. (i - 1)]
    OBVIOUS
  <2> HIDE DEF h
  <2> QED  BY <2>1, <2>2, <2>3
<1>5. Recurs(h, n, A, base, G)
  <2> HIDE DEF h
  <2> QED  BY <1>2, <1>3, <1>4 DEF Recurs
<1> HIDE DEF h
<1> QED  BY <1>5

\* A first value in A, and n steps that stay in A.
Steps(n, A, base, G) == n \in Nat /\ base \in A /\ G \in [1 .. n -> [A -> A]]

\* f is the fold of the steps G from base, as long as it stays in A.
FoldedBy(f, n, A, base, G) ==
    /\ f[{}] = base
    /\ \A s \in SUBSET (1 .. n) :
         s # {} /\ f[s \ {Max(s)}] \in A => f[s] = G[Max(s)][f[s \ {Max(s)}]]

\* What f makes of the first n numbers is what a recursion by G leads to.
FoldIsRecursion(f, n, A, base, G) ==
    \E h : Recurs(h, n, A, base, G) /\ h[n] = f[1 .. n]

\* A fold over the first n numbers, whose steps are those of G, is the recursion by G.
LEMMA FoldRecurs ==
    ASSUME NEW n, NEW A, NEW base, NEW G, NEW f,
           Steps(n, A, base, G), FoldedBy(f, n, A, base, G)
    PROVE  FoldIsRecursion(f, n, A, base, G)
<1>0. n \in Nat /\ base \in A /\ G \in [1 .. n -> [A -> A]]
  BY DEF Steps
<1> USE <1>0
<1> DEFINE h == [i \in 0 .. n |-> f[1 .. i]]
<1>1. h[0] = base
  <2>1. 1 .. 0 = {} /\ 0 \in 0 .. n
    OBVIOUS
  <2> QED  BY <2>1 DEF FoldedBy
<1>2. ASSUME NEW i \in 1 .. n, h[i - 1] \in A
      PROVE  h[i] = G[i][h[i - 1]] /\ h[i] \in A
  <2>1. /\ (1 .. i) \in SUBSET (1 .. n) /\ (1 .. i) # {}
        /\ (1 .. i) \ {i} = 1 .. (i - 1) /\ Max(1 .. i) = i
    BY FirstLess, MaxOfFirst
  <2>2. h[i] = f[1 .. i] /\ h[i - 1] = f[1 .. (i - 1)]
    OBVIOUS
  <2> HIDE DEF h
  <2>3. f[1 .. (i - 1)] \in A
    BY <1>2, <2>2
  <2>4. f[1 .. i] = G[i][f[1 .. (i - 1)]]
    BY <2>1, <2>3, Zenon DEF FoldedBy
  <2>5. G[i][h[i - 1]] \in A
    BY <1>2
  <2> QED  BY <2>2, <2>4, <2>5
<1>3. h[n] = f[1 .. n] /\ h = [i \in 0 .. n |-> h[i]]
  OBVIOUS
<1> HIDE DEF h
<1> DEFINE T == {i \in 0 .. n : h[i] \in A}
<1>4. \A i \in 0 .. n : i \in T
  <2>1. 0 \in T
    BY <1>1
  <2>2. \A i \in 1 .. n : i - 1 \in T => i \in T
    BY <1>2
  <2> HIDE DEF T
  <2> QED  BY <2>1, <2>2, UpTo
<1>5. \A i \in 1 .. n : h[i] = G[i][h[i - 1]]
  <2>1. \A i \in 1 .. n : i - 1 \in 0 .. n
    OBVIOUS
  <2> QED  BY <1>2, <1>4, <2>1
<1>6. h \in [0 .. n -> A]
  BY <1>3, <1>4
<1>7. Recurs(h, n, A, base, G)
  BY <1>1, <1>5, <1>6 DEF Recurs
<1> QED  BY <1>3, <1>7 DEF FoldIsRecursion

-----------------------------------------------------------------------------
(* Sequences of sequences: their members and their order when flattened.   *)

\* A function on the first n numbers is a sequence of length n.
LEMMA IsSequence ==
    ASSUME NEW n \in Nat, NEW C, NEW s \in [1 .. n -> C]
    PROVE  s \in Seq(C) /\ Len(s) = n
OBVIOUS

\* f holds, for each k, the first k sequences of ss one after the other.
Flattens(f, ss, A) ==
    /\ f \in [0 .. Len(ss) -> Seq(A)]
    /\ f[0] = << >>
    /\ \A i \in 1 .. Len(ss) : f[i] = f[i - 1] \o ss[i]

\* A flattened sequence is what the concatenation of its members, step by step, leads to.
LEMMA FlattenSteps ==
    ASSUME NEW A, NEW ss \in Seq(Seq(A))
    PROVE  \E f : Flattens(f, ss, A) /\ FlattenSeq(ss) = f[Len(ss)]
<1> DEFINE n == Len(ss)
<1> DEFINE G0 == [i \in 1 .. n |-> [s \in Seq(A) |-> s \o ss[i]]]
<1>1. n \in Nat /\ \A i \in 1 .. n : ss[i] \in Seq(A)
  OBVIOUS
<1>2. PICK f \in [0 .. n -> Seq(A)] :
        f[0] = << >> /\ \A i \in 1 .. n : f[i] = G0[i][f[i - 1]]
  <2>1. G0 \in [1 .. n -> [Seq(A) -> Seq(A)]]
    <3>1. \A i \in 1 .. n : [s \in Seq(A) |-> s \o ss[i]] \in [Seq(A) -> Seq(A)]
      BY <1>1, ConcatProperties
    <3> QED  BY <3>1
  <2>2. << >> \in Seq(A)
    OBVIOUS
  <2>3. PICK G, B, z : G = G0 /\ B = Seq(A) /\ z = << >>
    OBVIOUS
  <2>4. z \in B /\ G \in [1 .. n -> [B -> B]]
    BY <2>1, <2>2, <2>3
  <2>5. \E h : Recurs(h, n, B, z, G)
    <3> HIDE DEF G0, n
    <3> QED  BY <1>1, <2>4, RecursionExists
  <2> HIDE DEF G0, n
  <2> QED  BY <2>3, <2>5 DEF Recurs
<1>3. \A i \in 1 .. n : f[i] = f[i - 1] \o ss[i]
  <2>1. \A i \in 1 .. n : i - 1 \in 0 .. n
    OBVIOUS
  <2>2. \A i \in 1 .. n : f[i - 1] \in Seq(A)
    <3> HIDE DEF n
    <3> QED  BY <2>1
  <2> QED  BY <1>2, <2>2
<1>4. Flattens(f, ss, A)
  BY <1>2, <1>3 DEF Flattens
<1>5. CASE n = 0
  <2>1. FlattenSeq(ss) = ss /\ ss = << >>
    BY <1>5 DEF FlattenSeq
  <2> QED  BY <1>2, <1>4, <1>5, <2>1
<1>6. CASE n # 0
  <2> DEFINE Fl(h) == h = [i \in 1 .. n |-> IF i = 1 THEN ss[i] ELSE h[i - 1] \o ss[i]]
  <2> DEFINE g == [i \in 1 .. n |-> f[i]]
  <2>1. Fl(g)
    <3>1. ASSUME NEW i \in 1 .. n
          PROVE  f[i] = IF i = 1 THEN ss[i] ELSE g[i - 1] \o ss[i]
      <4>1. CASE i = 1
        <5>1. f[1] = << >> \o ss[1] /\ ss[1] \in Seq(A)
          <6>1. 1 \in 1 .. n /\ 1 - 1 = 0
            BY <4>1
          <6>2. f[1] = f[1 - 1] \o ss[1]
            BY <1>3, <6>1
          <6> QED  BY <1>1, <1>2, <6>1, <6>2
        <5>2. << >> \o ss[1] = ss[1]
          BY <5>1, ConcatEmptySeq
        <5> QED  BY <4>1, <5>1, <5>2
      <4>2. CASE i # 1
        <5>1. i - 1 \in 1 .. n
          BY <4>2
        <5> QED  BY <1>3, <4>2, <5>1
      <4> QED  BY <4>1, <4>2
    <3> QED  BY <3>1
  <2> DEFINE h == CHOOSE x : Fl(x)
  <2>2. Fl(h)
    <3> HIDE DEF g, Fl
    <3> QED  BY <2>1
  <2>3. FlattenSeq(ss) = h[n]
    BY <1>6 DEF FlattenSeq
  <2>4. \A i \in 1 .. n : h[i] = IF i = 1 THEN ss[i] ELSE h[i - 1] \o ss[i]
    BY <2>2
  <2> HIDE DEF h, Fl, g
  <2> DEFINE T == {i \in 0 .. n : i # 0 => h[i] = f[i]}
  <2>5. \A i \in 0 .. n : i \in T
    <3>1. 0 \in T
      OBVIOUS
    <3>2. ASSUME NEW i \in 1 .. n, i - 1 \in T
          PROVE  i \in T
      <4>1. CASE i = 1
        <5>1. f[1] = << >> \o ss[1] /\ ss[1] \in Seq(A)
          <6>1. 1 \in 1 .. n /\ 1 - 1 = 0
            BY <4>1
          <6>2. f[1] = f[1 - 1] \o ss[1]
            BY <1>3, <6>1
          <6> QED  BY <1>1, <1>2, <6>1, <6>2
        <5>2. << >> \o ss[1] = ss[1]
          BY <5>1, ConcatEmptySeq
        <5>3. h[1] = ss[1]
          BY <2>4, <4>1
        <5>4. h[i] = f[i]
          BY <4>1, <5>1, <5>2, <5>3
        <5> QED  BY <5>4
      <4>2. CASE i # 1
        <5>1. i - 1 \in 1 .. n /\ i - 1 \in 0 .. n /\ i - 1 # 0
          BY <4>2
        <5>2. h[i - 1] = f[i - 1]
          BY <3>2, <5>1
        <5>3. h[i] = h[i - 1] \o ss[i] /\ f[i] = f[i - 1] \o ss[i]
          BY <1>3, <2>4, <4>2
        <5>4. h[i] = f[i]
          BY <5>2, <5>3
        <5> QED  BY <5>4
      <4> QED  BY <4>1, <4>2
    <3> HIDE DEF T, n
    <3> QED  BY <1>1, <3>1, <3>2, UpTo
  <2>6. h[n] = f[n]
    <3>1. n \in 0 .. n
      BY <1>1
    <3> QED  BY <1>6, <2>5, <3>1
  <2> QED  BY <1>4, <2>3, <2>6
<1> QED  BY <1>5, <1>6

\* The members of a concatenation are those of the two sequences.
LEMMA SetOfConcat ==
    ASSUME NEW A, NEW s \in Seq(A), NEW t \in Seq(A)
    PROVE  ToSet(s \o t) = ToSet(s) \cup ToSet(t)
<1> DEFINE u == s \o t
<1>1. /\ u \in Seq(A) /\ Len(u) = Len(s) + Len(t)
      /\ \A i \in 1 .. Len(s) + Len(t) : u[i] = IF i <= Len(s) THEN s[i] ELSE t[i - Len(s)]
  BY ConcatProperties
<1>2. /\ DOMAIN u = 1 .. Len(u) /\ DOMAIN s = 1 .. Len(s) /\ DOMAIN t = 1 .. Len(t)
      /\ Len(s) \in Nat /\ Len(t) \in Nat
  BY <1>1
<1> HIDE DEF u
<1>3. ASSUME NEW i \in 1 .. Len(s)
      PROVE  i \in DOMAIN u /\ u[i] = s[i]
  BY <1>1, <1>2
<1>4. ASSUME NEW i \in 1 .. Len(t)
      PROVE  \E j \in DOMAIN u : u[j] = t[i]
  <2>1. Len(s) + i \in 1 .. Len(s) + Len(t) /\ ~ (Len(s) + i <= Len(s)) /\ (Len(s) + i) - Len(s) = i
    BY <1>2
  <2>2. u[Len(s) + i] = t[i] /\ Len(s) + i \in DOMAIN u
    BY <1>1, <1>2, <2>1
  <2> QED  BY <2>2
<1>5. ASSUME NEW i \in DOMAIN u
      PROVE  u[i] \in ToSet(s) \cup ToSet(t)
  <2>1. CASE i <= Len(s)
    <3>1. i \in 1 .. Len(s) /\ u[i] = s[i]
      BY <1>1, <1>2, <2>1
    <3> QED  BY <1>2, <3>1 DEF ToSet
  <2>2. CASE ~ (i <= Len(s))
    <3>1. i - Len(s) \in 1 .. Len(t) /\ u[i] = t[i - Len(s)]
      BY <1>1, <1>2, <2>2
    <3> QED  BY <1>2, <3>1 DEF ToSet
  <2> QED  BY <2>1, <2>2
<1>6. ToSet(u) \subseteq ToSet(s) \cup ToSet(t)
  BY <1>5 DEF ToSet
<1>7. ToSet(s) \subseteq ToSet(u) /\ ToSet(t) \subseteq ToSet(u)
  BY <1>2, <1>3, <1>4 DEF ToSet
<1>8. ToSet(u) = ToSet(s) \cup ToSet(t)
  BY <1>6, <1>7
<1> QED  BY <1>8 DEF u

\* The members of a sequence and one more.
LEMMA SetOfAppend ==
    ASSUME NEW A, NEW s \in Seq(A), NEW e \in A
    PROVE  ToSet(Append(s, e)) = ToSet(s) \cup {e}
<1>1. Append(s, e) = s \o <<e>> /\ <<e>> \in Seq(A)
  BY AppendIsConcat
<1>2. ToSet(<<e>>) = {e}
  <2>1. DOMAIN <<e>> = {1} /\ <<e>>[1] = e
    OBVIOUS
  <2> QED  BY <2>1 DEF ToSet
<1>3. ToSet(s \o <<e>>) = ToSet(s) \cup ToSet(<<e>>)
  BY <1>1, SetOfConcat
<1> QED  BY <1>1, <1>2, <1>3

\* Each of two members of s, in their order, is in the relation R to the other.
InOrder(s, R) == \A i, j \in DOMAIN s : i < j => <<s[i], s[j]>> \in R

\* A concatenation is in order when both sequences are, and each member of the first is
\* before each of the second.
LEMMA OrderedConcat ==
    ASSUME NEW A, NEW s \in Seq(A), NEW t \in Seq(A), NEW R
    PROVE  InOrder(s \o t, R) <=> /\ InOrder(s, R) /\ InOrder(t, R)
                                  /\ \A x \in ToSet(s), y \in ToSet(t) : <<x, y>> \in R
<1> DEFINE u == s \o t
<1>1. /\ u \in Seq(A) /\ Len(u) = Len(s) + Len(t)
      /\ \A i \in 1 .. Len(s) + Len(t) : u[i] = IF i <= Len(s) THEN s[i] ELSE t[i - Len(s)]
  BY ConcatProperties
<1>2. /\ DOMAIN u = 1 .. Len(u) /\ DOMAIN s = 1 .. Len(s) /\ DOMAIN t = 1 .. Len(t)
      /\ Len(s) \in Nat /\ Len(t) \in Nat
  BY <1>1
<1> HIDE DEF u
<1>3. \A i \in 1 .. Len(s) : i \in DOMAIN u /\ u[i] = s[i]
  BY <1>1, <1>2
<1>4. ASSUME NEW i \in 1 .. Len(t)
      PROVE  Len(s) + i \in DOMAIN u /\ u[Len(s) + i] = t[i]
  <2>1. Len(s) + i \in 1 .. Len(s) + Len(t) /\ ~ (Len(s) + i <= Len(s)) /\ (Len(s) + i) - Len(s) = i
    BY <1>2
  <2> QED  BY <1>1, <1>2, <2>1
<1>5. ASSUME InOrder(u, R)
      PROVE  /\ InOrder(s, R) /\ InOrder(t, R)
             /\ \A x \in ToSet(s), y \in ToSet(t) : <<x, y>> \in R
  <2>1. InOrder(s, R)
    BY <1>2, <1>3, <1>5 DEF InOrder
  <2>2. InOrder(t, R)
    <3> SUFFICES ASSUME NEW i \in DOMAIN t, NEW j \in DOMAIN t, i < j
                 PROVE  <<t[i], t[j]>> \in R
      BY DEF InOrder
    <3>1. Len(s) + i < Len(s) + j
      BY <1>2
    <3>2. <<u[Len(s) + i], u[Len(s) + j]>> \in R
      BY <1>2, <1>4, <1>5, <3>1 DEF InOrder
    <3>3. u[Len(s) + i] = t[i] /\ u[Len(s) + j] = t[j]
      BY <1>2, <1>4
    <3> QED  BY <3>2, <3>3
  <2>3. ASSUME NEW x \in ToSet(s), NEW y \in ToSet(t)
        PROVE  <<x, y>> \in R
    <3>1. PICK i \in 1 .. Len(s), j \in 1 .. Len(t) : x = s[i] /\ y = t[j]
      BY <1>2 DEF ToSet
    <3>2. i < Len(s) + j
      BY <1>2
    <3>3. <<u[i], u[Len(s) + j]>> \in R
      BY <1>2, <1>3, <1>4, <1>5, <3>2 DEF InOrder
    <3> QED  BY <1>3, <1>4, <3>1, <3>3
  <2> QED  BY <2>1, <2>2, <2>3
<1>6. ASSUME InOrder(s, R), InOrder(t, R), \A x \in ToSet(s), y \in ToSet(t) : <<x, y>> \in R
      PROVE  InOrder(u, R)
  <2> SUFFICES ASSUME NEW i \in DOMAIN u, NEW j \in DOMAIN u, i < j
               PROVE  <<u[i], u[j]>> \in R
    BY DEF InOrder
  <2>0. i \in Int /\ j \in Int /\ i \in 1 .. Len(s) + Len(t) /\ j \in 1 .. Len(s) + Len(t)
    BY <1>1, <1>2
  <2>1. CASE j <= Len(s)
    <3>1. i \in DOMAIN s /\ j \in DOMAIN s
      BY <1>2, <2>0, <2>1
    <3>2. u[i] = s[i] /\ u[j] = s[j]
      BY <1>2, <1>3, <3>1
    <3> QED  BY <1>6, <3>1, <3>2 DEF InOrder
  <2>2. CASE i <= Len(s) /\ ~ (j <= Len(s))
    <3>1. i \in DOMAIN s /\ u[i] = s[i]
      BY <1>2, <1>3, <2>0, <2>2
    <3>2. j - Len(s) \in DOMAIN t /\ u[j] = t[j - Len(s)]
      BY <1>1, <1>2, <2>0, <2>2
    <3> QED  BY <1>6, <3>1, <3>2 DEF ToSet
  <2>3. CASE ~ (i <= Len(s))
    <3>1. i - Len(s) \in DOMAIN t /\ u[i] = t[i - Len(s)]
      BY <1>1, <1>2, <2>0, <2>3
    <3>2. j - Len(s) \in DOMAIN t /\ u[j] = t[j - Len(s)] /\ i - Len(s) < j - Len(s)
      BY <1>1, <1>2, <2>0, <2>3
    <3> QED  BY <1>6, <3>1, <3>2 DEF InOrder
  <2> QED  BY <1>2, <2>0, <2>1, <2>2, <2>3
<1>7. InOrder(u, R) <=> /\ InOrder(s, R) /\ InOrder(t, R)
                        /\ \A x \in ToSet(s), y \in ToSet(t) : <<x, y>> \in R
  BY <1>5, <1>6
<1> QED  BY <1>7 DEF u

\* The members of the first k sequences of ss.
Among(ss, k) == UNION {ToSet(ss[i]) : i \in 1 .. k}

\* The members of the first k sequences, flattened, are the members of each of them.
LEMMA FlattenPrefix ==
    ASSUME NEW A, NEW ss \in Seq(Seq(A)), NEW f, Flattens(f, ss, A)
    PROVE  \A k \in 0 .. Len(ss) : ToSet(f[k]) = Among(ss, k)
<1> PICK n : n = Len(ss)
  OBVIOUS
<1>1. n \in Nat /\ \A i \in 1 .. n : ss[i] \in Seq(A)
  OBVIOUS
<1>2. f \in [0 .. n -> Seq(A)] /\ f[0] = << >> /\ \A i \in 1 .. n : f[i] = f[i - 1] \o ss[i]
  BY DEF Flattens
<1> DEFINE T == {k \in 0 .. n : ToSet(f[k]) = Among(ss, k)}
<1>3. 0 \in T
  <2>1. ToSet(<< >>) = {} /\ Among(ss, 0) = {}
    BY DEF ToSet, Among
  <2> QED  BY <1>1, <1>2, <2>1
<1>4. ASSUME NEW k \in 1 .. n, k - 1 \in T
      PROVE  k \in T
  <2>1. f[k - 1] \in Seq(A) /\ ss[k] \in Seq(A) /\ f[k] = f[k - 1] \o ss[k]
    <3>1. k - 1 \in 0 .. n
      BY <1>1
    <3>2. f[k - 1] \in Seq(A)
      BY <1>2, <3>1
    <3>3. f[k] = f[k - 1] \o ss[k]
      BY <1>2
    <3>4. ss[k] \in Seq(A)
      BY <1>1
    <3> QED  BY <3>2, <3>3, <3>4
  <2>2. ToSet(f[k]) = ToSet(f[k - 1]) \cup ToSet(ss[k])
    BY <2>1, SetOfConcat
  <2>3. 1 .. k = (1 .. (k - 1)) \cup {k}
    OBVIOUS
  <2>4. Among(ss, k) = Among(ss, k - 1) \cup ToSet(ss[k])
    BY <2>3 DEF Among
  <2>5. ToSet(f[k]) = Among(ss, k)
    BY <1>4, <2>2, <2>4
  <2> QED  BY <2>5
<1>5. \A k \in 0 .. n : k \in T
  <2> HIDE DEF T
  <2> QED  BY <1>1, <1>3, <1>4, UpTo
<1> QED  BY <1>5

\* Flattening neither adds a member nor loses one.
LEMMA FlattenHas ==
    ASSUME NEW A, NEW ss \in Seq(Seq(A))
    PROVE  FlattenSeq(ss) \in Seq(A) /\ ToSet(FlattenSeq(ss)) = Among(ss, Len(ss))
<1>1. PICK f : Flattens(f, ss, A) /\ FlattenSeq(ss) = f[Len(ss)]
  BY FlattenSteps
<1>2. Len(ss) \in 0 .. Len(ss)
  OBVIOUS
<1>3. f[Len(ss)] \in Seq(A)
  BY <1>1, <1>2 DEF Flattens
<1> QED  BY <1>1, <1>2, <1>3, FlattenPrefix

\* The first k sequences of ss are in order, each in itself and one after the other.
Ranked(ss, k, R) ==
    /\ \A i \in 1 .. k : InOrder(ss[i], R)
    /\ \A i, j \in 1 .. k : i < j => \A x \in ToSet(ss[i]), y \in ToSet(ss[j]) : <<x, y>> \in R

\* A flattened sequence is in order when its sequences are, each and among each other.
LEMMA FlattenOrdered ==
    ASSUME NEW A, NEW ss \in Seq(Seq(A)), NEW R
    PROVE  InOrder(FlattenSeq(ss), R) <=> Ranked(ss, Len(ss), R)
<1>0. PICK f : Flattens(f, ss, A) /\ FlattenSeq(ss) = f[Len(ss)]
  BY FlattenSteps
<1> PICK n : n = Len(ss)
  OBVIOUS
<1>1. n \in Nat /\ \A i \in 1 .. n : ss[i] \in Seq(A)
  OBVIOUS
<1>2. f \in [0 .. n -> Seq(A)] /\ f[0] = << >> /\ \A i \in 1 .. n : f[i] = f[i - 1] \o ss[i]
  BY <1>0 DEF Flattens
<1> DEFINE T == {k \in 0 .. n : InOrder(f[k], R) <=> Ranked(ss, k, R)}
<1>3. 0 \in T
  <2>1. InOrder(<< >>, R) /\ Ranked(ss, 0, R)
    BY DEF InOrder, Ranked
  <2> QED  BY <1>1, <1>2, <2>1
<1>4. ASSUME NEW k \in 1 .. n, k - 1 \in T
      PROVE  k \in T
  <2>1. f[k - 1] \in Seq(A) /\ ss[k] \in Seq(A) /\ f[k] = f[k - 1] \o ss[k]
    <3>1. k - 1 \in 0 .. n
      BY <1>1
    <3>2. f[k - 1] \in Seq(A)
      BY <1>2, <3>1
    <3>3. f[k] = f[k - 1] \o ss[k]
      BY <1>2
    <3>4. ss[k] \in Seq(A)
      BY <1>1
    <3> QED  BY <3>2, <3>3, <3>4
  <2>2. InOrder(f[k], R) <=> /\ InOrder(f[k - 1], R) /\ InOrder(ss[k], R)
                             /\ \A x \in ToSet(f[k - 1]), y \in ToSet(ss[k]) : <<x, y>> \in R
    BY <2>1, OrderedConcat
  <2>3. ToSet(f[k - 1]) = Among(ss, k - 1)
    BY <1>0, FlattenPrefix
  <2>4. 1 .. k = (1 .. (k - 1)) \cup {k} /\ \A i \in 1 .. (k - 1) : i < k
    OBVIOUS
  <2>5. Ranked(ss, k, R) => /\ Ranked(ss, k - 1, R) /\ InOrder(ss[k], R)
                            /\ \A x \in Among(ss, k - 1), y \in ToSet(ss[k]) : <<x, y>> \in R
    BY <2>4 DEF Ranked, Among
  <2>6. ASSUME Ranked(ss, k - 1, R), InOrder(ss[k], R),
               \A x \in Among(ss, k - 1), y \in ToSet(ss[k]) : <<x, y>> \in R
        PROVE  Ranked(ss, k, R)
    <3>1. \A i \in 1 .. k : InOrder(ss[i], R)
      BY <2>4, <2>6 DEF Ranked
    <3>2. ASSUME NEW i \in 1 .. k, NEW j \in 1 .. k, i < j,
                 NEW x \in ToSet(ss[i]), NEW y \in ToSet(ss[j])
          PROVE  <<x, y>> \in R
      <4>1. i \in 1 .. (k - 1)
        BY <3>2
      <4>2. CASE j = k
        BY <2>6, <4>1, <4>2 DEF Among
      <4>3. CASE j # k
        <5>1. j \in 1 .. (k - 1)
          BY <4>3
        <5> QED  BY <2>6, <3>2, <4>1, <5>1 DEF Ranked
      <4> QED  BY <4>2, <4>3
    <3> QED  BY <3>1, <3>2 DEF Ranked
  <2>7. InOrder(f[k], R) <=> Ranked(ss, k, R)
    BY <1>4, <2>2, <2>3, <2>5, <2>6
  <2> QED  BY <2>7
<1>5. \A k \in 0 .. n : k \in T
  <2> HIDE DEF T
  <2> QED  BY <1>1, <1>3, <1>4, UpTo
<1>6. n \in 0 .. n
  BY <1>1
<1> QED  BY <1>0, <1>5, <1>6

\* One more sequence goes to the end.
LEMMA FlattenAppend ==
    ASSUME NEW A, NEW ss \in Seq(Seq(A)), NEW s \in Seq(A)
    PROVE  FlattenSeq(Append(ss, s)) = FlattenSeq(ss) \o s
<1> DEFINE tt == Append(ss, s)
<1>0. tt \in Seq(Seq(A)) /\ Len(tt) = Len(ss) + 1 /\ (\A i \in 1 .. Len(ss) : tt[i] = ss[i])
      /\ tt[Len(ss) + 1] = s /\ Len(ss) \in Nat
  BY AppendProperties
<1> HIDE DEF tt
<1>1. PICK f : Flattens(f, ss, A) /\ FlattenSeq(ss) = f[Len(ss)]
  BY FlattenSteps
<1>2. PICK g : Flattens(g, tt, A) /\ FlattenSeq(tt) = g[Len(tt)]
  BY <1>0, FlattenSteps
<1> PICK n : n = Len(ss)
  OBVIOUS
<1>3. n \in Nat /\ Len(tt) = n + 1
  BY <1>0
<1>4. f[0] = << >> /\ \A i \in 1 .. n : f[i] = f[i - 1] \o ss[i]
  BY <1>1 DEF Flattens
<1>5. g[0] = << >> /\ \A i \in 1 .. n + 1 : g[i] = g[i - 1] \o tt[i]
  BY <1>2, <1>3 DEF Flattens
<1> DEFINE T == {k \in 0 .. n : g[k] = f[k]}
<1>6. 0 \in T
  BY <1>3, <1>4, <1>5
<1>7. ASSUME NEW k \in 1 .. n, k - 1 \in T
      PROVE  k \in T
  <2>1. g[k - 1] = f[k - 1] /\ k \in 1 .. n + 1
    BY <1>3, <1>7
  <2>2. g[k] = g[k - 1] \o tt[k] /\ f[k] = f[k - 1] \o ss[k] /\ tt[k] = ss[k]
    BY <1>0, <1>4, <1>5, <2>1
  <2>3. g[k] = f[k]
    BY <2>1, <2>2
  <2> QED  BY <2>3
<1>8. \A k \in 0 .. n : k \in T
  <2> HIDE DEF T
  <2> QED  BY <1>3, <1>6, <1>7, UpTo
<1>9. g[n] = f[n]
  <2>1. n \in 0 .. n
    BY <1>3
  <2> QED  BY <1>8, <2>1
<1>10. g[n + 1] = g[n] \o s
  <2>1. n + 1 \in 1 .. n + 1 /\ (n + 1) - 1 = n
    BY <1>3
  <2>2. g[n + 1] = g[(n + 1) - 1] \o tt[n + 1] /\ tt[n + 1] = s
    BY <1>0, <1>5, <2>1
  <2> QED  BY <2>1, <2>2
<1>11. FlattenSeq(tt) = FlattenSeq(ss) \o s
  BY <1>1, <1>2, <1>3, <1>9, <1>10
<1> QED  BY <1>11 DEF tt

-----------------------------------------------------------------------------
(* Recursion upwards: from each number to a greater one.                   *)

\* g is defined by recursion from each number to a greater one, E, up to those that have none.
Climbs(g, n, A, E, base, C) ==
    /\ g \in [0 .. n -> A]
    /\ \A x \in 0 .. n : g[x] = IF E[x] = x THEN base ELSE C[x][g[E[x]]]

\* There is such a function, whatever the steps.
LEMMA ClimbExists ==
    ASSUME NEW n \in Nat, NEW A, NEW E \in [0 .. n -> 0 .. n], \A x \in 0 .. n : x <= E[x],
           NEW base \in A, NEW C \in [0 .. n -> [A -> A]]
    PROVE  \E g : Climbs(g, n, A, E, base, C)
<1> DEFINE F == [0 .. n -> A]
           Next1(g) == [x \in 0 .. n |-> IF E[x] = x THEN base ELSE C[x][g[E[x]]]]
           G0 == [i \in 1 .. n + 1 |-> [g \in F |-> Next1(g)]]
           none == [x \in 0 .. n |-> base]
<1>1. \A g \in F : Next1(g) \in F
  <2> SUFFICES ASSUME NEW g \in F, NEW x \in 0 .. n
               PROVE  (IF E[x] = x THEN base ELSE C[x][g[E[x]]]) \in A
    OBVIOUS
  <2>1. E[x] \in 0 .. n
    OBVIOUS
  <2>2. g[E[x]] \in A
    BY <2>1
  <2> QED  BY <2>2
<1>2. PICK h : /\ h[0] = none
               /\ \A i \in 0 .. n + 1 : h[i] \in F
               /\ \A i \in 1 .. n + 1 : h[i] = Next1(h[i - 1])
  <2>0. PICK G, B, z, m : G = G0 /\ B = F /\ z = none /\ m = n + 1
    OBVIOUS
  <2>1. G \in [1 .. m -> [B -> B]]
    <3> HIDE DEF F, Next1
    <3> QED  BY <1>1, <2>0
  <2>2. z \in B /\ m \in Nat
    BY <2>0
  <2>3. PICK h : Recurs(h, m, B, z, G)
    BY <2>1, <2>2, RecursionExists
  <2>4. \A i \in 0 .. n + 1 : h[i] \in F
    <3> HIDE DEF F, G0, none
    <3> QED  BY <2>0, <2>3 DEF Recurs
  <2>5. ASSUME NEW i \in 1 .. n + 1
        PROVE  h[i] = Next1(h[i - 1])
    <3>1. i - 1 \in 0 .. n + 1
      OBVIOUS
    <3>2. h[i - 1] \in F
      BY <2>4, <3>1
    <3>3. h[i] = G[i][h[i - 1]]
      BY <2>0, <2>3 DEF Recurs
    <3> HIDE DEF F, Next1
    <3> QED  BY <2>0, <3>2, <3>3
  <2>6. h[0] = none
    BY <2>0, <2>3 DEF Recurs
  <2> HIDE DEF F, Next1, none
  <2> QED  BY <2>4, <2>5, <2>6
<1> DEFINE T == {i \in 0 .. n : \A x \in 0 .. n : n - i <= x => h[i][x] = h[i + 1][x]}
<1>3. 0 \in T
  <2>1. ASSUME NEW x \in 0 .. n, n - 0 <= x
        PROVE  h[0][x] = h[0 + 1][x]
    <3>1. x = n /\ E[x] = x
      <4>1. E[x] \in 0 .. n /\ x <= E[x]
        OBVIOUS
      <4> QED  BY <2>1, <4>1
    <3>2. 1 \in 1 .. n + 1 /\ 1 - 1 = 0 /\ 0 + 1 = 1
      OBVIOUS
    <3>3. h[1] = Next1(h[0])
      <4> HIDE DEF F, Next1
      <4> QED  BY <1>2, <3>2
    <3>4. h[1][x] = base /\ h[0][x] = base
      BY <1>2, <3>1, <3>3
    <3> QED  BY <3>2, <3>4
  <2>2. 0 \in 0 .. n
    OBVIOUS
  <2> QED  BY <2>1, <2>2
<1>4. ASSUME NEW i \in 1 .. n, i - 1 \in T
      PROVE  i \in T
  <2>1. ASSUME NEW x \in 0 .. n, n - i <= x
        PROVE  h[i][x] = h[i + 1][x]
    <3>1. i \in 1 .. n + 1 /\ i + 1 \in 1 .. n + 1 /\ (i + 1) - 1 = i /\ (i - 1) + 1 = i
      OBVIOUS
    <3>2. h[i] = Next1(h[i - 1]) /\ h[i + 1] = Next1(h[i])
      <4> HIDE DEF F, Next1
      <4> QED  BY <1>2, <3>1
    <3>3. /\ h[i][x] = IF E[x] = x THEN base ELSE C[x][h[i - 1][E[x]]]
          /\ h[i + 1][x] = IF E[x] = x THEN base ELSE C[x][h[i][E[x]]]
      BY <3>2
    <3>4. CASE E[x] # x
      <4>1. E[x] \in 0 .. n /\ x <= E[x]
        OBVIOUS
      <4>2. n - (i - 1) <= E[x]
        BY <2>1, <3>4, <4>1
      <4>3. h[i - 1][E[x]] = h[(i - 1) + 1][E[x]]
        BY <1>4, <4>1, <4>2
      <4> QED  BY <3>1, <3>3, <4>3
    <3>5. CASE E[x] = x
      BY <3>3, <3>5
    <3> QED  BY <3>4, <3>5
  <2> QED  BY <2>1
<1>5. \A i \in 0 .. n : i \in T
  <2> HIDE DEF T
  <2> QED  BY <1>3, <1>4, UpTo
<1>6. ASSUME NEW x \in 0 .. n
      PROVE  h[n][x] = IF E[x] = x THEN base ELSE C[x][h[n][E[x]]]
  <2>1. n \in T /\ n - n <= x
    BY <1>5
  <2>2. h[n][x] = h[n + 1][x]
    BY <2>1
  <2>3. n + 1 \in 1 .. n + 1 /\ (n + 1) - 1 = n
    OBVIOUS
  <2>4. h[n + 1] = Next1(h[n])
    <3> HIDE DEF F, Next1
    <3> QED  BY <1>2, <2>3
  <2> QED  BY <2>2, <2>4
<1>7. h[n] \in F
  <2>1. n \in 0 .. n + 1
    OBVIOUS
  <2> QED  BY <1>2, <2>1
<1>8. Climbs(h[n], n, A, E, base, C)
  BY <1>6, <1>7 DEF Climbs
<1> QED  BY <1>8

-----------------------------------------------------------------------------
(* Places: each member of a strict order has one of its own.               *)

\* B orders 1 .. n.
Orders(B, n) ==
    /\ \A i \in 1 .. n : <<i, i>> \notin B
    /\ \A i, j, k \in 1 .. n : <<i, j>> \in B /\ <<j, k>> \in B => <<i, k>> \in B
    /\ \A i, j \in 1 .. n : i = j \/ <<i, j>> \in B \/ <<j, i>> \in B

PlaceIn(B, n, k) == 1 + Cardinality({j \in 1 .. n : <<j, k>> \in B})

\* In an order each of n places is taken, and who is before has the lower place.
LEMMA PlacesTaken ==
    ASSUME NEW n \in Nat, NEW B, Orders(B, n)
    PROVE  /\ \A k \in 1 .. n : PlaceIn(B, n, k) \in 1 .. n
           /\ \A p \in 1 .. n : \E k \in 1 .. n : PlaceIn(B, n, k) = p
           /\ \A j, k \in 1 .. n : PlaceIn(B, n, j) < PlaceIn(B, n, k) => <<j, k>> \in B
           /\ \A j, k \in 1 .. n : PlaceIn(B, n, j) = PlaceIn(B, n, k) => j = k
<1> DEFINE Down(k) == {j \in 1 .. n : <<j, k>> \in B}
<1>1. IsFiniteSet(1 .. n) /\ Cardinality(1 .. n) = n
  BY FS_Interval
<1>2. ASSUME NEW k \in 1 .. n
      PROVE  IsFiniteSet(Down(k)) /\ Cardinality(Down(k)) \in Nat /\ Cardinality(Down(k)) < n
  <2>1. Down(k) \subseteq 1 .. n /\ k \notin Down(k)
    BY DEF Orders
  <2>2. Down(k) # 1 .. n
    BY <2>1
  <2> HIDE DEF Down
  <2>3. PICK D, N : D = Down(k) /\ N = 1 .. n
    OBVIOUS
  <2>4. /\ IsFiniteSet(D) /\ Cardinality(D) <= Cardinality(N)
        /\ Cardinality(N) = Cardinality(D) => N = D
    BY <1>1, <2>1, <2>3, FS_Subset
  <2>5. Cardinality(D) \in Nat /\ Cardinality(N) = n
    BY <1>1, <2>3, <2>4, FS_CardinalityType
  <2>6. Cardinality(D) < n
    BY <2>2, <2>3, <2>4, <2>5
  <2> QED  BY <2>3, <2>4, <2>5, <2>6
<1>3. ASSUME NEW j \in 1 .. n, NEW k \in 1 .. n, <<j, k>> \in B
      PROVE  Cardinality(Down(j)) < Cardinality(Down(k))
  <2>1. Down(j) \subseteq Down(k)
    BY <1>3 DEF Orders
  <2>2. j \in Down(k) /\ j \notin Down(j)
    BY <1>3 DEF Orders
  <2> HIDE DEF Down
  <2>3. Down(j) # Down(k)
    BY <2>2
  <2> QED  BY <1>2, <2>1, <2>3, FS_Subset
<1> DEFINE place == [k \in 1 .. n |-> PlaceIn(B, n, k)]
<1>4. \A k \in 1 .. n : PlaceIn(B, n, k) = 1 + Cardinality(Down(k))
  BY DEF PlaceIn
<1>5. \A k \in 1 .. n : PlaceIn(B, n, k) \in 1 .. n
  <2> HIDE DEF Down
  <2> QED  BY <1>2, <1>4
<1>6. ASSUME NEW j \in 1 .. n, NEW k \in 1 .. n
      PROVE  /\ <<j, k>> \in B => PlaceIn(B, n, j) < PlaceIn(B, n, k)
             /\ j = k \/ <<j, k>> \in B \/ <<k, j>> \in B
  <2> HIDE DEF Down
  <2> QED  BY <1>2, <1>3, <1>4 DEF Orders
<1>7. \A j, k \in 1 .. n : PlaceIn(B, n, j) = PlaceIn(B, n, k) => j = k
  <2>1. ASSUME NEW j \in 1 .. n, NEW k \in 1 .. n, PlaceIn(B, n, j) = PlaceIn(B, n, k)
        PROVE  j = k
    <3>1. PICK a, b : a = PlaceIn(B, n, j) /\ b = PlaceIn(B, n, k)
      OBVIOUS
    <3>2. a \in 1 .. n /\ b \in 1 .. n /\ ~ a < b /\ ~ b < a
      BY <1>5, <2>1, <3>1
    <3> QED  BY <1>6, <3>1, <3>2
  <2> QED  BY <2>1
<1>8. \A j, k \in 1 .. n : PlaceIn(B, n, j) < PlaceIn(B, n, k) => <<j, k>> \in B
  <2>1. ASSUME NEW j \in 1 .. n, NEW k \in 1 .. n, PlaceIn(B, n, j) < PlaceIn(B, n, k)
        PROVE  <<j, k>> \in B
    <3>1. PICK a, b : a = PlaceIn(B, n, j) /\ b = PlaceIn(B, n, k)
      OBVIOUS
    <3>2. a \in 1 .. n /\ b \in 1 .. n /\ a < b /\ ~ b < a /\ a # b
      BY <1>5, <2>1, <3>1
    <3> QED  BY <1>6, <3>1, <3>2
  <2> QED  BY <2>1
<1>9. place \in Injection(1 .. n, 1 .. n)
  <2>1. place \in [1 .. n -> 1 .. n] /\ \A j, k \in 1 .. n : place[j] = place[k] => j = k
    BY <1>5, <1>7
  <2> HIDE DEF place
  <2> QED  BY <2>1 DEF Injection, IsInjective
<1>10. place \in Surjection(1 .. n, 1 .. n)
  <2> HIDE DEF place
  <2> QED  BY <1>1, <1>9, FS_Surjection, FS_Injection
<1>11. \A p \in 1 .. n : \E k \in 1 .. n : PlaceIn(B, n, k) = p
  <2>1. \A p \in 1 .. n : \E k \in 1 .. n : place[k] = p
    <3> HIDE DEF place
    <3> QED  BY <1>10 DEF Surjection
  <2> QED  BY <2>1
<1> QED  BY <1>5, <1>7, <1>8, <1>11

=============================================================================
