--------------------------- MODULE RetrievalProofs ---------------------------
(***************************************************************************)
(* Proofs about Retrieval.tla: the context of a search has nothing but what *)
(* its caller may see, within its limit. The context is made by folds over  *)
(* the results; each is shown to stay in a set from one result to the next. *)
(***************************************************************************)
EXTENDS Retrieval, Induction, SequenceTheorems, FiniteSetTheorems

-----------------------------------------------------------------------------
(* Lemmas: the folds the context is made of.                                 *)

\* The results among some chunks are such chunks, and results.
LEMMA AmongResults ==
    ASSUME NEW R, results \in Seq(R), NEW some
    PROVE  ResultsAmong(some) \in Seq(R \cap some)
<1> DEFINE n == Len(results)
           Folds(h) == h = [S \in SUBSET (1 .. n) |->
                            IF S = {} THEN << >>
                            ELSE IF results[Max(S)] \in some
                                 THEN Append(h[S \ {Max(S)}], results[Max(S)])
                                 ELSE h[S \ {Max(S)}]]
           iter == CHOOSE h : Folds(h)
<1>1. n \in Nat /\ DOMAIN results = 1 .. n /\ \A i \in 1 .. n : results[i] \in R
  OBVIOUS
<1>2. ResultsAmong(some) = iter[1 .. n]
  BY <1>1 DEF ResultsAmong, FoldLeft, MapThenFoldSet
<1> PICK A : A = Seq(R \cap some)
  OBVIOUS
<1>3. << >> \in A /\ \A a \in A, x \in R :
         (IF x \in some
          THEN Append(a, x)
          ELSE a) \in A
  OBVIOUS
<1>4. \E h \in [SUBSET (1 .. n) -> A] : Folds(h)
  <2> DEFINE G0 == [i \in 1 .. n |-> [a \in A |->
                      IF results[i] \in some
                      THEN Append(a, results[i])
                      ELSE a]]
  <2>1. PICK G : G = G0
    OBVIOUS
  <2>2. G \in [1 .. n -> [A -> A]]
    BY <1>3, <1>1, <2>1
  <2>3. PICK h : FoldsOver(h, n, A, << >>, G)
    <3>1. ASSUME NEW B, NEW z \in B, G \in [1 .. n -> [B -> B]]
          PROVE  \E h : FoldsOver(h, n, B, z, G)
      <4> HIDE DEF G0, n
      <4> QED  BY <1>1, <3>1, FoldExists
    <3> HIDE DEF G0, n
    <3> QED  BY <1>3, <2>2, <3>1
  <2>4. h \in [SUBSET (1 .. n) -> A]
    BY <2>3 DEF FoldsOver
  <2>5. ASSUME NEW S \in SUBSET (1 .. n)
        PROVE  h[S] = IF S = {} THEN << >>
                      ELSE IF results[Max(S)] \in some
                           THEN Append(h[S \ {Max(S)}], results[Max(S)])
                           ELSE h[S \ {Max(S)}]
    <3>1. h[S] = IF S = {} THEN << >> ELSE G[Max(S)][h[S \ {Max(S)}]]
      BY <2>3 DEF FoldsOver
    <3>2. CASE S # {}
      <4>1. Max(S) \in 1 .. n
        <5> HIDE DEF n
        <5> QED  BY <1>1, <3>2, MaxIn
      <4>2. h[S \ {Max(S)}] \in A
        BY <2>4
      <4> QED  BY <2>1, <3>1, <3>2, <4>1, <4>2
    <3> QED  BY <3>1, <3>2
  <2>6. h = [S \in SUBSET (1 .. n) |-> h[S]]
    BY <2>4
  <2>7. Folds(h)
    <3> HIDE DEF G0, n
    <3> QED  BY <2>5, <2>6
  <2> QED  BY <2>4, <2>7
<1>5. Folds(iter)
  BY <1>4
<1>6. ASSUME NEW S \in SUBSET (1 .. n)
      PROVE  iter[S] = IF S = {} THEN << >>
                       ELSE IF results[Max(S)] \in some
                            THEN Append(iter[S \ {Max(S)}], results[Max(S)])
                            ELSE iter[S \ {Max(S)}]
  BY <1>5
<1> HIDE DEF iter, Folds
<1>7. iter[{}] \in A
  <2>1. iter[{}] = << >>
    BY <1>6
  <2> QED  BY <1>3, <2>1
<1>8. ASSUME NEW i \in 1 .. n, iter[1 .. (i - 1)] \in A
      PROVE  iter[1 .. i] \in A
  <2>1. /\ (1 .. i) \in SUBSET (1 .. n) /\ (1 .. i) # {}
        /\ (1 .. i) \ {i} = 1 .. (i - 1) /\ Max(1 .. i) = i
    <3> HIDE DEF n
    <3> QED  BY <1>1, FirstLess, MaxOfFirst
  <2>2. iter[1 .. i] = IF results[i] \in some
                       THEN Append(iter[1 .. (i - 1)], results[i])
                       ELSE iter[1 .. (i - 1)]
    <3> HIDE DEF n
    <3> QED  BY <1>6, <2>1, Zenon
  <2>3. PICK a, x : a = iter[1 .. (i - 1)] /\ x = results[i]
    OBVIOUS
  <2>4. a \in A /\ x \in R
    BY <1>1, <1>8, <2>3
  <2>5. (IF x \in some
        THEN Append(a, x)
        ELSE a) \in A
    BY <1>3, <2>4
  <2> HIDE DEF n
  <2> QED  BY <2>2, <2>3, <2>5
<1>9. iter[1 .. n] \in A
  <2>1. PICK f : f = iter
    OBVIOUS
  <2>2. f[{}] \in A
    BY <1>7, <2>1
  <2>3. \A i \in 1 .. n : f[1 .. (i - 1)] \in A => f[1 .. i] \in A
    BY <1>8, <2>1
  <2>4. n \in Nat
    BY <1>1
  <2> HIDE DEF n
  <2> QED  BY <2>1, <2>2, <2>3, <2>4, FoldReaches
<1> QED  BY <1>2, <1>9

\* The keys of the groups are chunks of the index.
LEMMA GroupsAreChunks ==
    ASSUME NEW R, results \in Seq(R), NEW K, \A x \in R : ContextChunk(x) \in K
    PROVE  ContextGroups \in Seq(K)
<1> DEFINE n == Len(results)
           Folds(h) == h = [S \in SUBSET (1 .. n) |->
                            IF S = {} THEN << >>
                            ELSE IF Contains(h[S \ {Max(S)}], ContextChunk(results[Max(S)]))
                                 THEN h[S \ {Max(S)}]
                                 ELSE Append(h[S \ {Max(S)}], ContextChunk(results[Max(S)]))]
           iter == CHOOSE h : Folds(h)
<1>1. n \in Nat /\ DOMAIN results = 1 .. n /\ \A i \in 1 .. n : results[i] \in R
  OBVIOUS
<1>2. ContextGroups = iter[1 .. n]
  BY <1>1 DEF ContextGroups, FoldLeft, MapThenFoldSet
<1> PICK A : A = Seq(K)
  OBVIOUS
<1>3. << >> \in A /\ \A a \in A, x \in R :
         (IF Contains(a, ContextChunk(x))
          THEN a
          ELSE Append(a, ContextChunk(x))) \in A
  <2> SUFFICES ASSUME NEW a \in A, NEW x \in R
               PROVE  (IF Contains(a, ContextChunk(x)) THEN a ELSE Append(a, ContextChunk(x))) \in A
    OBVIOUS
  <2> PICK k : k = ContextChunk(x)
    OBVIOUS
  <2>1. k \in K
    OBVIOUS
  <2>2. Append(a, k) \in A
    BY <2>1
  <2> QED  BY <2>2
<1>4. \E h \in [SUBSET (1 .. n) -> A] : Folds(h)
  <2> DEFINE G0 == [i \in 1 .. n |-> [a \in A |->
                      IF Contains(a, ContextChunk(results[i]))
                      THEN a
                      ELSE Append(a, ContextChunk(results[i]))]]
  <2>1. PICK G : G = G0
    OBVIOUS
  <2>2. G \in [1 .. n -> [A -> A]]
    BY <1>3, <1>1, <2>1
  <2>3. PICK h : FoldsOver(h, n, A, << >>, G)
    <3>1. ASSUME NEW B, NEW z \in B, G \in [1 .. n -> [B -> B]]
          PROVE  \E h : FoldsOver(h, n, B, z, G)
      <4> HIDE DEF G0, n
      <4> QED  BY <1>1, <3>1, FoldExists
    <3> HIDE DEF G0, n
    <3> QED  BY <1>3, <2>2, <3>1
  <2>4. h \in [SUBSET (1 .. n) -> A]
    BY <2>3 DEF FoldsOver
  <2>5. ASSUME NEW S \in SUBSET (1 .. n)
        PROVE  h[S] = IF S = {} THEN << >>
                      ELSE IF Contains(h[S \ {Max(S)}], ContextChunk(results[Max(S)]))
                           THEN h[S \ {Max(S)}]
                           ELSE Append(h[S \ {Max(S)}], ContextChunk(results[Max(S)]))
    <3>1. h[S] = IF S = {} THEN << >> ELSE G[Max(S)][h[S \ {Max(S)}]]
      BY <2>3 DEF FoldsOver
    <3>2. CASE S # {}
      <4>1. Max(S) \in 1 .. n
        <5> HIDE DEF n
        <5> QED  BY <1>1, <3>2, MaxIn
      <4>2. h[S \ {Max(S)}] \in A
        BY <2>4
      <4> QED  BY <2>1, <3>1, <3>2, <4>1, <4>2
    <3> QED  BY <3>1, <3>2
  <2>6. h = [S \in SUBSET (1 .. n) |-> h[S]]
    BY <2>4
  <2>7. Folds(h)
    <3> HIDE DEF G0, n
    <3> QED  BY <2>5, <2>6
  <2> QED  BY <2>4, <2>7
<1>5. Folds(iter)
  BY <1>4
<1>6. ASSUME NEW S \in SUBSET (1 .. n)
      PROVE  iter[S] = IF S = {} THEN << >>
                       ELSE IF Contains(iter[S \ {Max(S)}], ContextChunk(results[Max(S)]))
                            THEN iter[S \ {Max(S)}]
                            ELSE Append(iter[S \ {Max(S)}], ContextChunk(results[Max(S)]))
  BY <1>5
<1> HIDE DEF iter, Folds
<1>7. iter[{}] \in A
  <2>1. iter[{}] = << >>
    BY <1>6
  <2> QED  BY <1>3, <2>1
<1>8. ASSUME NEW i \in 1 .. n, iter[1 .. (i - 1)] \in A
      PROVE  iter[1 .. i] \in A
  <2>1. /\ (1 .. i) \in SUBSET (1 .. n) /\ (1 .. i) # {}
        /\ (1 .. i) \ {i} = 1 .. (i - 1) /\ Max(1 .. i) = i
    <3> HIDE DEF n
    <3> QED  BY <1>1, FirstLess, MaxOfFirst
  <2>2. iter[1 .. i] = IF Contains(iter[1 .. (i - 1)], ContextChunk(results[i]))
                       THEN iter[1 .. (i - 1)]
                       ELSE Append(iter[1 .. (i - 1)], ContextChunk(results[i]))
    <3> HIDE DEF n
    <3> QED  BY <1>6, <2>1, Zenon
  <2>3. PICK a, x : a = iter[1 .. (i - 1)] /\ x = results[i]
    OBVIOUS
  <2>4. a \in A /\ x \in R
    BY <1>1, <1>8, <2>3
  <2>5. (IF Contains(a, ContextChunk(x))
        THEN a
        ELSE Append(a, ContextChunk(x))) \in A
    BY <1>3, <2>4
  <2> HIDE DEF n
  <2> QED  BY <2>2, <2>3, <2>5
<1>9. iter[1 .. n] \in A
  <2>1. PICK f : f = iter
    OBVIOUS
  <2>2. f[{}] \in A
    BY <1>7, <2>1
  <2>3. \A i \in 1 .. n : f[1 .. (i - 1)] \in A => f[1 .. i] \in A
    BY <1>8, <2>1
  <2>4. n \in Nat
    BY <1>1
  <2> HIDE DEF n
  <2> QED  BY <2>1, <2>2, <2>3, <2>4, FoldReaches
<1> QED  BY <1>2, <1>9

\* What a window may hold, and the one it starts with.
Window(M) == [tokens : Int, included : SUBSET M]
Nothing == [tokens |-> 0, included |-> {}]

\* A match more leaves a window.
LEMMA TakenIsWindow ==
    ASSUME NEW M \in SUBSET DOMAIN Index, NEW a \in Window(M), NEW x \in M, NEW budget \in Int
    PROVE  Taken(a, x, budget) \in Window(M)
<1> DEFINE cost == Index[x].len + (IF a.included # {} THEN 1 ELSE 0)
<1>1. cost \in Int
  <2>1. x \in DOMAIN Index
    OBVIOUS
  <2>2. Index[x].len \in Int
    BY <2>1, RetrievalAssumption
  <2> QED  BY <2>2
<1>2. a.tokens \in Int /\ a.included \in SUBSET M /\ a \in Window(M)
  BY DEF Window
<1>3. Taken(a, x, budget) = IF a.tokens + cost > budget THEN a
                           ELSE [tokens |-> a.tokens + cost, included |-> a.included \cup {x}]
  BY DEF Taken
<1> HIDE DEF cost
<1>4. a.tokens + cost \in Int /\ a.included \cup {x} \in SUBSET M
  BY <1>1, <1>2
<1> QED  BY <1>2, <1>3, <1>4 DEF Window

\* The matches a window takes are matches, and it knows what they cost.
LEMMA WindowTakesMatches ==
    ASSUME NEW R \in SUBSET DOMAIN Index, NEW m \in Seq(R), NEW budget \in Int
    PROVE  FoldLeft(LAMBDA window, c : Taken(window, c, budget), Nothing, m)
             \in Window(ToSet(m))
<1> PICK M : M = ToSet(m)
  OBVIOUS
<1> DEFINE n == Len(m)
           Folds(h) == h = [S \in SUBSET (1 .. n) |->
                            IF S = {} THEN Nothing
                            ELSE Taken(h[S \ {Max(S)}], m[Max(S)], budget)]
           iter == CHOOSE h : Folds(h)
<1>1. n \in Nat /\ DOMAIN m = 1 .. n /\ \A i \in 1 .. n : m[i] \in M
  BY DEF ToSet
<1>2. FoldLeft(LAMBDA window, c : Taken(window, c, budget), Nothing, m) = iter[1 .. n]
  BY <1>1 DEF FoldLeft, MapThenFoldSet
<1> PICK A : A = Window(M)
  OBVIOUS
<1>3. Nothing \in A /\ \A a \in A, x \in M :
         (Taken(a, x, budget)) \in A
  <2>1. M \in SUBSET DOMAIN Index
    BY DEF ToSet
  <2>2. Nothing \in Window(M)
    BY DEF Nothing, Window
  <2> QED  BY <2>1, <2>2, TakenIsWindow
<1>4. \E h \in [SUBSET (1 .. n) -> A] : Folds(h)
  <2> DEFINE G0 == [i \in 1 .. n |-> [a \in A |->
                      Taken(a, m[i], budget)]]
  <2>1. PICK G : G = G0
    OBVIOUS
  <2>2. G \in [1 .. n -> [A -> A]]
    BY <1>3, <1>1, <2>1
  <2>3. PICK h : FoldsOver(h, n, A, Nothing, G)
    <3>1. ASSUME NEW B, NEW z \in B, G \in [1 .. n -> [B -> B]]
          PROVE  \E h : FoldsOver(h, n, B, z, G)
      <4> HIDE DEF G0, n
      <4> QED  BY <1>1, <3>1, FoldExists
    <3> HIDE DEF G0, n
    <3> QED  BY <1>3, <2>2, <3>1
  <2>4. h \in [SUBSET (1 .. n) -> A]
    BY <2>3 DEF FoldsOver
  <2>5. ASSUME NEW S \in SUBSET (1 .. n)
        PROVE  h[S] = IF S = {} THEN Nothing
                      ELSE Taken(h[S \ {Max(S)}], m[Max(S)], budget)
    <3>1. h[S] = IF S = {} THEN Nothing ELSE G[Max(S)][h[S \ {Max(S)}]]
      BY <2>3 DEF FoldsOver
    <3>2. CASE S # {}
      <4>1. Max(S) \in 1 .. n
        <5> HIDE DEF n
        <5> QED  BY <1>1, <3>2, MaxIn
      <4>2. h[S \ {Max(S)}] \in A
        BY <2>4
      <4> QED  BY <2>1, <3>1, <3>2, <4>1, <4>2
    <3> QED  BY <3>1, <3>2
  <2>6. h = [S \in SUBSET (1 .. n) |-> h[S]]
    BY <2>4
  <2>7. Folds(h)
    <3> HIDE DEF G0, n
    <3> QED  BY <2>5, <2>6
  <2> QED  BY <2>4, <2>7
<1>5. Folds(iter)
  BY <1>4
<1>6. ASSUME NEW S \in SUBSET (1 .. n)
      PROVE  iter[S] = IF S = {} THEN Nothing
                       ELSE Taken(iter[S \ {Max(S)}], m[Max(S)], budget)
  BY <1>5
<1> HIDE DEF iter, Folds
<1>7. iter[{}] \in A
  <2>1. iter[{}] = Nothing
    BY <1>6
  <2> QED  BY <1>3, <2>1
<1>8. ASSUME NEW i \in 1 .. n, iter[1 .. (i - 1)] \in A
      PROVE  iter[1 .. i] \in A
  <2>1. /\ (1 .. i) \in SUBSET (1 .. n) /\ (1 .. i) # {}
        /\ (1 .. i) \ {i} = 1 .. (i - 1) /\ Max(1 .. i) = i
    <3> HIDE DEF n
    <3> QED  BY <1>1, FirstLess, MaxOfFirst
  <2>2. iter[1 .. i] = Taken(iter[1 .. (i - 1)], m[i], budget)
    <3> HIDE DEF n
    <3> QED  BY <1>6, <2>1, Zenon
  <2>3. PICK a, x : a = iter[1 .. (i - 1)] /\ x = m[i]
    OBVIOUS
  <2>4. a \in A /\ x \in M
    BY <1>1, <1>8, <2>3
  <2>5. (Taken(a, x, budget)) \in A
    BY <1>3, <2>4
  <2> HIDE DEF n
  <2> QED  BY <2>2, <2>3, <2>5
<1>9. iter[1 .. n] \in A
  <2>1. PICK f : f = iter
    OBVIOUS
  <2>2. f[{}] \in A
    BY <1>7, <2>1
  <2>3. \A i \in 1 .. n : f[1 .. (i - 1)] \in A => f[1 .. i] \in A
    BY <1>8, <2>1
  <2>4. n \in Nat
    BY <1>1
  <2> HIDE DEF n
  <2> QED  BY <2>1, <2>2, <2>3, <2>4, FoldReaches
<1> QED  BY <1>2, <1>9

\* The tokens of a context are a running sum.
LEMMA TokensRun ==
    ASSUME NEW P, \A x \in P : x.tokens \in Int, NEW s \in Seq(P)
    PROVE  \E p \in [0 .. Len(s) -> Int] :
             /\ p[0] = 0
             /\ \A i \in 1 .. Len(s) : p[i] = p[i - 1] + s[i].tokens
             /\ ContextTokens(s) = p[Len(s)]
<1> DEFINE n == Len(s)
           Folds(h) == h = [S \in SUBSET (1 .. n) |->
                            IF S = {} THEN 0
                            ELSE h[S \ {Max(S)}] + s[Max(S)].tokens]
           iter == CHOOSE h : Folds(h)
<1>1. n \in Nat /\ DOMAIN s = 1 .. n /\ \A i \in 1 .. n : s[i] \in P
  OBVIOUS
<1>2. ContextTokens(s) = iter[1 .. n]
  BY <1>1 DEF ContextTokens, FoldLeft, MapThenFoldSet
<1>3. 0 \in Int /\ \A a \in Int, x \in P :
         (a + x.tokens) \in Int
  OBVIOUS
<1>4. \E h \in [SUBSET (1 .. n) -> Int] : Folds(h)
  <2> DEFINE G0 == [i \in 1 .. n |-> [a \in Int |->
                      a + s[i].tokens]]
  <2>1. PICK G : G = G0
    OBVIOUS
  <2>2. G \in [1 .. n -> [Int -> Int]]
    BY <1>3, <1>1, <2>1
  <2>3. PICK h : FoldsOver(h, n, Int, 0, G)
    <3>1. ASSUME NEW B, NEW z \in B, G \in [1 .. n -> [B -> B]]
          PROVE  \E h : FoldsOver(h, n, B, z, G)
      <4> HIDE DEF G0, n
      <4> QED  BY <1>1, <3>1, FoldExists
    <3> HIDE DEF G0, n
    <3> QED  BY <1>3, <2>2, <3>1
  <2>4. h \in [SUBSET (1 .. n) -> Int]
    BY <2>3 DEF FoldsOver
  <2>5. ASSUME NEW S \in SUBSET (1 .. n)
        PROVE  h[S] = IF S = {} THEN 0
                      ELSE h[S \ {Max(S)}] + s[Max(S)].tokens
    <3>1. h[S] = IF S = {} THEN 0 ELSE G[Max(S)][h[S \ {Max(S)}]]
      BY <2>3 DEF FoldsOver
    <3>2. CASE S # {}
      <4>1. Max(S) \in 1 .. n
        <5> HIDE DEF n
        <5> QED  BY <1>1, <3>2, MaxIn
      <4>2. h[S \ {Max(S)}] \in Int
        BY <2>4
      <4> QED  BY <2>1, <3>1, <3>2, <4>1, <4>2
    <3> QED  BY <3>1, <3>2
  <2>6. h = [S \in SUBSET (1 .. n) |-> h[S]]
    BY <2>4
  <2>7. Folds(h)
    <3> HIDE DEF G0, n
    <3> QED  BY <2>5, <2>6
  <2> QED  BY <2>4, <2>7
<1>5. Folds(iter)
  BY <1>4
<1>6. ASSUME NEW S \in SUBSET (1 .. n)
      PROVE  iter[S] = IF S = {} THEN 0
                       ELSE iter[S \ {Max(S)}] + s[Max(S)].tokens
  BY <1>5
<1> HIDE DEF iter, Folds
<1> PICK f : f = iter
  OBVIOUS
<1>7. \A S \in SUBSET (1 .. n) :
        f[S] = IF S = {} THEN 0 ELSE f[S \ {Max(S)}] + s[Max(S)].tokens
  BY <1>6
<1>8. f[{}] = 0
  BY <1>7
<1>9. ASSUME NEW i \in 1 .. n
      PROVE  f[1 .. i] = f[1 .. (i - 1)] + s[i].tokens
  <2>1. /\ (1 .. i) \in SUBSET (1 .. n) /\ (1 .. i) # {}
        /\ (1 .. i) \ {i} = 1 .. (i - 1) /\ Max(1 .. i) = i
    <3> HIDE DEF n
    <3> QED  BY <1>1, FirstLess, MaxOfFirst
  <2> HIDE DEF n
  <2> QED  BY <1>7, <2>1, Zenon
<1> DEFINE p == [i \in 0 .. n |-> f[1 .. i]]
<1>10. p[0] = 0 /\ p[n] = ContextTokens(s)
  <2>1. 1 .. 0 = {} /\ 0 \in 0 .. n /\ n \in 0 .. n
    OBVIOUS
  <2> HIDE DEF n
  <2> QED  BY <1>2, <1>8, <2>1
<1>11. \A i \in 1 .. n : p[i] = f[1 .. i] /\ p[i - 1] = f[1 .. (i - 1)]
  OBVIOUS
<1>12. \A i \in 1 .. n : p[i] = p[i - 1] + s[i].tokens
  <2> HIDE DEF p, n
  <2> QED  BY <1>9, <1>11
<1>13. \A i \in 1 .. n : p[i - 1] \in Int => p[i] \in Int
  <2> HIDE DEF p, n
  <2> QED  BY <1>1, <1>12
<1>14. \A i \in 0 .. n : p[i] \in Int
  <2>1. p[0] \in Int
    BY <1>10
  <2> HIDE DEF p, n
  <2> QED  BY <1>1, <1>13, <2>1, StepByStep
<1>15. p \in [0 .. n -> Int]
  BY <1>14
<1> HIDE DEF p
<1> QED  BY <1>10, <1>12, <1>15

\* They are a number.
LEMMA TokensAreNumbers ==
    ASSUME NEW P, \A x \in P : x.tokens \in Int, NEW s \in Seq(P)
    PROVE  ContextTokens(s) \in Int
<1>1. PICK p \in [0 .. Len(s) -> Int] : ContextTokens(s) = p[Len(s)]
  BY TokensRun
<1>2. Len(s) \in 0 .. Len(s)
  OBVIOUS
<1> QED  BY <1>1, <1>2

\* Without a part there are none.
LEMMA TokensOfNone == ContextTokens(<< >>) = 0
<1>1. PICK s : s = << >>
  OBVIOUS
<1>2. s \in Seq({}) /\ Len(s) = 0 /\ \A x \in {} : x.tokens \in Int
  BY <1>1
<1>3. ContextTokens(s) = 0
  <2>1. PICK p \in [0 .. Len(s) -> Int] : p[0] = 0 /\ ContextTokens(s) = p[Len(s)]
    BY <1>2, TokensRun
  <2> QED  BY <1>2, <2>1
<1> QED  BY <1>1, <1>3

\* A further part adds its own.
LEMMA TokensOfAppended ==
    ASSUME NEW P, \A x \in P : x.tokens \in Int, NEW s \in Seq(P), NEW e \in P
    PROVE  ContextTokens(Append(s, e)) = ContextTokens(s) + e.tokens
<1> DEFINE n == Len(s)
<1>1. PICK t : t = Append(s, e)
  OBVIOUS
<1>2. /\ t \in Seq(P) /\ Len(t) = n + 1 /\ n \in Nat /\ t[n + 1] = e
      /\ \A i \in 1 .. n : t[i] = s[i]
  BY <1>1
<1>3. PICK p \in [0 .. n -> Int] :
        /\ p[0] = 0 /\ \A i \in 1 .. n : p[i] = p[i - 1] + s[i].tokens
        /\ ContextTokens(s) = p[n]
  BY TokensRun
<1>4. PICK q \in [0 .. (n + 1) -> Int] :
        /\ q[0] = 0 /\ \A i \in 1 .. (n + 1) : q[i] = q[i - 1] + t[i].tokens
        /\ ContextTokens(t) = q[n + 1]
  BY <1>2, TokensRun
<1>5. q[n + 1] = q[n] + e.tokens
  <2>1. n + 1 \in 1 .. (n + 1) /\ (n + 1) - 1 = n
    BY <1>2
  <2> QED  BY <1>2, <1>4, <2>1
<1>6. q[n] = p[n]
  <2> DEFINE v == [i \in 1 .. n |-> s[i].tokens]
  <2>1. v \in [1 .. n -> Int]
    OBVIOUS
  <2>2. \A i \in 1 .. n : p[i] = p[i - 1] + v[i] /\ q[i] = q[i - 1] + v[i]
    <3>1. \A i \in 1 .. n : i \in 1 .. (n + 1)
      BY <1>2
    <3>2. \A i \in 1 .. n : v[i] = s[i].tokens /\ v[i] = t[i].tokens
      BY <1>2
    <3> HIDE DEF v, n
    <3> QED  BY <1>3, <1>4, <3>1, <3>2
  <2>3. p[0] = q[0] /\ n \in Nat
    BY <1>2, <1>3, <1>4
  <2> HIDE DEF v, n
  <2> QED  BY <2>1, <2>2, <2>3, SumsAgree
<1> QED  BY <1>1, <1>3, <1>4, <1>5, <1>6

\* The parts a context may have: each cites results of one document, which it holds.
Fitting(X) ==
    {part \in [tokens : Int, cited : SUBSET X, text : DOMAIN Index, holds : SUBSET X] :
        /\ part.cited \subseteq part.holds
        /\ \A c \in part.cited : Index[c].doc = Index[part.text].doc}

\* A context in the making: what is left of the limit is what its parts do not take.
Making(X) ==
    {made \in [left : Nat, parts : Seq(Fitting(X)), over : BOOLEAN] :
        ContextTokens(made.parts) = MaxContext - made.left}

\* The results of a group are results of its document.
LEMMA MatchesAreResults ==
    ASSUME NEW R \in SUBSET DOMAIN Index, results \in Seq(R), NEW key \in DOMAIN Index
    PROVE  /\ Matches(key) \in Seq(R)
           /\ ToSet(Matches(key)) \subseteq ToSet(results) \cap R
           /\ \A c \in ToSet(Matches(key)) : Index[c].doc = Index[key].doc
<1> DEFINE some == {c \in ToSet(results) : ContextChunk(c) = key}
<1>1. Matches(key) \in Seq(R \cap some)
  <2>1. Matches(key) = ResultsAmong(some)
    BY DEF Matches
  <2> HIDE DEF some
  <2> QED  BY <2>1, AmongResults
<1> PICK m : m = Matches(key)
  OBVIOUS
<1>2. \A c \in ToSet(m) : c \in R /\ c \in some
  <2>1. m \in Seq(R \cap some)
    BY <1>1
  <2> HIDE DEF some
  <2> QED  BY <2>1 DEF ToSet
<1>3. \A c \in ToSet(m) : c \in ToSet(results) /\ ContextChunk(c) = key /\ c \in DOMAIN Index
  BY <1>2
<1>4. \A c \in ToSet(m) : Index[c].doc = Index[key].doc
  <2> SUFFICES ASSUME NEW c \in ToSet(m)
               PROVE  Index[c].doc = Index[key].doc
    OBVIOUS
  <2>1. key = c \/ key = Index[c].parent
    BY <1>3 DEF ContextChunk
  <2> QED  BY <1>3, <2>1, RetrievalAssumption
<1>5. m \in Seq(R)
  <2>1. m \in Seq(R \cap some)
    BY <1>1
  <2> HIDE DEF some
  <2> QED  BY <2>1
<1> QED  BY <1>2, <1>3, <1>4, <1>5

\* A window holds matches, however small its budget.
LEMMA WindowsHoldMatches ==
    ASSUME NEW R \in SUBSET DOMAIN Index, results \in Seq(R), NEW key \in DOMAIN Index,
           NEW budget \in Int
    PROVE  ParentWindow(key, budget) \in Window(ToSet(Matches(key)))
<1> DEFINE chosen == FoldLeft(LAMBDA window, c : Taken(window, c, budget),
                              [tokens |-> 0, included |-> {}], Matches(key))
<1>1. ParentWindow(key, budget) =
        IF Index[key].len <= budget
        THEN [tokens |-> Index[key].len, included |-> ToSet(Matches(key))]
        ELSE IF Cardinality(chosen.included) = 0 THEN [tokens |-> budget, included |-> {}]
        ELSE [chosen EXCEPT !.tokens =
                @ + Cardinality(chosen.included)
                    * ((budget - @) \div Cardinality(chosen.included))]
  BY DEF ParentWindow
<1> PICK M : M = ToSet(Matches(key))
  OBVIOUS
<1>2. chosen \in Window(M)
  <2>1. Matches(key) \in Seq(R)
    BY MatchesAreResults
  <2> QED  BY <2>1, WindowTakesMatches DEF Nothing
<1>3. M \subseteq DOMAIN Index
  BY MatchesAreResults
<1> HIDE DEF chosen
<1> PICK w : w = chosen
  OBVIOUS
<1>4. w \in [tokens : Int, included : SUBSET M]
  BY <1>2 DEF Window
<1>5. Cardinality(w.included) \in Nat
  <2>1. w.included \in SUBSET DOMAIN Index
    BY <1>3, <1>4
  <2> QED  BY <2>1, FS_Subset, FS_CardinalityType, RetrievalAssumption
<1> PICK n, t : n = Cardinality(w.included) /\ t = w.tokens
  OBVIOUS
<1>6. n # 0 => t + n * ((budget - t) \div n) \in Int
  <2>1. t \in Int /\ n \in Nat
    BY <1>4, <1>5
  <2> SUFFICES ASSUME n # 0
               PROVE  t + n * ((budget - t) \div n) \in Int
    OBVIOUS
  <2>2. (budget - t) \div n \in Int
    BY <2>1
  <2> PICK d : d = (budget - t) \div n
    OBVIOUS
  <2>3. n * d \in Int
    BY <2>1, <2>2
  <2> QED  BY <2>1, <2>3
<1>7. Index[key].len \in Int
  BY RetrievalAssumption
<1>8. n # 0 => [w EXCEPT !.tokens = t + n * ((budget - t) \div n)]
                 \in [tokens : Int, included : SUBSET M]
  <2> PICK x : x = t + n * ((budget - t) \div n)
    OBVIOUS
  <2> QED  BY <1>4, <1>6
<1>9. ParentWindow(key, budget) =
        IF Index[key].len <= budget THEN [tokens |-> Index[key].len, included |-> M]
        ELSE IF n = 0 THEN [tokens |-> budget, included |-> {}]
        ELSE [w EXCEPT !.tokens = t + n * ((budget - t) \div n)]
  BY <1>1
<1> QED  BY <1>7, <1>8, <1>9 DEF Window

\* The lesser of two numbers is one of them, and no greater.
LEMMA MinOfTwo ==
    ASSUME NEW a \in Int, NEW b \in Int
    PROVE  Min({a, b}) \in {a, b} /\ Min({a, b}) <= a
<1>1. \E x \in {a, b} : \A y \in {a, b} : x <= y
  OBVIOUS
<1>2. Min({a, b}) \in {a, b} /\ \A y \in {a, b} : Min({a, b}) <= y
  BY <1>1 DEF Min
<1> QED  BY <1>2

\* A part is added whole, within what is left, or nothing is any more.
LEMMA PartsFit ==
    ASSUME NEW R \in SUBSET DOMAIN Index, results \in Seq(R),
           NEW made \in Making(ToSet(results)), NEW key \in DOMAIN Index
    PROVE  AddPart(made, key) \in Making(ToSet(results))
<1> PICK X : X = ToSet(results)
  OBVIOUS
<1> PICK F : F = Fitting(X)
  OBVIOUS
<1>1. /\ made \in [left : Nat, parts : Seq(F), over : BOOLEAN]
      /\ ContextTokens(made.parts) = MaxContext - made.left
  BY DEF Making
<1> PICK M : M = ToSet(Matches(key))
  OBVIOUS
<1>2. M \subseteq X /\ \A c \in M : c \in DOMAIN Index /\ Index[c].doc = Index[key].doc
  BY MatchesAreResults
<1> PICK budget : budget = Min({MaxParent, made.left - Len(Matches(key)) - 1})
  OBVIOUS
<1>3. budget \in Int
  <2>1. MaxParent \in Int
    BY RetrievalAssumption
  <2>2. Matches(key) \in Seq(R)
    BY MatchesAreResults
  <2>3. made.left - Len(Matches(key)) - 1 \in Int
    BY <1>1, <2>2
  <2> PICK a, b : a = MaxParent /\ b = made.left - Len(Matches(key)) - 1
    OBVIOUS
  <2> QED  BY <2>1, <2>3, MinOfTwo
<1> PICK window : window = ParentWindow(key, budget)
  OBVIOUS
<1>4. window \in [tokens : Int, included : SUBSET M]
  BY <1>3, WindowsHoldMatches DEF Window
<1> PICK cited : cited = Cited(key, window)
  OBVIOUS
<1>5. cited \subseteq window.included /\ cited \subseteq M /\ Cardinality(cited) \in Nat
  <2>1. cited = {c \in M : c \in window.included}
    BY DEF Cited
  <2>2. cited \in SUBSET DOMAIN Index
    BY <1>2, <2>1
  <2>3. Cardinality(cited) \in Nat
    BY <2>2, FS_Subset, FS_CardinalityType, RetrievalAssumption
  <2> QED  BY <2>1, <2>3
<1> PICK part : part = [tokens |-> window.tokens + Cardinality(cited) + 1, cited |-> cited,
                        text |-> key, holds |-> window.included]
  OBVIOUS
<1>6. part \in F
  <2>1. window.tokens + Cardinality(cited) + 1 \in Int
    <3> PICK a, k : a = window.tokens /\ k = Cardinality(cited)
      OBVIOUS
    <3>1. a \in Int /\ k \in Nat
      BY <1>4, <1>5
    <3> QED  BY <3>1
  <2>2. cited \in SUBSET X /\ window.included \in SUBSET X
    BY <1>2, <1>4, <1>5
  <2>3. part \in [tokens : Int, cited : SUBSET X, text : DOMAIN Index, holds : SUBSET X]
    BY <2>1, <2>2
  <2>4. part.cited \subseteq part.holds /\ \A c \in part.cited : Index[c].doc = Index[part.text].doc
    BY <1>2, <1>5
  <2> QED  BY <2>3, <2>4 DEF Fitting
<1>7. AddPart(made, key) =
        IF made.over \/ budget <= 0 \/ part.tokens > made.left
        THEN [made EXCEPT !.over = TRUE]
        ELSE [made EXCEPT !.left = made.left - part.tokens, !.parts = Append(made.parts, part)]
  BY DEF AddPart
<1>8. \A x \in F : x.tokens \in Int
  BY DEF Fitting
<1>9. CASE made.over \/ budget <= 0 \/ part.tokens > made.left
  BY <1>1, <1>7, <1>9 DEF Making
<1>10. CASE ~ (made.over \/ budget <= 0 \/ part.tokens > made.left)
  <2> PICK l, s, e : l = made.left /\ s = made.parts /\ e = part.tokens
    OBVIOUS
  <2>1. l \in Nat /\ e \in Int /\ ~ (e > l) /\ s \in Seq(F) /\ MaxContext \in Nat
        /\ ContextTokens(s) = MaxContext - l
    BY <1>1, <1>6, <1>8, <1>10, RetrievalAssumption
  <2>2. l - e \in Nat
    BY <2>1
  <2>3. ContextTokens(Append(s, part)) = ContextTokens(s) + e
    BY <1>6, <1>8, <2>1, TokensOfAppended
  <2>4. ContextTokens(Append(s, part)) = MaxContext - (l - e)
    BY <2>1, <2>3
  <2>5. Append(s, part) \in Seq(F)
    BY <1>6, <2>1
  <2> PICK new : new = [made EXCEPT !.left = l - e, !.parts = Append(s, part)]
    OBVIOUS
  <2>6. new = [left |-> l - e, parts |-> Append(s, part), over |-> made.over]
        /\ made.over \in BOOLEAN
    BY <1>1
  <2>7. new \in Making(X)
    BY <2>2, <2>4, <2>5, <2>6 DEF Making
  <2>8. AddPart(made, key) = new
    BY <1>7, <1>10
  <2> QED  BY <2>7, <2>8
<1> QED  BY <1>9, <1>10

\* What is assembled fits the limit, and so does each of its parts.
LEMMA AssembledFits ==
    ASSUME NEW R \in SUBSET DOMAIN Index, results \in Seq(R),
           NEW s \in Seq(DOMAIN Index), NEW X, X = ToSet(results)
    PROVE  FoldLeft(AddPart, [left |-> MaxContext, parts |-> << >>, over |-> FALSE], s)
             \in Making(X)
<1> PICK b0 : b0 = [left |-> MaxContext, parts |-> << >>, over |-> FALSE]
  OBVIOUS
<1> PICK K : K = DOMAIN Index
  OBVIOUS
<1> DEFINE n == Len(s)
           Folds(h) == h = [S \in SUBSET (1 .. n) |->
                            IF S = {} THEN b0
                            ELSE AddPart(h[S \ {Max(S)}], s[Max(S)])]
           iter == CHOOSE h : Folds(h)
<1>1. n \in Nat /\ DOMAIN s = 1 .. n /\ \A i \in 1 .. n : s[i] \in K
  BY DEF ToSet
<1>2. FoldLeft(AddPart, b0, s) = iter[1 .. n]
  BY <1>1 DEF FoldLeft, MapThenFoldSet
<1> PICK A : A = Making(X)
  OBVIOUS
<1>3. b0 \in A /\ \A a \in A, x \in K :
         (AddPart(a, x)) \in A
  <2>1. << >> \in Seq(Fitting(X)) /\ MaxContext \in Nat /\ MaxContext - MaxContext = 0
    BY RetrievalAssumption
  <2>2. b0 \in Making(X)
    BY <2>1, TokensOfNone DEF Making
  <2>3. \A a \in Making(X), x \in DOMAIN Index : AddPart(a, x) \in Making(X)
    BY PartsFit
  <2> QED  BY <2>2, <2>3
<1>4. \E h \in [SUBSET (1 .. n) -> A] : Folds(h)
  <2> DEFINE G0 == [i \in 1 .. n |-> [a \in A |->
                      AddPart(a, s[i])]]
  <2>1. PICK G : G = G0
    OBVIOUS
  <2>2. G \in [1 .. n -> [A -> A]]
    BY <1>3, <1>1, <2>1
  <2>3. PICK h : FoldsOver(h, n, A, b0, G)
    <3>1. ASSUME NEW B, NEW z \in B, G \in [1 .. n -> [B -> B]]
          PROVE  \E h : FoldsOver(h, n, B, z, G)
      <4> HIDE DEF G0, n
      <4> QED  BY <1>1, <3>1, FoldExists
    <3> HIDE DEF G0, n
    <3> QED  BY <1>3, <2>2, <3>1
  <2>4. h \in [SUBSET (1 .. n) -> A]
    BY <2>3 DEF FoldsOver
  <2>5. ASSUME NEW S \in SUBSET (1 .. n)
        PROVE  h[S] = IF S = {} THEN b0
                      ELSE AddPart(h[S \ {Max(S)}], s[Max(S)])
    <3>1. h[S] = IF S = {} THEN b0 ELSE G[Max(S)][h[S \ {Max(S)}]]
      BY <2>3 DEF FoldsOver
    <3>2. CASE S # {}
      <4>1. Max(S) \in 1 .. n
        <5> HIDE DEF n
        <5> QED  BY <1>1, <3>2, MaxIn
      <4>2. h[S \ {Max(S)}] \in A
        BY <2>4
      <4> QED  BY <2>1, <3>1, <3>2, <4>1, <4>2
    <3> QED  BY <3>1, <3>2
  <2>6. h = [S \in SUBSET (1 .. n) |-> h[S]]
    BY <2>4
  <2>7. Folds(h)
    <3> HIDE DEF G0, n
    <3> QED  BY <2>5, <2>6
  <2> QED  BY <2>4, <2>7
<1>5. Folds(iter)
  BY <1>4
<1>6. ASSUME NEW S \in SUBSET (1 .. n)
      PROVE  iter[S] = IF S = {} THEN b0
                       ELSE AddPart(iter[S \ {Max(S)}], s[Max(S)])
  BY <1>5
<1> HIDE DEF iter, Folds
<1>7. iter[{}] \in A
  <2>1. iter[{}] = b0
    BY <1>6
  <2> QED  BY <1>3, <2>1
<1>8. ASSUME NEW i \in 1 .. n, iter[1 .. (i - 1)] \in A
      PROVE  iter[1 .. i] \in A
  <2>1. /\ (1 .. i) \in SUBSET (1 .. n) /\ (1 .. i) # {}
        /\ (1 .. i) \ {i} = 1 .. (i - 1) /\ Max(1 .. i) = i
    <3> HIDE DEF n
    <3> QED  BY <1>1, FirstLess, MaxOfFirst
  <2>2. iter[1 .. i] = AddPart(iter[1 .. (i - 1)], s[i])
    <3> HIDE DEF n
    <3> QED  BY <1>6, <2>1, Zenon
  <2>3. PICK a, x : a = iter[1 .. (i - 1)] /\ x = s[i]
    OBVIOUS
  <2>4. a \in A /\ x \in K
    BY <1>1, <1>8, <2>3
  <2>5. (AddPart(a, x)) \in A
    BY <1>3, <2>4
  <2> HIDE DEF n
  <2> QED  BY <2>2, <2>3, <2>5
<1>9. iter[1 .. n] \in A
  <2>1. PICK f : f = iter
    OBVIOUS
  <2>2. f[{}] \in A
    BY <1>7, <2>1
  <2>3. \A i \in 1 .. n : f[1 .. (i - 1)] \in A => f[1 .. i] \in A
    BY <1>8, <2>1
  <2>4. n \in Nat
    BY <1>1
  <2> HIDE DEF n
  <2> QED  BY <2>1, <2>2, <2>3, <2>4, FoldReaches
<1> QED  BY <1>2, <1>9

-----------------------------------------------------------------------------
(* The inductive invariant. *)

\* What the caller may be answered from: seen by him, and served at some time.
Findable == {c \in Children : Visible(c) /\ Index[c].doc \in servable}

ChannelState(S) == [at : {"off", "start", "asked", "done", "failed"},
                    allowed : SUBSET S, hits : SUBSET S]

Found ==
    /\ live \subseteq Docs /\ ActiveTerms \subseteq servable
    /\ channels \in [Channels -> ChannelState(Findable)]
    /\ results \in Seq(Findable)

Loaded == loaded \subseteq {p \in DOMAIN Index : Visible(p)}

Kept ==
    /\ search \in {"idle", "channels", "rerank", "parents", "found"} => context = << >>
    /\ context \in Seq(Fitting(ToSet(results)))
    /\ ContextTokens(context) <= MaxContext

RetrievalInv == Found /\ Loaded /\ Kept

-----------------------------------------------------------------------------
(* Lemmas: the results. *)

\* What a query may answer is what its caller may find.
LEMMA PermittedIsFindable ==
    ASSUME NEW among, ActiveTerms \subseteq servable
    PROVE  Permitted(among) \subseteq Findable
BY DEF Permitted, Findable

\* An order of some chunks is a sequence of them, and so is its top.
LEMMA OrdersAreResults ==
    ASSUME NEW S \in SUBSET DOMAIN Index, NEW order \in SetToSeqs(S)
    PROVE  order \in Seq(S)
<1>1. Cardinality(S) \in Nat
  BY FS_Subset, FS_CardinalityType, RetrievalAssumption
<1>2. order \in [1 .. Cardinality(S) -> S]
  BY DEF SetToSeqs
<1> PICK n : n = Cardinality(S)
  OBVIOUS
<1> QED  BY <1>1, <1>2

LEMMA TopsAreResults ==
    ASSUME NEW S, NEW order \in Seq(S)
    PROVE  Top(order) \in Seq(S)
<1>1. Len(order) \in Nat /\ ResultTop \in Nat
  BY RetrievalAssumption
<1> PICK k : k = Min({Len(order), ResultTop})
  OBVIOUS
<1>2. k \in {Len(order), ResultTop} /\ k <= Len(order)
  <2> PICK l : l = Len(order)
    OBVIOUS
  <2>1. l \in Int /\ ResultTop \in Int /\ k = Min({l, ResultTop})
    BY <1>1
  <2> QED  BY <2>1, MinOfTwo
<1>3. k \in 0 .. Len(order)
  BY <1>1, <1>2
<1>4. SubSeq(order, 1, k) \in Seq(S)
  <2>1. 1 \in Int /\ k \in Int
    BY <1>1, <1>3
  <2>2. \A i \in 1 .. k : order[i] \in S
    <3>1. \A i \in 1 .. k : i \in 1 .. Len(order)
      BY <1>1, <1>3
    <3>2. \A i \in 1 .. Len(order) : order[i] \in S
      OBVIOUS
    <3> QED  BY <3>1, <3>2
  <2> QED  BY <2>1, <2>2, SubSeqProperties
<1> QED  BY <1>4 DEF Top

-----------------------------------------------------------------------------
(* The steps. *)

LEMMA InitKeeps == RetrievalInit => RetrievalInv
<1> SUFFICES ASSUME RetrievalInit
             PROVE  RetrievalInv
  OBVIOUS
<1>1. Found
  <2>1. live \subseteq Docs /\ ActiveTerms \subseteq servable
    BY DEF RetrievalInit
  <2>2. channels \in [Channels -> ChannelState(Findable)]
    BY DEF RetrievalInit, Unselected, ChannelState
  <2>3. results \in Seq(Findable)
    BY DEF RetrievalInit
  <2> QED  BY <2>1, <2>2, <2>3 DEF Found
<1>2. Loaded
  BY DEF RetrievalInit, Loaded
<1>3. Kept
  <2>1. context = << >> /\ MaxContext \in Nat
    BY RetrievalAssumption DEF RetrievalInit
  <2>2. ContextTokens(context) = 0
    BY <2>1, TokensOfNone
  <2>3. context \in Seq(Fitting(ToSet(results)))
    BY <2>1
  <2> QED  BY <2>1, <2>2, <2>3 DEF Kept
<1> QED  BY <1>1, <1>2, <1>3 DEF RetrievalInv

\* Who may see a chunk does not change with the search.
LEMMA SameCaller ==
    ASSUME caller' = caller
    PROVE  \A c \in DOMAIN Index : Visible(c)' = Visible(c)
BY DEF Visible

\* A step before there is a context leaves it empty, and within the limit.
LEMMA NothingKept ==
    ASSUME context = << >>, context' = context
    PROVE  Kept'
<1>1. context' = << >> /\ MaxContext \in Nat
  BY RetrievalAssumption
<1>2. ContextTokens(context') = 0
  BY <1>1, TokensOfNone
<1>3. context' \in Seq(Fitting(ToSet(results')))
  BY <1>1
<1>4. ContextTokens(context')  <= MaxContext
  BY <1>1, <1>2
<1> QED  BY <1>1, <1>3, <1>4 DEF Kept

\* A step that touches neither the results nor the context, nor goes back.
LEMMA SameContext ==
    ASSUME Kept, UNCHANGED <<results, context>>,
           search' \in {"idle", "channels", "rerank", "parents", "found"} => context = << >>
    PROVE  Kept'
BY DEF Kept

\* What is found stays found while more becomes servable.
LEMMA SameFound ==
    ASSUME Found, UNCHANGED <<caller, channels, results>>,
           servable \subseteq servable', live' \subseteq Docs, ActiveTerms' \subseteq servable'
    PROVE  Found'
<1>1. Findable \subseteq Findable'
  BY SameCaller DEF Findable, Children
<1> PICK S, T : S = Findable /\ T = Findable'
  OBVIOUS
<1>2. channels \in [Channels -> ChannelState(S)] /\ results \in Seq(S) /\ S \subseteq T
  BY <1>1 DEF Found
<1>3. channels \in [Channels -> ChannelState(T)]
  BY <1>2 DEF ChannelState
<1>4. results \in Seq(T)
  BY <1>2
<1> QED  BY <1>3, <1>4 DEF Found, ChannelState

\* The same without a change of the active documents.
LEMMA SameDocuments ==
    ASSUME Found, UNCHANGED <<caller, live, servable>>
    PROVE  /\ Findable' = Findable /\ live' \subseteq Docs /\ ActiveTerms' \subseteq servable'
           /\ ActiveTerms \subseteq servable
BY SameCaller DEF Findable, Children, Found, ActiveTerms

LEMMA FoundAgain ==
    ASSUME Found, UNCHANGED <<caller, live, servable>>,
           channels' \in [Channels -> ChannelState(Findable)], results' \in Seq(Findable)
    PROVE  Found'
<1> PICK S : S = Findable
  OBVIOUS
<1>1. Findable' = S /\ live' \subseteq Docs /\ ActiveTerms' \subseteq servable'
  BY SameDocuments
<1>2. channels' \in [Channels -> ChannelState(S)] /\ results' \in Seq(S)
  OBVIOUS
<1> QED  BY <1>1, <1>2 DEF Found, ChannelState

LEMMA SameLoaded ==
    ASSUME Loaded, UNCHANGED <<caller, loaded>>
    PROVE  Loaded'
BY SameCaller DEF Loaded

LEMMA ChangeActiveKeeps ==
    ASSUME RetrievalInv, ChangeActive
    PROVE  RetrievalInv'
<1>1. live' \subseteq Docs
  BY DEF ChangeActive, RetrievalInv, Found
<1>2. Found'
  <2>1. ActiveTerms' \subseteq servable' /\ servable \subseteq servable'
    BY DEF ChangeActive, ActiveTerms, Unfiltered
  <2> QED  BY <1>1, <2>1, SameFound DEF ChangeActive, RetrievalInv
<1>3. Kept'
  BY NothingKept DEF ChangeActive, RetrievalInv, Kept
<1>4. Loaded'
  BY SameLoaded DEF ChangeActive, RetrievalInv
<1> QED  BY <1>2, <1>3, <1>4 DEF RetrievalInv

LEMMA AbortSearchKeeps ==
    ASSUME RetrievalInv, AbortSearch
    PROVE  RetrievalInv'
<1>1. Found'
  BY FoundAgain DEF AbortSearch, RetrievalInv, Found
<1>2. Kept'
  BY SameContext DEF AbortSearch, RetrievalInv, Kept
<1>3. Loaded'
  BY SameLoaded DEF AbortSearch, RetrievalInv
<1> QED  BY <1>1, <1>2, <1>3 DEF RetrievalInv

LEMMA BeginSearchKeeps ==
    ASSUME RetrievalInv, BeginSearch
    PROVE  RetrievalInv'
<1> PICK S : S = Findable
  OBVIOUS
<1>1. channels' \in [Channels -> ChannelState(S)]
  <2>1. CASE cancelled
    BY <2>1 DEF BeginSearch, RetrievalInv, Found
  <2>2. CASE ~cancelled
    <3>1. PICK selected \in Selections, page \in PageIndexAsks :
            channels' = [ch \in Channels |->
                    CASE ch \notin selected -> Unselected
                      [] ch \in selected /\ ch = "bm25" -> Asked(Permitted(Children))
                      [] ch \in selected /\ ch = "pageIndex" -> page
                      [] OTHER -> Waiting]
      BY <2>2 DEF BeginSearch
    <3>2. \A among : Permitted(among) \subseteq S
      BY PermittedIsFindable DEF RetrievalInv, Found
    <3>3. page \in ChannelState(S)
      <4>1. /\ \A T \in SUBSET S : Asked(T) \in ChannelState(S)
            /\ Settled({}) \in ChannelState(S) /\ Failed \in ChannelState(S)
        BY DEF ChannelState, Asked, Settled, Failed
      <4>2. \A c : Permitted({c}) \in SUBSET S
        BY <3>2
      <4> QED  BY <4>1, <4>2 DEF PageIndexAsks
    <3>4. /\ Unselected \in ChannelState(S) /\ Waiting \in ChannelState(S)
          /\ Asked(Permitted(Children)) \in ChannelState(S)
      BY <3>2 DEF ChannelState, Unselected, Waiting, Asked
    <3> PICK C, off, wait, all : C = ChannelState(S) /\ off = Unselected /\ wait = Waiting
                                 /\ all = Asked(Permitted(Children))
      OBVIOUS
    <3>5. off \in C /\ wait \in C /\ all \in C /\ page \in C
      BY <3>3, <3>4
    <3>6. channels' = [ch \in Channels |->
                    CASE ch \notin selected -> off
                      [] ch \in selected /\ ch = "bm25" -> all
                      [] ch \in selected /\ ch = "pageIndex" -> page
                      [] OTHER -> wait]
      BY <3>1
    <3> QED  BY <3>5, <3>6
  <2> QED  BY <2>1, <2>2
<1>2. Found'
  BY <1>1, FoundAgain DEF BeginSearch, RetrievalInv, Found
<1>3. Kept'
  BY NothingKept DEF BeginSearch, RetrievalInv, Kept
<1>4. Loaded'
  BY SameLoaded DEF BeginSearch, RetrievalInv
<1> QED  BY <1>2, <1>3, <1>4 DEF RetrievalInv

LEMMA SetChannelKeeps ==
    ASSUME RetrievalInv, NEW ch \in Channels, NEW state \in ChannelState(Findable),
           SetChannel(ch, state)
    PROVE  RetrievalInv'
<1>1. channels' \in [Channels -> ChannelState(Findable)]
  <2> PICK C : C = ChannelState(Findable)
    OBVIOUS
  <2>1. channels \in [Channels -> C] /\ channels' = [channels EXCEPT ![ch] = state]
    BY DEF SetChannel, RetrievalInv, Found
  <2> QED  BY <2>1
<1>2. Found'
  BY <1>1, FoundAgain DEF SetChannel, RetrievalInv, Found
<1>3. Kept'
  BY NothingKept DEF SetChannel, RetrievalInv, Kept
<1>4. Loaded'
  BY SameLoaded DEF SetChannel, RetrievalInv
<1> QED  BY <1>2, <1>3, <1>4 DEF RetrievalInv

LEMMA ChannelsKeep ==
    ASSUME RetrievalInv,
           \/ Embedded \/ GraphMatches
           \/ \E ch \in Channels : ChannelAnswers(ch) \/ ChannelFails(ch)
    PROVE  RetrievalInv'
<1> PICK S : S = Findable
  OBVIOUS
<1>1. \A among : Permitted(among) \subseteq S
  BY PermittedIsFindable DEF RetrievalInv, Found
<1>2. /\ \A T \in SUBSET S : Asked(T) \in ChannelState(S) /\ Settled(T) \in ChannelState(S)
      /\ Failed \in ChannelState(S)
  BY DEF ChannelState, Asked, Settled, Failed
<1>3. "vector" \in Channels /\ "graph" \in Channels
  BY DEF Channels
<1>4. \A found : GraphScope(found) \subseteq S
  BY <1>1 DEF GraphScope
<1>5. CASE Embedded
  <2>1. SetChannel("vector", Asked(Permitted(Children)))
    BY <1>5 DEF Embedded
  <2>2. Asked(Permitted(Children)) \in ChannelState(S)
    BY <1>1, <1>2
  <2> QED  BY <1>3, <2>1, <2>2, SetChannelKeeps
<1>6. CASE GraphMatches
  <2>1. PICK named \in BOOLEAN, found \in {{}} \cup {{c} : c \in Provenance} :
          SetChannel("graph", IF ~named /\ found = {} THEN Settled({})
                              ELSE Asked(GraphScope(found)))
    BY <1>6 DEF GraphMatches
  <2>2. (IF ~named /\ found = {} THEN Settled({}) ELSE Asked(GraphScope(found)))
          \in ChannelState(S)
    BY <1>2, <1>4
  <2> QED  BY <1>3, <2>1, <2>2, SetChannelKeeps
<1>7. ASSUME NEW ch \in Channels, ChannelAnswers(ch)
      PROVE  RetrievalInv'
  <2>1. PICK hits \in SUBSET channels[ch].allowed : SetChannel(ch, Settled(hits))
    BY <1>7 DEF ChannelAnswers
  <2>2. channels[ch].allowed \in SUBSET S
    BY DEF RetrievalInv, Found, ChannelState
  <2>3. Settled(hits) \in ChannelState(S)
    BY <1>2, <2>2
  <2> QED  BY <2>1, <2>3, SetChannelKeeps
<1>8. ASSUME NEW ch \in Channels, ChannelFails(ch)
      PROVE  RetrievalInv'
  <2>1. SetChannel(ch, Failed)
    BY <1>8 DEF ChannelFails
  <2> QED  BY <1>2, <2>1, SetChannelKeeps
<1> QED  BY <1>5, <1>6, <1>7, <1>8

LEMMA FuseKeeps ==
    ASSUME RetrievalInv, Fuse
    PROVE  RetrievalInv'
<1> PICK S : S = Findable
  OBVIOUS
<1> PICK fused : fused = UNION {channels[ch].hits : ch \in Channels}
  OBVIOUS
<1>3. S \subseteq DOMAIN Index /\ results \in Seq(S)
      /\ channels \in [Channels -> ChannelState(S)]
  BY DEF Findable, Children, RetrievalInv, Found
<1>1. fused \in SUBSET S /\ fused \in SUBSET DOMAIN Index
  <2>1. \A ch \in Channels : channels[ch].hits \in SUBSET S
    BY <1>3 DEF ChannelState
  <2> QED  BY <1>3, <2>1
<1>2. results' \in Seq(S)
  <2>1. CASE results' = results
    BY <1>3, <2>1
  <2>2. ASSUME NEW order \in SetToSeqs(fused), results' = Top(order) \/ results' = order
        PROVE  results' \in Seq(S)
    <3>1. order \in Seq(fused) /\ Top(order) \in Seq(fused)
      BY <1>1, OrdersAreResults, TopsAreResults
    <3> QED  BY <1>1, <2>2, <3>1
  <2>3. \/ results' = results
        \/ \E order \in SetToSeqs(fused) : results' = Top(order)
        \/ results' \in SetToSeqs(fused)
    BY DEF Fuse
  <2> QED  BY <2>1, <2>2, <2>3
<1>4. channels' \in [Channels -> ChannelState(S)]
  BY DEF Fuse, Unselected, ChannelState
<1>5. Found'
  BY <1>2, <1>4, FoundAgain DEF Fuse, RetrievalInv
<1>6. Kept'
  BY NothingKept DEF Fuse, RetrievalInv, Kept
<1>7. Loaded'
  BY SameLoaded DEF Fuse, RetrievalInv
<1> QED  BY <1>5, <1>6, <1>7 DEF RetrievalInv

LEMMA RerankKeeps ==
    ASSUME RetrievalInv, Rerank
    PROVE  RetrievalInv'
<1> PICK S, X : S = Findable /\ X = ToSet(results)
  OBVIOUS
<1>1. S \subseteq DOMAIN Index /\ results \in Seq(S)
  BY DEF Findable, Children, RetrievalInv, Found
<1>2. X \in SUBSET S /\ X \in SUBSET DOMAIN Index
  BY <1>1 DEF ToSet
<1>3. results' \in Seq(S)
  <2>1. CASE results' = Top(results)
    BY <1>1, <2>1, TopsAreResults
  <2>2. ASSUME NEW order \in SetToSeqs(X), results' = Top(order)
        PROVE  results' \in Seq(S)
    <3>1. Top(order) \in Seq(X)
      BY <1>2, OrdersAreResults, TopsAreResults
    <3> QED  BY <1>2, <2>2, <3>1
  <2> QED  BY <2>1, <2>2 DEF Rerank
<1>4. Found'
  BY <1>3, FoundAgain DEF Rerank, RetrievalInv, Found
<1>5. Kept'
  BY NothingKept DEF Rerank, RetrievalInv, Kept
<1>6. Loaded'
  BY SameLoaded DEF Rerank, RetrievalInv
<1> QED  BY <1>4, <1>5, <1>6 DEF RetrievalInv

LEMMA LoadParentsKeeps ==
    ASSUME RetrievalInv, LoadParents
    PROVE  RetrievalInv'
<1>1. loaded' \subseteq {p \in DOMAIN Index : Visible(p)} /\ caller' = caller
  BY DEF LoadParents
<1>2. Loaded'
  BY <1>1, SameCaller DEF Loaded
<1>3. Found'
  BY FoundAgain DEF LoadParents, RetrievalInv, Found
<1>4. Kept'
  BY NothingKept DEF LoadParents, RetrievalInv, Kept
<1> QED  BY <1>2, <1>3, <1>4 DEF RetrievalInv

LEMMA AssembleKeeps ==
    ASSUME RetrievalInv, Assemble
    PROVE  RetrievalInv'
<1> PICK S, X : S = Findable /\ X = ToSet(results)
  OBVIOUS
<1>1. S \in SUBSET DOMAIN Index /\ results \in Seq(S)
  BY DEF Findable, Children, RetrievalInv, Found
<1>2. Kept'
  <2>1. CASE context' = context
    <3>1. context = << >>
      BY DEF Assemble, RetrievalInv, Kept
    <3> QED  BY <2>1, <3>1, NothingKept
  <2>2. CASE context' # context
    <3> PICK made : made = FoldLeft(AddPart,
                             [left |-> MaxContext, parts |-> << >>, over |-> FALSE], ContextGroups)
      OBVIOUS
    <3>1. search' = "assembled" /\ context' = made.parts /\ results' = results
      BY <2>2 DEF Assemble
    <3>2. ContextGroups \in Seq(DOMAIN Index)
      <4>1. \A x \in S : ContextChunk(x) \in DOMAIN Index
        BY <1>1 DEF ContextChunk, RetrievalInv, Loaded
      <4> PICK K : K = DOMAIN Index
        OBVIOUS
      <4>2. \A x \in S : ContextChunk(x) \in K
        BY <4>1
      <4> QED  BY <1>1, <4>2, GroupsAreChunks
    <3>3. made \in Making(X)
      BY <1>1, <3>2, AssembledFits
    <3>4. /\ made.left \in Nat /\ made.parts \in Seq(Fitting(X))
          /\ ContextTokens(made.parts) = MaxContext - made.left /\ MaxContext \in Nat
      BY <3>3, RetrievalAssumption DEF Making
    <3>5. ContextTokens(made.parts) <= MaxContext
      BY <3>4
    <3> PICK parts : parts = made.parts
      OBVIOUS
    <3>6. context' = parts /\ parts \in Seq(Fitting(X)) /\ ContextTokens(parts) <= MaxContext
      BY <3>1, <3>4, <3>5
    <3> QED  BY <3>1, <3>6 DEF Kept
  <2> QED  BY <2>1, <2>2
<1>3. Found'
  BY FoundAgain DEF Assemble, RetrievalInv, Found
<1>4. Loaded'
  BY SameLoaded DEF Assemble, RetrievalInv
<1> QED  BY <1>2, <1>3, <1>4 DEF RetrievalInv

\* A block cites the one piece it is made of.
LEMMA BlocksFit ==
    ASSUME NEW R \in SUBSET DOMAIN Index, results \in Seq(R),
           NEW X, X = ToSet(results), NEW size \in [X -> 0 .. MaxBlock]
    PROVE  CompressGroup(size) \in Seq(Fitting(X))
<1> DEFINE some == {c \in X : size[c] > 0}
<1> PICK kept : kept = ResultsAmong(some)
  OBVIOUS
<1>1. kept \in Seq(R \cap some)
  BY AmongResults
<1>2. CompressGroup(size) =
        [i \in DOMAIN kept |-> [tokens |-> size[kept[i]] + 1, cited |-> {kept[i]},
                                text |-> kept[i], holds |-> {kept[i]}]]
  BY DEF CompressGroup
<1>3. \A i \in DOMAIN kept : kept[i] \in X /\ kept[i] \in DOMAIN Index
  <2>1. \A i \in DOMAIN kept : kept[i] \in R \cap some
    <3> HIDE DEF some
    <3> QED  BY <1>1
  <2> QED  BY <2>1
<1> HIDE DEF some
<1>4. ASSUME NEW i \in DOMAIN kept
      PROVE  [tokens |-> size[kept[i]] + 1, cited |-> {kept[i]},
              text |-> kept[i], holds |-> {kept[i]}] \in Fitting(X)
  <2> PICK c, z : c = kept[i] /\ z = size[kept[i]]
    OBVIOUS
  <2>1. c \in X /\ c \in DOMAIN Index /\ z \in Int
    <3>1. size[c] \in 0 .. MaxBlock /\ MaxBlock \in Nat
      BY <1>3, RetrievalAssumption
    <3> QED  BY <1>3, <3>1
  <2>2. z + 1 \in Int
    BY <2>1
  <2> QED  BY <2>1, <2>2 DEF Fitting
<1>5. DOMAIN kept = 1 .. Len(kept) /\ Len(kept) \in Nat
  BY <1>1
<1> PICK F, blocks : F = Fitting(X) /\ blocks = CompressGroup(size)
  OBVIOUS
<1>6. blocks = [i \in 1 .. Len(kept) |-> blocks[i]] /\ \A i \in 1 .. Len(kept) : blocks[i] \in F
  BY <1>2, <1>4, <1>5
<1>7. blocks \in Seq(F)
  BY <1>5, <1>6
<1> QED  BY <1>7

LEMMA CompressKeeps ==
    ASSUME RetrievalInv, Compress
    PROVE  RetrievalInv'
<1> PICK S, X : S = Findable /\ X = ToSet(results)
  OBVIOUS
<1>1. S \in SUBSET DOMAIN Index /\ results \in Seq(S)
  BY DEF Findable, Children, RetrievalInv, Found
<1>2. Kept'
  <2>1. search' \notin {"idle", "channels", "rerank", "parents", "found"} /\ results' = results
    BY DEF Compress
  <2>2. CASE context' = context
    BY <2>1, <2>2, SameContext DEF RetrievalInv
  <2>3. CASE context' # context
    <3>1. PICK size \in [X -> 0 .. MaxBlock] :
            context' = CompressGroup(size) /\ ~ (ContextTokens(CompressGroup(size)) > MaxContext)
      BY <2>3 DEF Compress
    <3> PICK parts : parts = CompressGroup(size)
      OBVIOUS
    <3>2. parts \in Seq(Fitting(X))
      BY <1>1, BlocksFit
    <3>3. ContextTokens(parts) <= MaxContext
      <4>1. \A x \in Fitting(X) : x.tokens \in Int
        BY DEF Fitting
      <4>2. ContextTokens(parts) \in Int
        BY <3>2, <4>1, TokensAreNumbers
      <4> PICK t : t = ContextTokens(parts)
        OBVIOUS
      <4>3. t \in Int /\ MaxContext \in Nat /\ ~ (t > MaxContext)
        BY <3>1, <4>2, RetrievalAssumption
      <4>4. t <= MaxContext
        BY <4>3
      <4> QED  BY <4>4
    <3> QED  BY <2>1, <3>1, <3>2, <3>3 DEF Kept
  <2> QED  BY <2>2, <2>3
<1>3. Found'
  BY FoundAgain DEF Compress, RetrievalInv, Found
<1>4. Loaded'
  BY SameLoaded DEF Compress, RetrievalInv
<1> QED  BY <1>2, <1>3, <1>4 DEF RetrievalInv

-----------------------------------------------------------------------------
(* The theorem. *)

RetrievalSpec == RetrievalInit /\ [][RetrievalNext]_retrievalVars

LEMMA StepKeeps == RetrievalInv /\ [RetrievalNext]_retrievalVars => RetrievalInv'
<1> SUFFICES ASSUME RetrievalInv, [RetrievalNext]_retrievalVars
             PROVE  RetrievalInv'
  OBVIOUS
<1>1. CASE UNCHANGED retrievalVars
  <2>1. Found'
    BY <1>1, FoundAgain DEF retrievalVars, RetrievalInv, Found
  <2>2. Kept'
    BY <1>1, SameContext DEF retrievalVars, RetrievalInv, Kept
  <2>3. Loaded'
    BY <1>1, SameLoaded DEF retrievalVars, RetrievalInv
  <2> QED  BY <2>1, <2>2, <2>3 DEF RetrievalInv
<1>2. CASE RetrievalNext
  BY <1>2, ChangeActiveKeeps, AbortSearchKeeps, BeginSearchKeeps, ChannelsKeep, FuseKeeps,
     RerankKeeps, LoadParentsKeeps, AssembleKeeps, CompressKeeps DEF RetrievalNext
<1> QED  BY <1>1, <1>2

\* The invariant gives the property.
LEMMA InvPermits == RetrievalInv => ContextIsPermitted
<1> SUFFICES ASSUME RetrievalInv
             PROVE  ContextIsPermitted
  OBVIOUS
<1>1. \A i \in DOMAIN results : Visible(results[i]) /\ Index[results[i]].doc \in servable
  <2>1. \A i \in DOMAIN results : results[i] \in Findable
    BY DEF RetrievalInv, Found
  <2> QED  BY <2>1 DEF Findable
<1>2. \A p \in loaded : Visible(p)
  BY DEF RetrievalInv, Loaded
<1> PICK X : X = ToSet(results)
  OBVIOUS
<1>3. \A i \in DOMAIN context : context[i] \in Fitting(X)
  <2> PICK F : F = Fitting(X)
    OBVIOUS
  <2>1. context \in Seq(F)
    BY DEF RetrievalInv, Kept
  <2> QED  BY <2>1
<1>4. \A part \in Fitting(X) : /\ part.cited \subseteq X
                               /\ \A c \in part.cited : Index[c].doc = Index[part.text].doc
                               /\ part.cited \subseteq part.holds
  BY DEF Fitting
<1>5. ContextTokens(context) <= MaxContext
  BY DEF RetrievalInv, Kept
<1> QED  BY <1>1, <1>2, <1>3, <1>4, <1>5 DEF ContextIsPermitted

\* Whatever fails, is activated or is cut, the context has nothing its caller may not see,
\* nothing that could at no time be served and no citation of a text it does not hold, and
\* it keeps its limit (search filters, parent lookup, assembleContext, compressContext).
THEOREM ContextsArePermitted == RetrievalSpec => []ContextIsPermitted
<1>1. RetrievalSpec => []RetrievalInv
  BY InitKeeps, StepKeeps, PTL DEF RetrievalSpec
<1> QED  BY <1>1, InvPermits, PTL
=============================================================================
