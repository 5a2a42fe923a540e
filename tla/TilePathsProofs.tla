--------------------------- MODULE TilePathsProofs ---------------------------
(***************************************************************************)
(* The tile router's table of paths, for any tile types, any number of     *)
(* threads and any order in which these end: what is stored for a start    *)
(* wire are its direct paths (StoresDirectPaths), what stops the process   *)
(* is a pair with too many ids or a table without inner wires              *)
(* (AbortsIfCutOrEmpty), and what is read through the flat table is what   *)
(* was stored (ScanIsStored).                                              *)
(*                                                                         *)
(* The heads of a level stand for its live walks: walks against the pips   *)
(* that go at each wire to one no earlier wire could have gone to, which   *)
(* are the direct ones.  SearchInv says of the level being grown that its  *)
(* heads, and those the threads found so far, are the walks that far, and  *)
(* of the container that it holds the walks of all earlier levels that     *)
(* end.  The flat table is then proved about for any pairs that have the   *)
(* form the search gives them (PairsOk), level by level.                   *)
(*                                                                         *)
(* What is computed by recursion is proved by recursion: each recursive    *)
(* function is shown to exist, and a set of numbers that holds 0 and with  *)
(* n also n + 1 to hold them all (Inductive).                              *)
(***************************************************************************)
EXTENDS TilePaths, TableCache, FiniteSetTheorems, WellFoundedInduction, TLAPS

(* A set of numbers that is not empty has a least one. *)
LEMMA LeastNat ==
  ASSUME NEW T, T \subseteq Nat, T # {}
  PROVE  \E x \in T : \A y \in T : x <= y
<1>1. \E x \in T : \A y \in T : ~(<<y, x>> \in OpToRel(<, Nat))
  BY NatLessThanWellFounded, WFMin, Zenon
<1>2. PICK x \in T : \A y \in T : ~(<<y, x>> \in OpToRel(<, Nat))
  BY <1>1
<1>3. ASSUME NEW y \in T PROVE x <= y
  <2>1. <<y, x>> \in Nat \X Nat
    OBVIOUS
  <2>2. ~(y < x)
    BY <1>2, <2>1 DEF OpToRel
  <2> QED
    BY <2>2
<1> QED
  BY <1>3

(* A set with 0 and the successor of each of its numbers has all numbers. *)
LEMMA Inductive ==
  ASSUME NEW T, 0 \in T, \A n \in Nat : n \in T => n + 1 \in T
  PROVE  \A n \in Nat : n \in T
<1> DEFINE U == {n \in Nat : n \notin T}
<1> SUFFICES ASSUME U # {} PROVE FALSE
  OBVIOUS
<1>1. PICK x \in U : \A y \in U : x <= y
  BY LeastNat
<1>2. x \in Nat \ {0}
  BY <1>1
<1>3. x - 1 \in Nat /\ x - 1 \in T
  BY <1>1, <1>2
<1> QED
  BY <1>1, <1>2, <1>3

-----------------------------------------------------------------------------
(* Concatenations: where each vector begins, and what is there. *)

(* Before is the function its recursion describes. *)
LEMMA BeforeRecursion ==
  ASSUME NEW vectors, Len(vectors) \in Nat
  PROVE  Before(vectors) = [i \in 1..(Len(vectors) + 1) |->
           IF i = 1 THEN 0 ELSE Before(vectors)[i - 1] + Len(vectors[i - 1])]
<1> DEFINE D(f, i) == IF i = 1 THEN 0 ELSE f[i - 1] + Len(vectors[i - 1])
           Is(f, n) == f = [i \in 1..n |-> D(f, i)]
           T == {n \in Nat : \E f : Is(f, n)}
<1>1. 0 \in T
  <2> DEFINE g == [i \in 1..0 |-> {}]
  <2>1. Is(g, 0)
    OBVIOUS
  <2> HIDE DEF Is, g
  <2> QED
    BY <2>1
<1>2. ASSUME NEW n \in Nat, n \in T PROVE n + 1 \in T
  <2>1. PICK f : Is(f, n)
    BY <1>2
  <2> DEFINE g == [i \in 1..(n + 1) |-> IF i = n + 1 THEN D(f, i) ELSE f[i]]
  <2>2. ASSUME NEW i \in 1..(n + 1) PROVE g[i] = D(g, i)
    <3>1. i # 1 => g[i - 1] = f[i - 1]
      OBVIOUS
    <3>2. D(g, i) = D(f, i)
      BY <3>1
    <3>3. i # n + 1 => f[i] = D(f, i)
      <4> HIDE DEF D
      <4> QED
        BY <2>1
    <3> HIDE DEF D
    <3> QED
      BY <3>2, <3>3
  <2>3. Is(g, n + 1)
    <3> HIDE DEF D
    <3>1. g = [i \in 1..(n + 1) |-> g[i]]
      OBVIOUS
    <3> HIDE DEF g
    <3> QED
      BY <2>2, <3>1
  <2> HIDE DEF Is, g
  <2> QED
    BY <2>3
<1> HIDE DEF T
<1>3. Len(vectors) + 1 \in T
  BY <1>1, <1>2, Inductive
<1>4. PICK f : Is(f, Len(vectors) + 1)
  BY <1>3 DEF T
<1> QED
  BY <1>4, Zenon DEF Before

(* A vector begins where the one before it ends. *)
LEMMA BeforeSums ==
  ASSUME NEW S, NEW vectors \in Seq(Seq(S))
  PROVE  /\ Before(vectors) \in [1..(Len(vectors) + 1) -> Nat]
         /\ Before(vectors)[1] = 0
         /\ \A i \in 1..Len(vectors) :
              Before(vectors)[i + 1] = Before(vectors)[i] + Len(vectors[i])
<1> DEFINE B == Before(vectors)
<1>1. B = [i \in 1..(Len(vectors) + 1) |-> IF i = 1 THEN 0 ELSE B[i - 1] + Len(vectors[i - 1])]
  <2>1. Len(vectors) \in Nat
    OBVIOUS
  <2> QED
    BY <2>1, BeforeRecursion, Zenon
<1>2. \A i \in 1..(Len(vectors) + 1) :
        B[i] = IF i = 1 THEN 0 ELSE B[i - 1] + Len(vectors[i - 1])
  <2> HIDE DEF B
  <2> QED
    BY <1>1
<1> HIDE DEF B
<1>3. B[1] = 0
  BY <1>2
<1>4. \A i \in 1..Len(vectors) : B[i + 1] = B[i] + Len(vectors[i])
  BY <1>2
<1> DEFINE T == {n \in Nat : n <= Len(vectors) => B[n + 1] \in Nat}
<1>5. 0 \in T
  BY <1>3
<1>6. ASSUME NEW n \in Nat, n \in T PROVE n + 1 \in T
  BY <1>6, <1>4
<1>7. \A n \in Nat : n \in T
  <2> HIDE DEF T
  <2> QED
    BY <1>5, <1>6, Inductive
<1>8. ASSUME NEW i \in 1..(Len(vectors) + 1) PROVE B[i] \in Nat
  <2>1. i - 1 \in Nat /\ (i - 1) + 1 = i /\ i - 1 <= Len(vectors)
    OBVIOUS
  <2>2. i - 1 \in T
    BY <1>7, <2>1
  <2> QED
    BY <2>1, <2>2
<1>9. B = [i \in 1..(Len(vectors) + 1) |-> B[i]]
  BY <1>1, Zenon
<1>10. B \in [1..(Len(vectors) + 1) -> Nat]
  BY <1>8, <1>9
<1> QED
  BY <1>3, <1>4, <1>10 DEF B

(* The places where vectors begin are in order. *)
LEMMA BeforeGrows ==
  ASSUME NEW S, NEW vectors \in Seq(Seq(S)),
         NEW i \in 1..(Len(vectors) + 1), NEW j \in 1..(Len(vectors) + 1), i <= j
  PROVE  Before(vectors)[i] <= Before(vectors)[j]
<1> DEFINE B == Before(vectors)
           T == {n \in Nat : i + n <= Len(vectors) + 1 => B[i] <= B[i + n]}
<1>1. /\ B \in [1..(Len(vectors) + 1) -> Nat]
      /\ \A k \in 1..Len(vectors) : B[k + 1] = B[k] + Len(vectors[k])
  BY BeforeSums
<1> HIDE DEF B
<1>2. 0 \in T
  <2>1. B[i] \in Nat
    BY <1>1
  <2>2. i + 0 = i
    OBVIOUS
  <2> QED
    BY <2>1, <2>2
<1>3. ASSUME NEW n \in Nat, n \in T PROVE n + 1 \in T
  <2> SUFFICES ASSUME i + (n + 1) <= Len(vectors) + 1 PROVE B[i] <= B[i + (n + 1)]
    OBVIOUS
  <2>1. i + n \in 1..Len(vectors) /\ i + (n + 1) = (i + n) + 1
    OBVIOUS
  <2>2. Len(vectors[i + n]) \in Nat
    BY <2>1
  <2>3. B[i] \in Nat
    BY <1>1
  <2>6. B[i + n] \in Nat
    <3>1. i + n \in 1..(Len(vectors) + 1)
      BY <2>1
    <3> QED
      BY <1>1, <3>1
  <2>5. B[(i + n) + 1] = B[i + n] + Len(vectors[i + n])
    <3> \A k \in 1..Len(vectors) : B[k + 1] = B[k] + Len(vectors[k])
      BY <1>1
    <3> QED
      BY <2>1, Zenon
  <2>4. B[i] <= B[i + n]
    BY <1>3, <2>1
  <2> QED
    BY <2>1, <2>2, <2>3, <2>4, <2>5, <2>6
<1>4. j - i \in T
  <2>1. j - i \in Nat
    OBVIOUS
  <2> HIDE DEF T
  <2> QED
    BY <1>2, <1>3, <2>1, Inductive
<1>5. i + (j - i) = j
  OBVIOUS
<1> QED
  BY <1>4, <1>5 DEF B

(* What FlattenSeq builds, vector by vector. *)
Flattening(seqs) ==
  CHOOSE f : f = [i \in 1..Len(seqs) |-> IF i = 1 THEN seqs[i] ELSE f[i - 1] \o seqs[i]]

(* Flattening is the function its recursion describes. *)
LEMMA FlatteningRecursion ==
  ASSUME NEW seqs, Len(seqs) \in Nat
  PROVE  Flattening(seqs) = [i \in 1..Len(seqs) |->
           IF i = 1 THEN seqs[i] ELSE Flattening(seqs)[i - 1] \o seqs[i]]
<1> DEFINE D(f, i) == IF i = 1 THEN seqs[i] ELSE f[i - 1] \o seqs[i]
           Is(f, n) == f = [i \in 1..n |-> D(f, i)]
           T == {n \in Nat : \E f : Is(f, n)}
<1>1. 0 \in T
  <2> DEFINE g == [i \in 1..0 |-> {}]
  <2>1. Is(g, 0)
    OBVIOUS
  <2> HIDE DEF Is, g
  <2> QED
    BY <2>1
<1>2. ASSUME NEW n \in Nat, n \in T PROVE n + 1 \in T
  <2>1. PICK f : Is(f, n)
    BY <1>2
  <2> DEFINE g == [i \in 1..(n + 1) |-> IF i = n + 1 THEN D(f, i) ELSE f[i]]
  <2>2. ASSUME NEW i \in 1..(n + 1) PROVE g[i] = D(g, i)
    <3>1. i # 1 => g[i - 1] = f[i - 1]
      OBVIOUS
    <3>2. D(g, i) = D(f, i)
      BY <3>1
    <3>3. i # n + 1 => f[i] = D(f, i)
      <4> HIDE DEF D
      <4> QED
        BY <2>1
    <3> HIDE DEF D
    <3> QED
      BY <3>2, <3>3
  <2>3. Is(g, n + 1)
    <3> HIDE DEF D
    <3>1. g = [i \in 1..(n + 1) |-> g[i]]
      OBVIOUS
    <3> HIDE DEF g
    <3> QED
      BY <2>2, <3>1
  <2> HIDE DEF Is, g
  <2> QED
    BY <2>3
<1> HIDE DEF T
<1>3. Len(seqs) \in T
  BY <1>1, <1>2, Inductive
<1>4. PICK f : Is(f, Len(seqs))
  BY <1>3 DEF T
<1> QED
  BY <1>4, Zenon DEF Flattening

(* The entries of a concatenation. *)
LEMMA Concatenated ==
  ASSUME NEW S, NEW a \in Seq(S), NEW b \in Seq(S)
  PROVE  /\ a \o b \in Seq(S) /\ Len(a \o b) = Len(a) + Len(b)
         /\ \A j \in 1..Len(a) : (a \o b)[j] = a[j]
         /\ \A j \in 1..Len(b) : (a \o b)[Len(a) + j] = b[j]
OBVIOUS

(* The concatenation of the vectors has each where Before says. *)
LEMMA Flattened ==
  ASSUME NEW S, NEW seqs \in Seq(Seq(S))
  PROVE  /\ FlattenSeq(seqs) \in Seq(S)
         /\ Len(FlattenSeq(seqs)) = Before(seqs)[Len(seqs) + 1]
         /\ \A i \in 1..Len(seqs) : \A j \in 1..Len(seqs[i]) :
              FlattenSeq(seqs)[Before(seqs)[i] + j] = seqs[i][j]
<1> DEFINE B == Before(seqs)
           F == Flattening(seqs)
           L == Len(seqs)
<1>1. /\ B \in [1..(L + 1) -> Nat]
      /\ B[1] = 0
      /\ \A i \in 1..L : B[i + 1] = B[i] + Len(seqs[i])
  BY BeforeSums
<1>2. \A i \in 1..(L + 1) : \A k \in 1..(L + 1) : i <= k => B[i] <= B[k]
  BY BeforeGrows
<1>3. F = [i \in 1..L |-> IF i = 1 THEN seqs[i] ELSE F[i - 1] \o seqs[i]]
  <2>1. L \in Nat
    OBVIOUS
  <2> QED
    BY <2>1, FlatteningRecursion, Zenon
<1>4. \A i \in 1..L : F[i] = IF i = 1 THEN seqs[i] ELSE F[i - 1] \o seqs[i]
  <2> HIDE DEF F
  <2> QED
    BY <1>3
<1>5. L \in Nat /\ \A i \in 1..L : seqs[i] \in Seq(S) /\ Len(seqs[i]) \in Nat
  OBVIOUS
<1>6. FlattenSeq(seqs) = IF L = 0 THEN seqs ELSE F[L]
  BY DEF FlattenSeq, Flattening
<1> HIDE DEF B, F, L
<1> DEFINE Part(n) == /\ F[n] \in Seq(S) /\ Len(F[n]) = B[n + 1]
                      /\ \A i \in 1..n : \A j \in 1..Len(seqs[i]) : F[n][B[i] + j] = seqs[i][j]
           T == {n \in Nat : n \in 1..L => Part(n)}
<1>7. 0 \in T
  OBVIOUS
<1>8. ASSUME NEW n \in Nat, n \in T PROVE n + 1 \in T
  <2> SUFFICES ASSUME n + 1 \in 1..L PROVE Part(n + 1)
    OBVIOUS
  <2> DEFINE m == n + 1
  <2>1. m \in 1..L /\ m \in Nat /\ m - 1 = n /\ m \in 1..(L + 1) /\ m + 1 \in 1..(L + 1)
    BY <1>5
  <2>2. B[m + 1] = B[m] + Len(seqs[m]) /\ B[m] \in Nat /\ Len(seqs[m]) \in Nat
    <3>1. B[m] \in Nat
      BY <1>1, <2>1
    <3>2. B[m + 1] = B[m] + Len(seqs[m])
      BY <1>1, <2>1
    <3> QED
      BY <1>5, <2>1, <3>1, <3>2
  <2>3. CASE n = 0
    <3>1. F[m] = seqs[m] /\ m = 1
      BY <1>4, <2>1, <2>3
    <3>2. \A j \in 1..Len(seqs[1]) : B[1] + j = j
      BY <1>1
    <3>3. F[m] \in Seq(S) /\ Len(F[m]) = B[m + 1]
      BY <1>1, <1>5, <2>1, <2>2, <3>1
    <3>4. ASSUME NEW i \in 1..m, NEW j \in 1..Len(seqs[i]) PROVE F[m][B[i] + j] = seqs[i][j]
      <4>1. i = 1
        BY <3>1
      <4> QED
        BY <3>1, <3>2, <4>1
    <3> QED
      BY <3>3, <3>4
  <2>4. CASE n # 0
    <3>1. n \in 1..L /\ n \in 1..(L + 1) /\ m # 1
      BY <1>5, <2>1, <2>4
    <3>2. Part(n)
      BY <1>8, <3>1
    <3>3. F[m] = F[n] \o seqs[m]
      <4> HIDE DEF m
      <4>1. F[m] = IF m = 1 THEN seqs[m] ELSE F[m - 1] \o seqs[m]
        BY <1>4, <2>1
      <4> QED
        BY <2>1, <3>1, <4>1
    <3>4. seqs[m] \in Seq(S)
      BY <1>5, <2>1
    <3>5. /\ F[m] \in Seq(S) /\ Len(F[m]) = Len(F[n]) + Len(seqs[m])
          /\ \A j \in 1..Len(F[n]) : F[m][j] = F[n][j]
          /\ \A j \in 1..Len(seqs[m]) : F[m][Len(F[n]) + j] = seqs[m][j]
      <4> HIDE DEF m
      <4>1. F[n] \in Seq(S)
        BY <3>2
      <4> HIDE DEF Part
      <4> QED
        <5> DEFINE a == F[n]
                   b == seqs[m]
        <5> HIDE DEF a, b
        <5>1. /\ a \o b \in Seq(S) /\ Len(a \o b) = Len(a) + Len(b)
              /\ \A j \in 1..Len(a) : (a \o b)[j] = a[j]
              /\ \A j \in 1..Len(b) : (a \o b)[Len(a) + j] = b[j]
          <6> a \in Seq(S) /\ b \in Seq(S)
            BY <3>4, <4>1 DEF a, b
          <6> QED
            OBVIOUS
        <5> QED
          BY <3>3, <5>1, Zenon DEF a, b
    <3>6. Len(F[n]) = B[m]
      BY <3>2
    <3>7. ASSUME NEW i \in 1..m, NEW j \in 1..Len(seqs[i]) PROVE F[m][B[i] + j] = seqs[i][j]
      <4>1. CASE i = m
        BY <3>5, <3>6, <4>1
      <4>2. CASE i # m
        <5>1. i \in 1..n /\ i \in 1..L /\ i \in 1..(L + 1) /\ i + 1 \in 1..(L + 1) /\ i + 1 <= m
          BY <1>5, <2>1, <4>2
        <5>2. B[i + 1] = B[i] + Len(seqs[i]) /\ Len(seqs[i]) \in Nat
          BY <1>1, <1>5, <5>1
        <5>3. B[i] \in Nat
          BY <1>1, <5>1
        <5>4. B[i + 1] <= B[m]
          BY <1>2, <2>1, <5>1
        <5>5. B[i] + j \in 1..Len(F[n])
          <6>1. j \in Nat /\ 1 <= j /\ j <= Len(seqs[i])
            BY <5>2
          <6>2. B[i] + j <= B[i + 1]
            BY <5>2, <5>3, <6>1
          <6>3. B[i + 1] \in Nat /\ B[m] \in Nat
            BY <2>2, <5>2, <5>3
          <6>4. B[i] + j \in Nat /\ 1 <= B[i] + j
            BY <5>3, <6>1
          <6> HIDE DEF m
          <6>5. B[i] + j <= B[m]
            BY <5>4, <6>2, <6>3, <6>4
          <6> QED
            BY <3>6, <6>3, <6>4, <6>5
        <5>6. F[n][B[i] + j] = seqs[i][j]
          BY <3>2, <5>1
        <5> QED
          BY <3>5, <5>5, <5>6
      <4> QED
        BY <4>1, <4>2
    <3>8. Len(F[m]) = B[m + 1]
      BY <2>2, <3>5, <3>6
    <3> QED
      BY <3>5, <3>7, <3>8
  <2> QED
    BY <2>3, <2>4
<1>9. L \in T
  <2> HIDE DEF T
  <2> QED
    BY <1>5, <1>7, <1>8, Inductive
<1>10. CASE L = 0
  <2>1. FlattenSeq(seqs) = seqs /\ seqs = << >>
    BY <1>6, <1>10 DEF L
  <2> QED
    BY <1>1, <1>10, <2>1 DEF B, L
<1>11. CASE L # 0
  <2>1. Part(L)
    BY <1>5, <1>9, <1>11
  <2> QED
    BY <1>6, <1>11, <2>1 DEF B, L
<1> QED
  BY <1>10, <1>11

(* Every place of a concatenation is one of some vector. *)
LEMMA Located ==
  ASSUME NEW S, NEW seqs \in Seq(Seq(S)), NEW k \in 1..Before(seqs)[Len(seqs) + 1]
  PROVE  \E i \in 1..Len(seqs) : \E j \in 1..Len(seqs[i]) : k = Before(seqs)[i] + j
<1> DEFINE B == Before(seqs)
           T == {i \in 1..Len(seqs) : k <= B[i + 1]}
<1>1. /\ B \in [1..(Len(seqs) + 1) -> Nat]
      /\ B[1] = 0
      /\ \A i \in 1..Len(seqs) : B[i + 1] = B[i] + Len(seqs[i])
  BY BeforeSums
<1>2. k \in Nat /\ 1 <= k /\ k <= B[Len(seqs) + 1]
  <2>1. B[Len(seqs) + 1] \in Nat
    BY <1>1
  <2> QED
    BY <2>1
<1> HIDE DEF B
<1>3. Len(seqs) \in T
  <2>1. Len(seqs) # 0
    <3> SUFFICES ASSUME Len(seqs) = 0 PROVE FALSE
      OBVIOUS
    <3>1. Len(seqs) + 1 = 1
      OBVIOUS
    <3> QED
      BY <1>1, <1>2, <3>1
  <2>2. Len(seqs) \in 1..Len(seqs)
    BY <2>1
  <2> QED
    BY <1>2, <2>2
<1>4. PICK i \in T : \A n \in T : i <= n
  <2>1. T \subseteq Nat /\ T # {}
    BY <1>3
  <2> HIDE DEF T
  <2> QED
    BY <2>1, LeastNat
<1>5. i \in 1..Len(seqs) /\ k <= B[i + 1] /\ B[i] \in Nat
  <2>1. i \in 1..Len(seqs) /\ k <= B[i + 1]
    BY <1>4
  <2>2. i \in 1..(Len(seqs) + 1)
    BY <2>1
  <2>3. B[i] \in Nat
    BY <1>1, <2>2
  <2> QED
    BY <2>1, <2>3
<1>6. B[i] < k
  <2>1. CASE i = 1
    BY <1>1, <1>2, <2>1
  <2>2. CASE i # 1
    <3>1. i - 1 \in 1..Len(seqs) /\ (i - 1) + 1 = i /\ ~(i <= i - 1)
      BY <1>5, <2>2
    <3>2. i - 1 \notin T
      BY <1>4, <3>1
    <3> QED
      BY <1>2, <1>5, <3>1, <3>2
  <2> QED
    BY <2>1, <2>2
<1>7. B[i + 1] = B[i] + Len(seqs[i]) /\ Len(seqs[i]) \in Nat
  BY <1>1, <1>5
<1>8. k - B[i] \in 1..Len(seqs[i]) /\ k = B[i] + (k - B[i])
  BY <1>2, <1>5, <1>6, <1>7
<1> QED
  BY <1>5, <1>8 DEF B

(* A concatenation has the entries of its vectors. *)
LEMMA FlattenedRange ==
  ASSUME NEW S, NEW seqs \in Seq(Seq(S))
  PROVE  Range(FlattenSeq(seqs)) = UNION {Range(seqs[i]) : i \in 1..Len(seqs)}
<1> DEFINE F == FlattenSeq(seqs)
           B == Before(seqs)
<1>1. /\ F \in Seq(S) /\ Len(F) = B[Len(seqs) + 1]
      /\ \A i \in 1..Len(seqs) : \A j \in 1..Len(seqs[i]) : F[B[i] + j] = seqs[i][j]
  BY Flattened
<1>2. \A k \in 1..Len(F) : \E i \in 1..Len(seqs) : \E j \in 1..Len(seqs[i]) : k = B[i] + j
  <2> SUFFICES ASSUME NEW k \in 1..B[Len(seqs) + 1]
               PROVE  \E i \in 1..Len(seqs) : \E j \in 1..Len(seqs[i]) : k = B[i] + j
    BY <1>1
  <2> QED
    BY Located, Zenon
<1>3. ASSUME NEW i \in 1..Len(seqs), NEW j \in 1..Len(seqs[i])
      PROVE  B[i] + j \in 1..Len(F)
  <2>1. /\ B[i] \in Nat /\ B[i + 1] \in Nat /\ B[i + 1] = B[i] + Len(seqs[i])
        /\ Len(seqs[i]) \in Nat
    <3>1. /\ B \in [1..(Len(seqs) + 1) -> Nat]
          /\ \A n \in 1..Len(seqs) : B[n + 1] = B[n] + Len(seqs[n])
      BY BeforeSums
    <3>2. Len(seqs[i]) \in Nat /\ i \in 1..(Len(seqs) + 1) /\ i + 1 \in 1..(Len(seqs) + 1)
      OBVIOUS
    <3> HIDE DEF B
    <3> QED
      BY <3>1, <3>2
  <2>2. B[i + 1] <= B[Len(seqs) + 1]
    <3>1. i + 1 \in 1..(Len(seqs) + 1) /\ Len(seqs) + 1 \in 1..(Len(seqs) + 1) /\ i + 1 <= Len(seqs) + 1
      OBVIOUS
    <3> QED
      BY <3>1, BeforeGrows
  <2>3. Len(F) \in Nat
    BY <1>1
  <2>4. j \in Nat /\ 1 <= j /\ j <= Len(seqs[i])
    BY <2>1
  <2> HIDE DEF B, F
  <2>5. B[Len(seqs) + 1] \in Nat
    BY <1>1, <2>3
  <2>6. B[i] + j <= B[Len(seqs) + 1]
    BY <2>1, <2>2, <2>4, <2>5
  <2> QED
    BY <1>1, <2>1, <2>4, <2>5, <2>6
<1> HIDE DEF B, F
<1>4. \A i \in 1..Len(seqs) : seqs[i] \in Seq(S) /\ DOMAIN seqs[i] = 1..Len(seqs[i])
  OBVIOUS
<1>5. DOMAIN F = 1..Len(F)
  BY <1>1
<1>6. ASSUME NEW x \in Range(F) PROVE \E i \in 1..Len(seqs) : x \in Range(seqs[i])
  <2>1. PICK k \in 1..Len(F) : x = F[k]
    BY <1>5 DEF Range
  <2>2. PICK i \in 1..Len(seqs) : \E j \in 1..Len(seqs[i]) : k = B[i] + j
    BY <1>2
  <2>4. PICK j \in 1..Len(seqs[i]) : k = B[i] + j
    BY <2>2
  <2>3. x = seqs[i][j]
    BY <1>1, <2>1, <2>4
  <2> QED
    BY <1>4, <2>3 DEF Range
<1>7. ASSUME NEW i \in 1..Len(seqs), NEW x \in Range(seqs[i]) PROVE x \in Range(F)
  <2>1. PICK j \in 1..Len(seqs[i]) : x = seqs[i][j]
    BY <1>4 DEF Range
  <2>2. x = F[B[i] + j] /\ B[i] + j \in DOMAIN F
    BY <1>1, <1>3, <1>5, <2>1
  <2> QED
    BY <2>2 DEF Range
<1> QED
  BY <1>6, <1>7 DEF F

(* Vectors without repetition that share nothing have a concatenation without. *)
LEMMA FlattenedInjective ==
  ASSUME NEW S, NEW seqs \in Seq(Seq(S)),
         \A i \in 1..Len(seqs) : IsInjective(seqs[i]),
         \A i, k \in 1..Len(seqs) : i # k => Range(seqs[i]) \cap Range(seqs[k]) = {}
  PROVE  IsInjective(FlattenSeq(seqs))
<1> DEFINE F == FlattenSeq(seqs)
           B == Before(seqs)
<1>1. /\ F \in Seq(S) /\ Len(F) = B[Len(seqs) + 1]
      /\ \A i \in 1..Len(seqs) : \A j \in 1..Len(seqs[i]) : F[B[i] + j] = seqs[i][j]
  BY Flattened
<1>2. \A k \in 1..Len(F) : \E i \in 1..Len(seqs) : \E j \in 1..Len(seqs[i]) : k = B[i] + j
  <2> SUFFICES ASSUME NEW k \in 1..B[Len(seqs) + 1]
               PROVE  \E i \in 1..Len(seqs) : \E j \in 1..Len(seqs[i]) : k = B[i] + j
    BY <1>1
  <2> QED
    BY Located, Zenon
<1> HIDE DEF F, B
<1>3. \A i \in 1..Len(seqs) : DOMAIN seqs[i] = 1..Len(seqs[i])
  OBVIOUS
<1>4. DOMAIN F = 1..Len(F)
  BY <1>1
<1>5. ASSUME NEW a \in 1..Len(F), NEW b \in 1..Len(F), F[a] = F[b] PROVE a = b
  <2>11. PICK i \in 1..Len(seqs) : \E j \in 1..Len(seqs[i]) : a = B[i] + j
    BY <1>2
  <2>1. PICK j \in 1..Len(seqs[i]) : a = B[i] + j
    BY <2>11
  <2>12. PICK k \in 1..Len(seqs) : \E l \in 1..Len(seqs[k]) : b = B[k] + l
    BY <1>2
  <2>2. PICK l \in 1..Len(seqs[k]) : b = B[k] + l
    BY <2>12
  <2>3. seqs[i][j] = seqs[k][l]
    BY <1>1, <1>5, <2>1, <2>2
  <2>4. seqs[i][j] \in Range(seqs[i]) /\ seqs[k][l] \in Range(seqs[k])
    BY <1>3 DEF Range
  <2>5. i = k
    BY <2>3, <2>4
  <2>6. j = l
    BY <1>3, <2>3, <2>5 DEF IsInjective
  <2> QED
    BY <2>1, <2>2, <2>5, <2>6
<1> QED
  BY <1>4, <1>5 DEF IsInjective, F

-----------------------------------------------------------------------------
(* Walks against the pips of a type. *)

TypeOk(type) ==
  /\ type.wires \in Nat
  /\ \A pip \in type.pips : {pip.wire0, pip.wire1} \subseteq 0..(type.wires - 1)

(* What the walk's last wire can be reached from, and no wire before it. *)
Fresh(type, w) ==
  {x \in Feeders(type, w[Len(w)]) : \A i \in 1..(Len(w) - 1) : x \notin Feeders(type, w[i])}
Reach(type, w) == UNION {Feeders(type, w[i]) : i \in 1..Len(w)}

Ends(type, w) == w[Len(w)] \in inbound_only_wires(type)

(* The direct walks of n wires that end, or that a wire goes on. *)
Live(type, start, n) ==
  {w \in Seq(Nat) : /\ Len(w) = n /\ w[1] = start /\ Direct(type, w)
                    /\ Ends(type, w) \/ Fresh(type, w) # {}}

(* What feeds a wire drives a pip. *)
LEMMA FeedersEnter ==
  ASSUME NEW type, NEW w
  PROVE  /\ Feeders(type, w) \subseteq inbound_wires(type)
         /\ Feeders(type, w) # {} <=> w \in outbound_wires(type)
BY DEF Feeders, inbound_wires, outbound_wires

(* The wires at pips are wires of the tile type. *)
LEMMA WiresAreSmall ==
  ASSUME NEW type, TypeOk(type)
  PROVE  /\ inbound_wires(type) \subseteq Wires(type) /\ outbound_wires(type) \subseteq Wires(type)
         /\ Wires(type) \subseteq Nat
<1>1. \A a \in Arcs(type) : a[1] \in Wires(type) /\ a[2] \in Wires(type)
  BY DEF TypeOk, Arcs, Wires
<1>2. Wires(type) \subseteq Nat
  BY DEF TypeOk, Wires
<1> QED
  BY <1>1, <1>2 DEF inbound_wires, outbound_wires

(* The entries of a walk with one wire more. *)
LEMMA Appended ==
  ASSUME NEW S, NEW w \in Seq(S), NEW x \in S
  PROVE  /\ Append(w, x) \in Seq(S) /\ Len(Append(w, x)) = Len(w) + 1
         /\ Append(w, x)[Len(w) + 1] = x
         /\ \A i \in 1..Len(w) : Append(w, x)[i] = w[i]
OBVIOUS

(* A walk without its last wire. *)
LEMMA Unappended ==
  ASSUME NEW S, NEW v \in Seq(S), NEW n \in Nat, Len(v) = n + 1
  PROVE  /\ SubSeq(v, 1, n) \in Seq(S) /\ Len(SubSeq(v, 1, n)) = n
         /\ \A i \in 1..n : SubSeq(v, 1, n)[i] = v[i]
         /\ v[n + 1] \in S /\ v = Append(SubSeq(v, 1, n), v[n + 1])
<1>1. SubSeq(v, 1, n) \in Seq(S) /\ Len(SubSeq(v, 1, n)) = n
  OBVIOUS
<1>2. \A i \in 1..n : SubSeq(v, 1, n)[i] = v[i]
  OBVIOUS
<1>3. v[n + 1] \in S
  OBVIOUS
<1> DEFINE u == SubSeq(v, 1, n)
           a == Append(u, v[n + 1])
<1> HIDE DEF u
<1>4. a \in Seq(S) /\ Len(a) = n + 1 /\ \A i \in 1..(n + 1) : a[i] = v[i]
  BY <1>1, <1>2, <1>3 DEF u
<1> HIDE DEF a
<1>5. v = a
  BY <1>4
<1> QED
  BY <1>1, <1>2, <1>3, <1>5 DEF a, u

(* A direct walk goes on, directly, to what is fresh. *)
LEMMA DirectAppend ==
  ASSUME NEW type, NEW w \in Seq(Nat), Len(w) >= 1, NEW x \in Nat
  PROVE  Direct(type, Append(w, x)) <=> Direct(type, w) /\ x \in Fresh(type, w)
<1> DEFINE v == Append(w, x)
           n == Len(w)
<1>1. n \in Nat /\ n >= 1 /\ v \in Seq(Nat) /\ Len(v) = n + 1 /\ v[n + 1] = x
      /\ \A i \in 1..n : v[i] = w[i]
  OBVIOUS
<1>2. DOMAIN v = 1..(n + 1) /\ DOMAIN w = 1..n
  OBVIOUS
<1> HIDE DEF v, n
<1>3. ASSUME Direct(type, v) PROVE Direct(type, w) /\ x \in Fresh(type, w)
  <2>1. Direct(type, w)
    <3>1. \A i, j \in 1..(n + 1) : i < j => (v[j] \in Feeders(type, v[i]) <=> j = i + 1)
      BY <1>2, <1>3, Zenon DEF Direct
    <3>2. \A i, j \in 1..n : i < j => (w[j] \in Feeders(type, w[i]) <=> j = i + 1)
      BY <1>1, <3>1
    <3> QED
      BY <1>2, <3>2, Zenon DEF Direct
  <2>2. x \in Feeders(type, w[n])
    <3>1. n \in 1..(n + 1) /\ n + 1 \in 1..(n + 1) /\ n < n + 1 /\ n \in 1..n
      BY <1>1
    <3>2. v[n + 1] \in Feeders(type, v[n])
      BY <1>2, <1>3, <3>1, Zenon DEF Direct
    <3> QED
      BY <1>1, <3>1, <3>2
  <2>3. ASSUME NEW i \in 1..(n - 1) PROVE x \notin Feeders(type, w[i])
    <3>1. i \in 1..(n + 1) /\ n + 1 \in 1..(n + 1) /\ i < n + 1 /\ i \in 1..n /\ n + 1 # i + 1
      BY <1>1
    <3>2. v[n + 1] \notin Feeders(type, v[i])
      BY <1>2, <1>3, <3>1, Zenon DEF Direct
    <3> QED
      BY <1>1, <3>1, <3>2
  <2> QED
    BY <2>1, <2>2, <2>3 DEF Fresh, n
<1>4. ASSUME Direct(type, w), x \in Fresh(type, w) PROVE Direct(type, v)
  <2>1. x \in Feeders(type, w[n]) /\ \A i \in 1..(n - 1) : x \notin Feeders(type, w[i])
    BY <1>4 DEF Fresh, n
  <2>2. ASSUME NEW i \in 1..(n + 1), NEW j \in 1..(n + 1), i < j
        PROVE  v[j] \in Feeders(type, v[i]) <=> j = i + 1
    <3>1. CASE j = n + 1
      <4>1. i \in 1..n /\ v[i] = w[i] /\ v[j] = x
        BY <1>1, <2>2, <3>1
      <4>2. i = n \/ i \in 1..(n - 1)
        BY <1>1, <4>1
      <4> QED
        BY <1>1, <2>1, <3>1, <4>1, <4>2
    <3>2. CASE j # n + 1
      <4>1. i \in 1..n /\ j \in 1..n /\ v[i] = w[i] /\ v[j] = w[j]
        BY <1>1, <2>2, <3>2
      <4> QED
        BY <1>2, <1>4, <2>2, <4>1, Zenon DEF Direct
    <3> QED
      BY <3>1, <3>2
  <2> QED
    BY <1>2, <2>2 DEF Direct
<1> QED
  BY <1>3, <1>4 DEF v

(* From a wire that pips only drive, the wires of a direct walk are distinct and
   those between its ends are of both directions. *)
LEMMA DirectWalk ==
  ASSUME NEW type, NEW w \in Seq(Nat), Direct(type, w), w[1] \in outbound_only_wires(type)
  PROVE  /\ IsInjective(w)
         /\ \A i \in 2..Len(w) : w[i] \in Feeders(type, w[i - 1]) /\ w[i] \in inbound_wires(type)
         /\ \A i \in 2..(Len(w) - 1) : w[i] \in bidirectional_wires(type)
<1>1. DOMAIN w = 1..Len(w) /\ Len(w) \in Nat
  OBVIOUS
<1>2. \A i, j \in 1..Len(w) : i < j => (w[j] \in Feeders(type, w[i]) <=> j = i + 1)
  BY <1>1, Zenon DEF Direct
<1>3. ASSUME NEW i \in 2..Len(w) PROVE w[i] \in Feeders(type, w[i - 1])
  <2>1. i - 1 \in 1..Len(w) /\ i \in 1..Len(w) /\ i - 1 < i /\ i = (i - 1) + 1
    BY <1>1
  <2> QED
    BY <1>2, <2>1
<1>4. ASSUME NEW i \in 2..Len(w) PROVE w[i] \in inbound_wires(type)
  BY <1>3, FeedersEnter
<1>5. ASSUME NEW i \in 1..Len(w), NEW j \in 1..Len(w), i < j PROVE w[i] # w[j]
  <2>1. CASE i = 1
    <3>1. j \in 2..Len(w)
      BY <1>5, <2>1
    <3> QED
      BY <1>4, <2>1, <3>1 DEF outbound_only_wires
  <2>2. CASE i # 1
    <3>1. i \in 2..Len(w) /\ i - 1 \in 1..Len(w) /\ i - 1 < j /\ j # (i - 1) + 1
      BY <1>5, <2>2
    <3>2. w[i] \in Feeders(type, w[i - 1])
      BY <1>3, <3>1
    <3>3. w[j] \notin Feeders(type, w[i - 1])
      BY <1>2, <3>1
    <3> QED
      BY <3>2, <3>3
  <2> QED
    BY <2>1, <2>2
<1>6. IsInjective(w)
  <2> SUFFICES ASSUME NEW a \in 1..Len(w), NEW b \in 1..Len(w), w[a] = w[b] PROVE a = b
    BY <1>1 DEF IsInjective
  <2>1. a < b \/ b < a \/ a = b
    OBVIOUS
  <2> QED
    BY <1>5, <2>1
<1>7. ASSUME NEW i \in 2..(Len(w) - 1) PROVE w[i] \in bidirectional_wires(type)
  <2>1. i \in 2..Len(w) /\ i + 1 \in 2..Len(w) /\ (i + 1) - 1 = i
    BY <1>1
  <2>2. w[i] \in inbound_wires(type) /\ w[i + 1] \in Feeders(type, w[i])
    <3>1. w[i + 1] \in Feeders(type, w[(i + 1) - 1])
      BY <1>3, <2>1
    <3> QED
      BY <1>4, <2>1, <3>1
  <2> QED
    BY <2>2, FeedersEnter DEF bidirectional_wires
<1> QED
  BY <1>3, <1>4, <1>6, <1>7

(* The wires that a walk goes on to. *)
Ways(type, w) ==
  {x \in Fresh(type, w) : x \in inbound_only_wires(type) \/ Fresh(type, Append(w, x)) # {}}

(* What a walk meets first at one of its wires is a set of wires. *)
LEMMA FreshIsSmall ==
  ASSUME NEW type, TypeOk(type), NEW w \in Seq(Nat), Len(w) >= 1
  PROVE  /\ Fresh(type, w) \subseteq inbound_wires(type) /\ Fresh(type, w) \subseteq Nat
         /\ Ends(type, w) => Fresh(type, w) = {}
<1>1. Fresh(type, w) \subseteq Feeders(type, w[Len(w)])
  BY DEF Fresh
<1>2. Fresh(type, w) \subseteq inbound_wires(type)
  BY <1>1, FeedersEnter
<1>3. Ends(type, w) => Feeders(type, w[Len(w)]) = {}
  BY FeedersEnter DEF Ends, inbound_only_wires
<1> QED
  BY <1>1, <1>2, <1>3, WiresAreSmall

(* The live walks of one wire more are those that the ways of the live walks make. *)
LEMMA LiveGrows ==
  ASSUME NEW type, TypeOk(type), NEW start, NEW n \in Nat, n >= 1
  PROVE  /\ \A v \in Live(type, start, n + 1) : \E w \in Live(type, start, n) :
              ~Ends(type, w) /\ \E x \in Ways(type, w) : v = Append(w, x)
         /\ \A w \in Live(type, start, n) : ~Ends(type, w) =>
              \A x \in Ways(type, w) : Append(w, x) \in Live(type, start, n + 1)
<1>1. ASSUME NEW v \in Live(type, start, n + 1)
      PROVE  \E w \in Live(type, start, n) : ~Ends(type, w) /\ \E x \in Ways(type, w) : v = Append(w, x)
  <2>1. /\ v \in Seq(Nat) /\ Len(v) = n + 1 /\ v[1] = start /\ Direct(type, v)
        /\ Ends(type, v) \/ Fresh(type, v) # {}
    BY DEF Live
  <2> DEFINE w == SubSeq(v, 1, n)
             x == v[n + 1]
  <2>2. /\ w \in Seq(Nat) /\ Len(w) = n /\ \A i \in 1..n : w[i] = v[i]
        /\ x \in Nat /\ v = Append(w, x)
    BY <2>1, Unappended
  <2> HIDE DEF w, x
  <2>3. Direct(type, w) /\ x \in Fresh(type, w)
    BY <2>1, <2>2, DirectAppend
  <2>4. w[1] = start
    <3>1. 1 \in 1..n
      OBVIOUS
    <3> QED
      BY <2>1, <2>2, <3>1
  <2>5. w \in Live(type, start, n)
    BY <2>2, <2>3, <2>4 DEF Live
  <2>6. ~Ends(type, w)
    BY <2>2, <2>3, FreshIsSmall
  <2>7. v[Len(v)] = x
    BY <2>1 DEF x
  <2>8. x \in Ways(type, w)
    BY <2>1, <2>2, <2>3, <2>7 DEF Ways, Ends
  <2> QED
    BY <2>2, <2>5, <2>6, <2>8
<1>2. ASSUME NEW w \in Live(type, start, n), ~Ends(type, w), NEW x \in Ways(type, w)
      PROVE  Append(w, x) \in Live(type, start, n + 1)
  <2>1. w \in Seq(Nat) /\ Len(w) = n /\ w[1] = start /\ Direct(type, w)
    BY DEF Live
  <2>2. x \in Fresh(type, w) /\ x \in Nat
    BY <2>1, FreshIsSmall DEF Ways
  <2>3. Append(w, x) \in Seq(Nat) /\ Len(Append(w, x)) = n + 1 /\ Append(w, x)[n + 1] = x
        /\ Append(w, x)[1] = start
    BY <2>1, <2>2, Appended
  <2>4. Direct(type, Append(w, x))
    BY <2>1, <2>2, DirectAppend
  <2>5. Ends(type, Append(w, x)) \/ Fresh(type, Append(w, x)) # {}
    <3>1. x \in inbound_only_wires(type) \/ Fresh(type, Append(w, x)) # {}
      BY DEF Ways
    <3>2. x \in inbound_only_wires(type) => Ends(type, Append(w, x))
      BY <2>3 DEF Ends
    <3> QED
      BY <3>1, <3>2
  <2> QED
    BY <2>3, <2>4, <2>5 DEF Live
<1> QED
  BY <1>1, <1>2

(* The live walk of one wire is that of the start. *)
LEMMA LiveStarts ==
  ASSUME NEW type, TypeOk(type), NEW start \in outbound_only_wires(type)
  PROVE  Live(type, start, 1) = {<<start>>} /\ Fresh(type, <<start>>) = Feeders(type, start)
         /\ Feeders(type, start) # {} /\ start \in Nat /\ start \notin inbound_wires(type)
<1>1. start \in Nat /\ start \in outbound_wires(type) /\ start \notin inbound_wires(type)
  BY WiresAreSmall DEF outbound_only_wires
<1>2. Feeders(type, start) # {}
  BY <1>1, FeedersEnter
<1>3. Fresh(type, <<start>>) = Feeders(type, start)
  BY DEF Fresh
<1>4. <<start>> \in Live(type, start, 1)
  BY <1>1, <1>2, <1>3 DEF Live, Direct
<1>5. ASSUME NEW w \in Live(type, start, 1) PROVE w = <<start>>
  BY DEF Live
<1> QED
  BY <1>1, <1>2, <1>3, <1>4, <1>5

(* Once no walk is left there never is one again. *)
LEMMA LiveEnds ==
  ASSUME NEW type, TypeOk(type), NEW start, NEW n \in Nat, n >= 1, Live(type, start, n) = {}
  PROVE  \A m \in Nat : m >= n => Live(type, start, m) = {}
<1> DEFINE T == {k \in Nat : Live(type, start, n + k) = {}}
<1>1. 0 \in T
  OBVIOUS
<1>2. ASSUME NEW k \in Nat, k \in T PROVE k + 1 \in T
  <2>1. n + (k + 1) = (n + k) + 1 /\ n + k \in Nat /\ n + k >= 1
    OBVIOUS
  <2>2. Live(type, start, n + k) = {}
    BY <1>2
  <2>3. \A v \in Live(type, start, (n + k) + 1) : \E w \in Live(type, start, n + k) : TRUE
    <3> HIDE DEF T
    <3> QED
      BY <2>1, LiveGrows
  <2>4. Live(type, start, (n + k) + 1) = {}
    BY <2>2, <2>3
  <2> QED
    BY <2>1, <2>4
<1>3. \A k \in Nat : k \in T
  <2> HIDE DEF T
  <2> QED
    BY <1>1, <1>2, Inductive
<1> SUFFICES ASSUME NEW m \in Nat, m >= n PROVE Live(type, start, m) = {}
  OBVIOUS
<1>4. m - n \in Nat /\ n + (m - n) = m
  OBVIOUS
<1> QED
  BY <1>3, <1>4

(* Walks that end or go on visit distinct wires. *)
LEMMA LiveWalk ==
  ASSUME NEW type, TypeOk(type), NEW start \in outbound_only_wires(type), NEW n \in Nat, n >= 1,
         NEW w \in Live(type, start, n)
  PROVE  /\ w \in Seq(Nat) /\ Len(w) = n /\ w[1] = start /\ Direct(type, w)
         /\ IsInjective(w) /\ w[n] \in Nat
         /\ \A i \in 2..n : w[i] \in Feeders(type, w[i - 1]) /\ w[i] \in inbound_wires(type)
         /\ \A i \in 2..(n - 1) : w[i] \in bidirectional_wires(type)
         /\ ~Ends(type, w) => Fresh(type, w) # {}
<1>1. w \in Seq(Nat) /\ Len(w) = n /\ w[1] = start /\ Direct(type, w)
      /\ (~Ends(type, w) => Fresh(type, w) # {})
  BY DEF Live
<1>2. w[n] \in Nat
  BY <1>1
<1> QED
  BY <1>1, <1>2, DirectWalk

(* A sequence without repetition is no longer than its set is large. *)
LEMMA InjectiveCardinality ==
  ASSUME NEW S, NEW w \in Seq(S), IsInjective(w)
  PROVE  IsFiniteSet(Range(w)) /\ Cardinality(Range(w)) = Len(w)
<1>1. Len(w) \in Nat /\ DOMAIN w = 1..Len(w)
  OBVIOUS
<1>2. w \in Bijection(1..Len(w), Range(w))
  BY <1>1 DEF Bijection, Injection, Surjection, IsInjective, Range
<1>3. ExistsBijection(1..Len(w), Range(w))
  BY <1>2 DEF ExistsBijection
<1>4. IsFiniteSet(1..Len(w)) /\ Cardinality(1..Len(w)) = Len(w)
  BY <1>1, FS_Interval
<1> QED
  BY <1>3, <1>4, FS_Bijection

(* A tile type has finitely many wires of both directions. *)
LEMMA BidirectionalFinite ==
  ASSUME NEW type, TypeOk(type)
  PROVE  IsFiniteSet(bidirectional_wires(type)) /\ Cardinality(bidirectional_wires(type)) \in Nat
<1>1. bidirectional_wires(type) \subseteq 0..(type.wires - 1)
  BY WiresAreSmall DEF bidirectional_wires, Wires
<1>2. IsFiniteSet(0..(type.wires - 1))
  <2>1. type.wires - 1 \in Int
    BY DEF TypeOk
  <2> QED
    BY <2>1, FS_Interval
<1> QED
  BY <1>1, <1>2, FS_Subset, FS_CardinalityType

(* A walk has no more inner wires than the type has wires of both directions. *)
LEMMA LiveLength ==
  ASSUME NEW type, TypeOk(type), NEW start \in outbound_only_wires(type), NEW n \in Nat, n >= 2,
         NEW w \in Seq(Nat), Len(w) = n, IsInjective(w),
         \A i \in 2..(n - 1) : w[i] \in bidirectional_wires(type)
  PROVE  n - 2 <= Cardinality(bidirectional_wires(type))
<1> DEFINE u == [i \in 1..(n - 2) |-> w[i + 1]]
<1>1. u \in Seq(Nat) /\ Len(u) = n - 2 /\ DOMAIN u = 1..(n - 2)
  OBVIOUS
<1>2. \A i \in 1..(n - 2) : u[i] = w[i + 1] /\ i + 1 \in 2..(n - 1) /\ i + 1 \in DOMAIN w
  OBVIOUS
<1> HIDE DEF u
<1>3. IsInjective(u)
  <2> SUFFICES ASSUME NEW a \in 1..(n - 2), NEW b \in 1..(n - 2), u[a] = u[b] PROVE a = b
    BY <1>1 DEF IsInjective
  <2>1. w[a + 1] = w[b + 1] /\ a + 1 \in DOMAIN w /\ b + 1 \in DOMAIN w
    BY <1>2
  <2>2. a + 1 = b + 1
    BY <2>1 DEF IsInjective
  <2> QED
    BY <2>2
<1>4. Range(u) \subseteq bidirectional_wires(type)
  BY <1>1, <1>2 DEF Range
<1> QED
  BY <1>1, <1>3, <1>4, InjectiveCardinality, BidirectionalFinite, FS_Subset

(* The heads of a search: a node's parent comes before it. *)
NodeSet == [parent : Nat, wire_id : Nat]
Nodes(nodes) ==
  /\ nodes \in Seq(NodeSet) /\ Len(nodes) >= 1 /\ nodes[1].parent = 0
  /\ \A p \in 2..Len(nodes) : nodes[p].parent \in 1..(p - 1)

(* The walk from the root to each node. *)
Trails(nodes, t) ==
  /\ t \in [1..Len(nodes) -> Seq(Nat)] /\ t[1] = <<nodes[1].wire_id>>
  /\ \A p \in 2..Len(nodes) : t[p] = Append(t[nodes[p].parent], nodes[p].wire_id)

(* The trail of a node ends at its wire. *)
LEMMA TrailLast ==
  ASSUME NEW nodes, Nodes(nodes), NEW t, Trails(nodes, t), NEW p \in 1..Len(nodes)
  PROVE  /\ t[p] \in Seq(Nat) /\ Len(t[p]) >= 1 /\ t[p][Len(t[p])] = nodes[p].wire_id
         /\ nodes[p].wire_id \in Nat
<1>1. nodes[p].wire_id \in Nat
  <2>1. nodes[p] \in NodeSet
    BY DEF Nodes
  <2> QED
    BY <2>1 DEF NodeSet
<1>2. CASE p = 1
  <2> DEFINE x == nodes[p].wire_id
  <2>1. t[p] = <<x>>
    BY <1>2 DEF Trails
  <2>2. x \in Nat
    BY <1>1
  <2> HIDE DEF x
  <2>3. <<x>> \in Seq(Nat) /\ Len(<<x>>) = 1 /\ <<x>>[1] = x
    BY <2>2
  <2>4. t[p] \in Seq(Nat) /\ Len(t[p]) = 1 /\ t[p][1] = x
    BY <2>1, <2>3
  <2> QED
    BY <2>2, <2>4 DEF x
<1>3. CASE p # 1
  <2>1. p \in 2..Len(nodes) /\ nodes[p].parent \in 1..Len(nodes)
    BY <1>3 DEF Nodes
  <2>2. t[nodes[p].parent] \in Seq(Nat)
    BY <2>1 DEF Trails
  <2>3. t[p] = Append(t[nodes[p].parent], nodes[p].wire_id)
    BY <2>1 DEF Trails
  <2> QED
    BY <1>1, <2>2, <2>3, Appended
<1> QED
  BY <1>2, <1>3

Climb(nodes) ==
  CHOOSE up : up = [p \in 0..Len(nodes) |->
                      IF p = 0 THEN <<>> ELSE <<p>> \o up[nodes[p].parent]]

(* The chain of parents is what its recursion describes. *)
LEMMA ClimbRecursion ==
  ASSUME NEW nodes, Nodes(nodes)
  PROVE  Climb(nodes) = [p \in 0..Len(nodes) |->
                           IF p = 0 THEN <<>> ELSE <<p>> \o Climb(nodes)[nodes[p].parent]]
<1> DEFINE D(f, i) == IF i = 0 THEN <<>> ELSE <<i>> \o f[nodes[i].parent]
           Is(f, n) == f = [i \in 0..n |-> D(f, i)]
           T == {n \in Nat : n <= Len(nodes) => \E f : Is(f, n)}
<1>0. Len(nodes) \in Nat
  BY DEF Nodes
<1>p. \A i \in 1..Len(nodes) : nodes[i].parent \in 0..(i - 1)
  BY DEF Nodes
<1>1. 0 \in T
  <2> DEFINE g == [i \in 0..0 |-> <<>>]
  <2>1. Is(g, 0)
    OBVIOUS
  <2> HIDE DEF Is, g
  <2> QED
    BY <2>1
<1>2. ASSUME NEW n \in Nat, n \in T PROVE n + 1 \in T
  <2> SUFFICES ASSUME n + 1 <= Len(nodes) PROVE \E f : Is(f, n + 1)
    OBVIOUS
  <2>0. n <= Len(nodes)
    BY <1>0
  <2>1. PICK f : Is(f, n)
    <3> HIDE DEF Is
    <3> QED
      BY <1>2, <2>0
  <2> DEFINE g == [i \in 0..(n + 1) |-> IF i = n + 1 THEN D(f, i) ELSE f[i]]
  <2>2. ASSUME NEW i \in 0..(n + 1) PROVE g[i] = D(g, i)
    <3>1. i # 0 => g[nodes[i].parent] = f[nodes[i].parent]
      <4> SUFFICES ASSUME i # 0 PROVE g[nodes[i].parent] = f[nodes[i].parent]
        OBVIOUS
      <4> DEFINE q == nodes[i].parent
      <4>1. q \in 0..(i - 1)
        BY <1>0, <1>p
      <4> HIDE DEF q
      <4>2. q \in 0..(n + 1) /\ q # n + 1
        BY <4>1
      <4>3. g[q] = f[q]
        BY <4>2
      <4> QED
        BY <4>3 DEF q
    <3>2. D(g, i) = D(f, i)
      BY <3>1
    <3>3. i # n + 1 => f[i] = D(f, i)
      <4> HIDE DEF D
      <4> QED
        BY <2>1
    <3> HIDE DEF D
    <3> QED
      BY <3>2, <3>3
  <2>3. Is(g, n + 1)
    <3> HIDE DEF D
    <3>1. g = [i \in 0..(n + 1) |-> g[i]]
      OBVIOUS
    <3> HIDE DEF g
    <3> QED
      BY <2>2, <3>1
  <2> HIDE DEF Is, g
  <2> QED
    BY <2>3
<1> HIDE DEF T
<1>3. Len(nodes) \in T
  BY <1>0, <1>1, <1>2, Inductive
<1>4. PICK f : Is(f, Len(nodes))
  BY <1>0, <1>3 DEF T
<1> QED
  BY <1>4, Zenon DEF Climb

(* The chain of a node is as long as its walk, whose wires it visits. *)
LEMMA ChainIsTrail ==
  ASSUME Nodes(wpns), NEW t, Trails(wpns, t), NEW pt \in 1..Len(wpns)
  PROVE  Len(Chain(pt)) = Len(t[pt]) /\ touched_wires(pt) = Range(t[pt])
<1> DEFINE up == Climb(wpns)
           Right(p) == /\ up[p] \in Seq(Nat) /\ Len(up[p]) = Len(t[p])
                       /\ {wpns[q].wire_id : q \in Range(up[p])} = Range(t[p])
           T == {n \in Nat : \A p \in 1..Len(wpns) : p <= n => Right(p)}
<1>0. Len(wpns) \in Nat
  BY DEF Nodes
<1>1. \A p \in 0..Len(wpns) : up[p] = IF p = 0 THEN <<>> ELSE <<p>> \o up[wpns[p].parent]
  <2>1. up = [p \in 0..Len(wpns) |-> IF p = 0 THEN <<>> ELSE <<p>> \o up[wpns[p].parent]]
    BY ClimbRecursion, Zenon
  <2> HIDE DEF up
  <2> QED
    BY <2>1
<1>2. Chain(pt) = up[pt]
  BY DEF Chain, Climb
<1> HIDE DEF up
<1>3. 0 \in T
  BY <1>0
<1>4. ASSUME NEW n \in Nat, n \in T PROVE n + 1 \in T
  <2> SUFFICES ASSUME NEW p \in 1..Len(wpns), p = n + 1 PROVE Right(p)
    <3>1. \A p \in 1..Len(wpns) : p <= n + 1 => p <= n \/ p = n + 1
      BY <1>0
    <3> HIDE DEF Right
    <3> QED
      BY <1>4, <3>1
  <2>1. up[p] = <<p>> \o up[wpns[p].parent]
    <3>1. p \in 0..Len(wpns) /\ p # 0
      BY <1>0
    <3> QED
      BY <1>1, <3>1
  <2>2. CASE p = 1
    <3>1. wpns[p].parent = 0 /\ up[0] = <<>>
      <4>1. 0 \in 0..Len(wpns)
        BY <1>0
      <4> QED
        BY <1>1, <2>2, <4>1 DEF Nodes
    <3>2. up[p] = <<1>> /\ t[p] = <<wpns[1].wire_id>>
      <4>1. up[p] = <<1>> \o <<>>
        BY <2>1, <2>2, <3>1
      <4>2. <<1>> \o <<>> = <<1>>
        OBVIOUS
      <4>3. t[1] = <<wpns[1].wire_id>>
        BY DEF Trails
      <4> QED
        BY <2>2, <4>1, <4>2, <4>3
    <3>3. Range(up[p]) = {1} /\ Range(t[p]) = {wpns[1].wire_id}
      BY <3>2 DEF Range
    <3> QED
      BY <3>2, <3>3
  <2>3. CASE p # 1
    <3> DEFINE q == wpns[p].parent
               x == wpns[p].wire_id
    <3>1. q \in 1..Len(wpns) /\ q <= n /\ p \in 2..Len(wpns)
      BY <1>0, <2>3 DEF Nodes
    <3>2. Right(q)
      BY <1>4, <3>1
    <3>3. t[p] = Append(t[q], x) /\ t[q] \in Seq(Nat) /\ x \in Nat
      BY <3>1, TrailLast DEF Trails
    <3>4. up[p] = <<p>> \o up[q]
      BY <2>1
    <3> HIDE DEF q
    <3>5. up[p] \in Seq(Nat) /\ Len(up[p]) = Len(t[p]) /\ Range(up[p]) = {p} \cup Range(up[q])
      <4> DEFINE u == up[q]
      <4>1. u \in Seq(Nat) /\ p \in Nat /\ Len(u) = Len(t[q])
        BY <3>2
      <4> HIDE DEF u
      <4>2. /\ <<p>> \o u \in Seq(Nat) /\ Len(<<p>> \o u) = Len(u) + 1
            /\ (<<p>> \o u)[1] = p /\ \A i \in 1..Len(u) : (<<p>> \o u)[1 + i] = u[i]
        BY <4>1
      <4>3. \A i \in 1..(Len(u) + 1) : i = 1 \/ (i - 1 \in 1..Len(u) /\ i = 1 + (i - 1))
        BY <4>1
      <4>4. DOMAIN u = 1..Len(u) /\ DOMAIN (<<p>> \o u) = 1..(Len(u) + 1)
            /\ \A i \in 1..Len(u) : 1 + i \in 1..(Len(u) + 1)
            /\ 1 \in 1..(Len(u) + 1)
        BY <4>1
      <4>5. Range(<<p>> \o u) \subseteq {p} \cup Range(u)
        BY <4>2, <4>3, <4>4 DEF Range
      <4>6. {p} \cup Range(u) \subseteq Range(<<p>> \o u)
        <5>1. p \in Range(<<p>> \o u)
          <6>1. 1 \in DOMAIN (<<p>> \o u) /\ (<<p>> \o u)[1] = p
            BY <4>2, <4>4
          <6> QED
            BY <6>1, Zenon DEF Range
        <5>2. ASSUME NEW y \in Range(u) PROVE y \in Range(<<p>> \o u)
          <6>1. PICK i \in 1..Len(u) : y = u[i]
            BY <4>4 DEF Range
          <6>2. 1 + i \in DOMAIN (<<p>> \o u) /\ (<<p>> \o u)[1 + i] = y
            BY <4>2, <4>4, <6>1
          <6> QED
            BY <6>2, Zenon DEF Range
        <5> QED
          BY <5>1, <5>2
      <4> QED
        BY <3>3, <3>4, <4>1, <4>2, <4>5, <4>6, Appended DEF u
    <3>6. Range(t[p]) = Range(t[q]) \cup {x}
      <4> DEFINE u == t[q]
      <4>1. u \in Seq(Nat)
        BY <3>3
      <4> HIDE DEF u, x
      <4>2. /\ DOMAIN Append(u, x) = 1..(Len(u) + 1) /\ Append(u, x)[Len(u) + 1] = x
            /\ \A i \in 1..Len(u) : Append(u, x)[i] = u[i]
            /\ DOMAIN u = 1..Len(u) /\ Len(u) \in Nat
        BY <4>1, <3>3
      <4>3. \A i \in 1..(Len(u) + 1) : i \in 1..Len(u) \/ i = Len(u) + 1
        BY <4>2
      <4>4. \A i \in 1..Len(u) : i \in 1..(Len(u) + 1)
        BY <4>2
      <4>5. Range(Append(u, x)) \subseteq Range(u) \cup {x}
        BY <4>2, <4>3 DEF Range
      <4>7. Len(u) + 1 \in 1..(Len(u) + 1)
        BY <4>2
      <4>6. Range(u) \cup {x} \subseteq Range(Append(u, x))
        BY <4>2, <4>4, <4>7, Zenon DEF Range
      <4> QED
        BY <3>3, <4>5, <4>6 DEF u
    <3>7. {wpns[r].wire_id : r \in Range(up[q])} = Range(t[q])
      BY <3>2
    <3>8. {wpns[r].wire_id : r \in Range(up[p])} = Range(t[p])
      BY <3>5, <3>6, <3>7
    <3> QED
      BY <3>5, <3>8
  <2> QED
    BY <2>2, <2>3
<1>5. pt \in T
  <2>1. pt \in Nat
    BY <1>0
  <2> HIDE DEF T
  <2> QED
    BY <1>3, <1>4, <2>1, Inductive
<1>6. Right(pt)
  <2>1. pt <= pt
    BY <1>0
  <2> HIDE DEF Right
  <2> QED
    BY <1>5, <2>1
<1> QED
  BY <1>2, <1>6 DEF touched_wires

(* The head of the walk that goes on to a wire, and what it knows. *)
HeadSet == [parent : Nat, wire_id : Nat, all_reachable : SUBSET Nat, head_reachable : SUBSET Nat]
NewHead(type, w, parent, x) ==
  [parent |-> parent, wire_id |-> x,
   all_reachable |-> IF x \in inbound_only_wires(type) THEN {} ELSE Reach(type, Append(w, x)),
   head_reachable |-> IF x \in inbound_only_wires(type) THEN {} ELSE Fresh(type, Append(w, x))]
Sprouts(type, w, parent) ==
  IF Ends(type, w) THEN {} ELSE {NewHead(type, w, parent, x) : x \in Ways(type, w)}
Knows(type, w, c) ==
  /\ c.wire_id = w[Len(w)]
  /\ ~Ends(type, w) => c.all_reachable = Reach(type, w) /\ c.head_reachable = Fresh(type, w)

(* A further wire changes nothing about what was met before it. *)
LEMMA FreshAppend ==
  ASSUME NEW type, NEW w \in Seq(Nat), NEW x \in Nat
  PROVE  /\ Reach(type, Append(w, x)) = Reach(type, w) \cup Feeders(type, x)
         /\ Fresh(type, Append(w, x)) = Feeders(type, x) \ Reach(type, w)
<1> DEFINE v == Append(w, x)
           n == Len(w)
<1>1. n \in Nat /\ Len(v) = n + 1 /\ v[n + 1] = x /\ (\A i \in 1..n : v[i] = w[i])
      /\ (n + 1) - 1 = n
  BY Appended
<1>2. 1..(n + 1) = (1..n) \cup {n + 1}
  BY <1>1
<1> HIDE DEF v, n
<1>3. /\ \A y : y \in Reach(type, v) <=> \E i \in 1..(n + 1) : y \in Feeders(type, v[i])
      /\ \A y : y \in Reach(type, w) <=> \E i \in 1..n : y \in Feeders(type, w[i])
  BY <1>1 DEF Reach, n
<1>4. Reach(type, v) = Reach(type, w) \cup Feeders(type, x)
  <2>1. ASSUME NEW y \in Reach(type, v) PROVE y \in Reach(type, w) \cup Feeders(type, x)
    <3>1. PICK i \in 1..(n + 1) : y \in Feeders(type, v[i])
      BY <1>3
    <3>2. CASE i = n + 1
      <4>1. y \in Feeders(type, x)
        BY <1>1, <3>1, <3>2
      <4> QED
        BY <4>1
    <3>3. CASE i \in 1..n
      BY <1>1, <1>3, <3>1, <3>3
    <3> QED
      BY <1>2, <3>2, <3>3
  <2>2. ASSUME NEW y \in Reach(type, w) PROVE y \in Reach(type, v)
    <3>1. PICK i \in 1..n : y \in Feeders(type, w[i])
      BY <1>3
    <3>2. i \in 1..(n + 1) /\ v[i] = w[i]
      BY <1>1, <1>2
    <3> QED
      BY <1>3, <3>1, <3>2
  <2>3. ASSUME NEW y \in Feeders(type, x) PROVE y \in Reach(type, v)
    <3>1. n + 1 \in 1..(n + 1)
      BY <1>2
    <3> QED
      BY <1>1, <1>3, <3>1
  <2> QED
    BY <2>1, <2>2, <2>3
<1>5. Fresh(type, v) = {y \in Feeders(type, x) : \A i \in 1..n : y \notin Feeders(type, w[i])}
  BY <1>1 DEF Fresh
<1>6. Fresh(type, v) = Feeders(type, x) \ Reach(type, w)
  BY <1>5 DEF Reach, n
<1> QED
  BY <1>4, <1>6 DEF v

(* What a walk can reach is a set of wires. *)
LEMMA ReachIsSmall ==
  ASSUME NEW type, TypeOk(type), NEW w
  PROVE  Reach(type, w) \subseteq Nat /\ Fresh(type, w) \subseteq Nat
<1>1. \A x : Feeders(type, x) \subseteq Nat
  BY FeedersEnter, WiresAreSmall
<1> QED
  BY <1>1 DEF Reach, Fresh

(* A wire that a walk goes on to is none of its wires. *)
LEMMA FreshIsNew ==
  ASSUME NEW type, TypeOk(type), NEW start \in outbound_only_wires(type), NEW n \in Nat, n >= 1,
         NEW w \in Live(type, start, n), NEW x \in Fresh(type, w)
  PROVE  x \notin Range(w) /\ x \in Nat
<1>1. w \in Seq(Nat) /\ Len(w) = n /\ w[1] = start /\ Direct(type, w)
  BY LiveWalk
<1>2. x \in Nat
  BY ReachIsSmall
<1> DEFINE v == Append(w, x)
<1>3. Direct(type, v)
  BY <1>1, <1>2, DirectAppend
<1>4. /\ v \in Seq(Nat) /\ Len(v) = n + 1 /\ v[n + 1] = x
      /\ \A i \in 1..n : v[i] = w[i]
  BY <1>1, <1>2, Appended
<1> HIDE DEF v
<1>5. v[1] = start
  <2>1. 1 \in 1..n
    OBVIOUS
  <2> QED
    BY <1>1, <1>4, <2>1
<1>6. IsInjective(v)
  BY <1>3, <1>4, <1>5, DirectWalk
<1>7. ASSUME NEW i \in 1..n PROVE w[i] # x
  <2>1. i \in DOMAIN v /\ n + 1 \in DOMAIN v /\ i # n + 1
    BY <1>4
  <2> QED
    BY <1>4, <1>6, <2>1 DEF IsInjective
<1>8. DOMAIN w = 1..n
  BY <1>1
<1> QED
  BY <1>2, <1>7, <1>8 DEF Range

(* get_reachable_wire gives a head exactly for the ways of a walk. *)
LEMMA ReachableIs ==
  ASSUME TypeOk(Type), NEW start \in outbound_only_wires(Type), NEW n \in Nat, n >= 1,
         NEW w \in Live(Type, start, n), ~Ends(Type, w), NEW c, Knows(Type, w, c),
         NEW parent, touched_wires(parent) = Range(w), NEW x \in Nat
  PROVE  Reachable(parent, c, x) =
           IF x \in Ways(Type, w) THEN <<NewHead(Type, w, parent, x)>> ELSE <<>>
<1>1. w \in Seq(Nat) /\ Len(w) = n
  BY LiveWalk
<1>2. c.all_reachable = Reach(Type, w) /\ c.head_reachable = Fresh(Type, w)
  BY DEF Knows
<1>3. /\ Reach(Type, Append(w, x)) = Reach(Type, w) \cup Feeders(Type, x)
      /\ Fresh(Type, Append(w, x)) = Feeders(Type, x) \ Reach(Type, w)
  BY <1>1, FreshAppend
<1>4. CASE x \notin Fresh(Type, w)
  BY <1>2, <1>4 DEF Reachable, Ways
<1>5. CASE x \in Fresh(Type, w)
  <2>1. x \notin touched_wires(parent)
    BY <1>5, FreshIsNew
  <2>2. x \in inbound_wires(Type)
    BY <1>1, <1>5, FreshIsSmall
  <2>3. x \in inbound_only_wires(Type) \/ x \in bidirectional_wires(Type)
    BY <2>2 DEF inbound_only_wires, bidirectional_wires
  <2> DEFINE fresh == Feeders(Type, x) \ c.all_reachable
             all == c.all_reachable \cup fresh
  <2>4. fresh = Fresh(Type, Append(w, x)) /\ all = Reach(Type, Append(w, x))
    BY <1>2, <1>3
  <2>5. CASE x \in inbound_only_wires(Type)
    <3>1. x \in Ways(Type, w)
      BY <1>5, <2>5 DEF Ways
    <3>2. Reachable(parent, c, x) =
            <<[parent |-> parent, wire_id |-> x, all_reachable |-> {}, head_reachable |-> {}]>>
      BY <1>2, <1>5, <2>1, <2>5 DEF Reachable
    <3> QED
      BY <2>5, <3>1, <3>2 DEF NewHead
  <2>6. CASE x \notin inbound_only_wires(Type) /\ fresh = {}
    <3>1. x \notin Ways(Type, w)
      BY <2>4, <2>6 DEF Ways
    <3>2. Reachable(parent, c, x) = <<>>
      BY <1>2, <1>5, <2>1, <2>3, <2>6 DEF Reachable
    <3> QED
      BY <3>1, <3>2
  <2>7. CASE x \notin inbound_only_wires(Type) /\ fresh # {}
    <3>1. x \in Ways(Type, w)
      BY <1>5, <2>4, <2>7 DEF Ways
    <3>2. Reachable(parent, c, x) =
            <<[parent |-> parent, wire_id |-> x, all_reachable |-> all, head_reachable |-> fresh]>>
      BY <1>2, <1>5, <2>1, <2>7 DEF Reachable
    <3> QED
      BY <2>4, <2>7, <3>1, <3>2 DEF NewHead
  <2> QED
    BY <2>5, <2>6, <2>7
<1> QED
  BY <1>4, <1>5

(* The head of a way is a head. *)
LEMMA HeadTyped ==
  ASSUME NEW type, TypeOk(type), NEW w, NEW parent \in Nat, NEW x \in Nat
  PROVE  NewHead(type, w, parent, x) \in HeadSet
BY ReachIsSmall DEF NewHead, HeadSet

(* Growing a head gives each of its sprouts once, and never aborts. *)
LEMMA GrowHeadIs ==
  ASSUME TypeOk(Type), NEW start \in outbound_only_wires(Type), NEW n \in Nat, n >= 1,
         NEW w \in Live(Type, start, n), NEW c, Knows(Type, w, c),
         NEW parent \in Nat, touched_wires(parent) = Range(w), Len(Chain(parent)) = Len(w)
  PROVE  /\ ~GrowAborts(parent, c)
         /\ GrowHead(parent, c) \in Seq(HeadSet) /\ IsInjective(GrowHead(parent, c))
         /\ Range(GrowHead(parent, c)) = Sprouts(Type, w, parent)
<1>0. /\ w \in Seq(Nat) /\ Len(w) = n /\ IsInjective(w)
      /\ (~Ends(Type, w) => Fresh(Type, w) # {}) /\ Type.wires \in Nat
  BY LiveWalk DEF TypeOk
<1>1. c.wire_id \in inbound_only_wires(Type) <=> Ends(Type, w)
  BY DEF Knows, Ends
<1>2. CASE Ends(Type, w)
  <2>1. ~GrowAborts(parent, c) /\ GrowHead(parent, c) = <<>> /\ Sprouts(Type, w, parent) = {}
    BY <1>1, <1>2 DEF GrowAborts, GrowHead, Sprouts
  <2>2. Range(<<>>) = {} /\ IsInjective(<<>>) /\ <<>> \in Seq(HeadSet)
    BY DEF Range, IsInjective
  <2> QED
    BY <2>1, <2>2
<1>3. CASE ~Ends(Type, w)
  <2>1. c.all_reachable = Reach(Type, w) /\ c.head_reachable = Fresh(Type, w)
    BY <1>3 DEF Knows
  <2>2. Fresh(Type, w) \subseteq inbound_wires(Type)
    BY <1>0, FreshIsSmall
  <2>3. ~GrowAborts(parent, c)
    <3>1. Cardinality(touched_wires(parent)) = Len(Chain(parent))
      BY <1>0, InjectiveCardinality
    <3>2. c.head_reachable # {}
      BY <1>0, <1>3, <2>1
    <3>3. c.head_reachable \cap outbound_only_wires(Type) = {}
      BY <2>1, <2>2 DEF outbound_only_wires
    <3> QED
      BY <3>1, <3>2, <3>3 DEF GrowAborts
  <2> DEFINE seqs == [i \in 1..Type.wires |-> Reachable(parent, c, i - 1)]
             One(x) == IF x \in Ways(Type, w) THEN <<NewHead(Type, w, parent, x)>> ELSE <<>>
  <2>4. \A i \in 1..Type.wires : seqs[i] = One(i - 1)
    <3> SUFFICES ASSUME NEW i \in 1..Type.wires PROVE Reachable(parent, c, i - 1) = One(i - 1)
      OBVIOUS
    <3>1. i - 1 \in Nat
      BY <1>0
    <3> QED
      BY <1>3, <3>1, ReachableIs
  <2>5. \A x \in Nat : /\ One(x) \in Seq(HeadSet) /\ IsInjective(One(x))
                       /\ Range(One(x)) = {NewHead(Type, w, parent, y) : y \in Ways(Type, w) \cap {x}}
    <3> SUFFICES ASSUME NEW x \in Nat
                 PROVE  /\ One(x) \in Seq(HeadSet) /\ IsInjective(One(x))
                        /\ Range(One(x)) = {NewHead(Type, w, parent, y) : y \in Ways(Type, w) \cap {x}}
      OBVIOUS
    <3>1. NewHead(Type, w, parent, x) \in HeadSet
      BY HeadTyped
    <3> DEFINE h == NewHead(Type, w, parent, x)
    <3>2. CASE x \in Ways(Type, w)
      <4>1. One(x) = <<h>> /\ {NewHead(Type, w, parent, y) : y \in Ways(Type, w) \cap {x}} = {h}
        BY <3>2
      <4> HIDE DEF h
      <4>2. <<h>> \in Seq(HeadSet) /\ IsInjective(<<h>>) /\ Range(<<h>>) = {h}
        BY <3>1 DEF IsInjective, Range, h
      <4> QED
        BY <4>1, <4>2
    <3>3. CASE x \notin Ways(Type, w)
      <4>1. One(x) = <<>> /\ {NewHead(Type, w, parent, y) : y \in Ways(Type, w) \cap {x}} = {}
        BY <3>3
      <4>2. <<>> \in Seq(HeadSet) /\ IsInjective(<<>>) /\ Range(<<>>) = {}
        BY DEF IsInjective, Range
      <4> QED
        BY <4>1, <4>2
    <3> QED
      BY <3>2, <3>3
  <2>6. seqs \in Seq(Seq(HeadSet)) /\ Len(seqs) = Type.wires
    <3>1. \A i \in 1..Type.wires : Reachable(parent, c, i - 1) \in Seq(HeadSet)
      <4> SUFFICES ASSUME NEW i \in 1..Type.wires PROVE Reachable(parent, c, i - 1) \in Seq(HeadSet)
        OBVIOUS
      <4>1. i - 1 \in Nat
        BY <1>0
      <4>2. One(i - 1) \in Seq(HeadSet)
        BY <2>5, <4>1
      <4>3. seqs[i] = One(i - 1)
        BY <2>4
      <4> HIDE DEF One
      <4> QED
        BY <4>2, <4>3
    <3> DEFINE N == Type.wires
               R(i) == Reachable(parent, c, i - 1)
    <3>2. N \in Nat /\ \A i \in 1..N : R(i) \in Seq(HeadSet)
      BY <1>0, <3>1
    <3>3. seqs = [i \in 1..N |-> R(i)]
      OBVIOUS
    <3> HIDE DEF N, R, seqs
    <3>4. seqs \in Seq(Seq(HeadSet)) /\ Len(seqs) = N
      BY <3>2, <3>3
    <3> QED
      BY <3>4 DEF N
  <2>7. GrowHead(parent, c) = FlattenSeq(seqs)
    BY <1>1, <1>3 DEF GrowHead
  <2> HIDE DEF seqs
  <2>8. \A i \in 1..Len(seqs) : IsInjective(seqs[i])
    <3> SUFFICES ASSUME NEW i \in 1..Type.wires PROVE IsInjective(seqs[i])
      BY <2>6
    <3>1. i - 1 \in Nat
      BY <1>0
    <3> HIDE DEF One
    <3> QED
      BY <2>4, <2>5, <3>1
  <2>9. \A i \in 1..Len(seqs) :
          Range(seqs[i]) = {NewHead(Type, w, parent, y) : y \in Ways(Type, w) \cap {i - 1}}
    <3> SUFFICES ASSUME NEW i \in 1..Type.wires
                 PROVE  Range(seqs[i]) = {NewHead(Type, w, parent, y) : y \in Ways(Type, w) \cap {i - 1}}
      BY <2>6
    <3>1. i - 1 \in Nat
      BY <1>0
    <3> HIDE DEF One
    <3> QED
      BY <2>4, <2>5, <3>1
  <2> HIDE DEF One
  <2>10. \A i, k \in 1..Len(seqs) : i # k => Range(seqs[i]) \cap Range(seqs[k]) = {}
    <3>1. \A x, y : NewHead(Type, w, parent, x) = NewHead(Type, w, parent, y) => x = y
      <4> SUFFICES ASSUME NEW x, NEW y, NewHead(Type, w, parent, x) = NewHead(Type, w, parent, y)
                   PROVE  x = y
        OBVIOUS
      <4>1. NewHead(Type, w, parent, x).wire_id = x /\ NewHead(Type, w, parent, y).wire_id = y
        BY DEF NewHead
      <4> QED
        BY <4>1
    <3> SUFFICES ASSUME NEW i \in 1..Len(seqs), NEW k \in 1..Len(seqs), i # k,
                        NEW h \in Range(seqs[i]), h \in Range(seqs[k])
                 PROVE  FALSE
      OBVIOUS
    <3>2. h = NewHead(Type, w, parent, i - 1) /\ h = NewHead(Type, w, parent, k - 1)
      BY <2>9
    <3>3. i - 1 = k - 1
      BY <3>1, <3>2
    <3>4. i \in Int /\ k \in Int
      OBVIOUS
    <3> QED
      BY <3>3, <3>4
  <2>11. FlattenSeq(seqs) \in Seq(HeadSet) /\ IsInjective(FlattenSeq(seqs))
    BY <2>6, <2>8, <2>10, Flattened, FlattenedInjective
  <2>12. Range(FlattenSeq(seqs)) = UNION {Range(seqs[i]) : i \in 1..Len(seqs)}
    BY <2>6, FlattenedRange
  <2>13. \A x \in Ways(Type, w) : x + 1 \in 1..Type.wires /\ (x + 1) - 1 = x
    BY <1>0, <2>2, WiresAreSmall DEF Wires, Ways
  <2>14. Sprouts(Type, w, parent) = {NewHead(Type, w, parent, x) : x \in Ways(Type, w)}
    BY <1>3 DEF Sprouts
  <2>15. ASSUME NEW x \in Ways(Type, w)
         PROVE  NewHead(Type, w, parent, x) \in Range(FlattenSeq(seqs))
    <3>1. x + 1 \in 1..Len(seqs) /\ (x + 1) - 1 = x
      BY <2>6, <2>13
    <3>2. NewHead(Type, w, parent, x) \in Range(seqs[x + 1])
      BY <2>9, <3>1
    <3> QED
      BY <2>12, <3>1, <3>2
  <2>16. ASSUME NEW h \in Range(FlattenSeq(seqs)) PROVE h \in Sprouts(Type, w, parent)
    <3>1. PICK i \in 1..Len(seqs) : h \in Range(seqs[i])
      BY <2>12
    <3>2. PICK y \in Ways(Type, w) \cap {i - 1} : h = NewHead(Type, w, parent, y)
      BY <2>9, <3>1
    <3> QED
      BY <2>14, <3>2
  <2> QED
    BY <2>3, <2>7, <2>11, <2>14, <2>15, <2>16
<1> QED
  BY <1>2, <1>3

(* Numbers. *)

(* A quotient and its remainder. *)
LEMMA Quotient ==
  ASSUME NEW a \in Nat, NEW b \in Nat \ {0}
  PROVE  /\ a \div b \in Nat
         /\ (a \div b) * b <= a /\ a < (a \div b) * b + b
         /\ a % b \in 0..(b - 1) /\ a = b * (a \div b) + (a % b)
<1>1. /\ a \div b \in Nat /\ a % b \in 0..(b - 1)
      /\ a = b * (a \div b) + (a % b)
  OBVIOUS
<1> DEFINE c == a \div b
           r == a % b
<1> HIDE DEF c, r
<1>2. c \in Nat /\ r \in 0..(b - 1) /\ a = b * c + r
  BY <1>1 DEF c, r
<1>3. b * c = c * b /\ c * b \in Nat
  BY <1>2, SMTT(30)
<1>4. a = c * b + r
  BY <1>2, <1>3
<1>5. c * b <= a /\ a < c * b + b
  BY <1>2, <1>3, <1>4
<1>6. (a \div b) * b <= a /\ a < (a \div b) * b + b
  BY <1>5, Zenon DEF c
<1> QED
  BY <1>1, <1>6

(* The product of numbers is one. *)
LEMMA Product ==
  ASSUME NEW a \in Nat, NEW b \in Nat
  PROVE  a * b \in Nat
BY SMTT(30)

(* Products grow with their factors. *)
LEMMA ProductGrows ==
  ASSUME NEW a \in Nat, NEW b \in Nat, NEW c \in Nat, a <= b
  PROVE  a * c <= b * c /\ c * a <= c * b
BY SMTT(30)

(* Two numbers of one remainder are the same if they are near. *)
LEMMA SameRemainder ==
  ASSUME NEW a \in Nat, NEW b \in Nat, NEW k \in Nat \ {0}, a % k = b % k,
         a <= b, b < a + k
  PROVE  a = b
<1> DEFINE c == a \div k
           d == b \div k
           r == a % k
<1>1. c \in Nat /\ d \in Nat /\ r \in 0..(k - 1) /\ a = k * c + r
  BY Quotient
<1>2. b = k * d + (b % k)
  BY Quotient
<1>3. b = k * d + r
  BY <1>2
<1> HIDE DEF c, d, r
<1>4. c * k \in Nat /\ d * k \in Nat /\ k * c = c * k /\ k * d = d * k
  BY <1>1, SMTT(30)
<1>5. ~(c < d)
  <2> SUFFICES ASSUME c + 1 <= d PROVE FALSE
    BY <1>1
  <2>1. (c + 1) * k <= d * k
    BY <1>1, ProductGrows
  <2>2. (c + 1) * k = c * k + k
    BY <1>1, SMTT(30)
  <2> QED
    BY <1>1, <1>3, <1>4, <2>1, <2>2
<1>6. ~(d < c)
  <2> SUFFICES ASSUME d + 1 <= c PROVE FALSE
    BY <1>1
  <2>1. (d + 1) * k <= c * k
    BY <1>1, ProductGrows
  <2>2. (d + 1) * k = d * k + k
    BY <1>1, SMTT(30)
  <2> QED
    BY <1>1, <1>3, <1>4, <2>1, <2>2
<1>7. c = d
  BY <1>1, <1>5, <1>6
<1> QED
  BY <1>1, <1>3, <1>7

(* A step of n keeps the remainder by n. *)
LEMMA RemainderSteps ==
  ASSUME NEW a \in Nat, NEW k \in Nat \ {0}
  PROVE  (a + k) % k = a % k
<1> DEFINE c == a \div k
           r == a % k
           d == (a + k) \div k
           s == (a + k) % k
<1>1. c \in Nat /\ r \in 0..(k - 1) /\ a = k * c + r
  BY Quotient
<1>2. a + k \in Nat
  OBVIOUS
<1>3. d \in Nat /\ s \in 0..(k - 1) /\ a + k = k * d + s
  BY <1>2, Quotient
<1> HIDE DEF c, d, r, s
<1>4. c * k \in Nat /\ d * k \in Nat /\ (c + 1) * k = c * k + k
      /\ k * c = c * k /\ k * d = d * k
  BY <1>1, <1>3, SMTT(30)
<1>5. (c + 1) * k + r = d * k + s
  BY <1>1, <1>3, <1>4
<1>6. ~(c + 1 < d)
  <2> SUFFICES ASSUME (c + 1) + 1 <= d PROVE FALSE
    BY <1>1, <1>3
  <2>1. ((c + 1) + 1) * k <= d * k
    BY <1>1, <1>3, ProductGrows
  <2>2. ((c + 1) + 1) * k = (c + 1) * k + k
    BY <1>1, SMTT(30)
  <2> QED
    BY <1>1, <1>3, <1>4, <1>5, <2>1, <2>2
<1>7. ~(d < c + 1)
  <2> SUFFICES ASSUME d + 1 <= c + 1 PROVE FALSE
    BY <1>1, <1>3
  <2>1. (d + 1) * k <= (c + 1) * k
    BY <1>1, <1>3, ProductGrows
  <2>2. (d + 1) * k = d * k + k
    BY <1>3, SMTT(30)
  <2> QED
    BY <1>1, <1>3, <1>4, <1>5, <2>1, <2>2
<1>8. d = c + 1
  BY <1>1, <1>3, <1>6, <1>7
<1>9. r = s
  BY <1>1, <1>3, <1>4, <1>5, <1>8
<1> QED
  BY <1>9 DEF r, s

(* A concatenation has the entries of its two parts. *)
LEMMA ConcatenatedRange ==
  ASSUME NEW S, NEW a \in Seq(S), NEW b \in Seq(S)
  PROVE  Range(a \o b) = Range(a) \cup Range(b)
<1>1. /\ a \o b \in Seq(S) /\ Len(a \o b) = Len(a) + Len(b)
      /\ \A j \in 1..Len(a) : (a \o b)[j] = a[j]
      /\ \A j \in 1..Len(b) : (a \o b)[Len(a) + j] = b[j]
  BY Concatenated
<1>2. Len(a) \in Nat /\ Len(b) \in Nat /\ DOMAIN a = 1..Len(a) /\ DOMAIN b = 1..Len(b)
  OBVIOUS
<1> DEFINE c == a \o b
<1>3. DOMAIN c = 1..(Len(a) + Len(b))
  BY <1>1
<1> HIDE DEF c
<1>4. ASSUME NEW x \in Range(c) PROVE x \in Range(a) \cup Range(b)
  <2>1. PICK i \in 1..(Len(a) + Len(b)) : x = c[i]
    BY <1>3 DEF Range
  <2>2. CASE i <= Len(a)
    <3>1. i \in 1..Len(a)
      BY <1>2, <2>2
    <3>2. x = a[i]
      BY <1>1, <2>1, <3>1 DEF c
    <3> QED
      BY <1>2, <3>1, <3>2 DEF Range
  <2>3. CASE i > Len(a)
    <3>1. i - Len(a) \in 1..Len(b) /\ i = Len(a) + (i - Len(a))
      BY <1>2, <2>3
    <3>2. x = b[i - Len(a)]
      BY <1>1, <2>1, <3>1 DEF c
    <3> QED
      BY <1>2, <3>1, <3>2 DEF Range
  <2> QED
    BY <1>2, <2>2, <2>3
<1>5. ASSUME NEW x \in Range(a) PROVE x \in Range(c)
  <2>1. PICK i \in 1..Len(a) : x = a[i]
    BY <1>2 DEF Range
  <2>2. i \in DOMAIN c /\ x = c[i]
    BY <1>1, <1>2, <1>3, <2>1 DEF c
  <2> QED
    BY <2>2 DEF Range
<1>6. ASSUME NEW x \in Range(b) PROVE x \in Range(c)
  <2>1. PICK i \in 1..Len(b) : x = b[i]
    BY <1>2 DEF Range
  <2>2. Len(a) + i \in DOMAIN c /\ x = c[Len(a) + i]
    BY <1>1, <1>2, <1>3, <2>1 DEF c
  <2> QED
    BY <2>2 DEF Range
<1> QED
  BY <1>4, <1>5, <1>6 DEF c

(* Two parts without repetition that share nothing have a concatenation without. *)
LEMMA ConcatenatedInjective ==
  ASSUME NEW S, NEW a \in Seq(S), NEW b \in Seq(S), IsInjective(a), IsInjective(b),
         Range(a) \cap Range(b) = {}
  PROVE  IsInjective(a \o b)
<1>1. /\ a \o b \in Seq(S) /\ Len(a \o b) = Len(a) + Len(b)
      /\ \A j \in 1..Len(a) : (a \o b)[j] = a[j]
      /\ \A j \in 1..Len(b) : (a \o b)[Len(a) + j] = b[j]
  BY Concatenated
<1>2. Len(a) \in Nat /\ Len(b) \in Nat /\ DOMAIN a = 1..Len(a) /\ DOMAIN b = 1..Len(b)
  OBVIOUS
<1> DEFINE c == a \o b
<1>3. DOMAIN c = 1..(Len(a) + Len(b))
  BY <1>1
<1>4. \A i \in 1..Len(a) : c[i] = a[i] /\ c[i] \in Range(a)
  BY <1>1, <1>2 DEF Range
<1>5. \A i \in 1..(Len(a) + Len(b)) : i \notin 1..Len(a) =>
         i - Len(a) \in 1..Len(b) /\ c[i] = b[i - Len(a)] /\ c[i] \in Range(b)
  <2> SUFFICES ASSUME NEW i \in 1..(Len(a) + Len(b)), i \notin 1..Len(a)
               PROVE  i - Len(a) \in 1..Len(b) /\ c[i] = b[i - Len(a)] /\ c[i] \in Range(b)
    OBVIOUS
  <2>1. i - Len(a) \in 1..Len(b) /\ i = Len(a) + (i - Len(a))
    BY <1>2
  <2> HIDE DEF c
  <2>2. c[i] = b[i - Len(a)]
    BY <1>1, <2>1 DEF c
  <2> QED
    BY <1>2, <2>1, <2>2 DEF Range
<1> HIDE DEF c
<1> SUFFICES ASSUME NEW i \in 1..(Len(a) + Len(b)), NEW j \in 1..(Len(a) + Len(b)), c[i] = c[j]
             PROVE  i = j
  BY <1>3 DEF IsInjective, c
<1>6. CASE i \in 1..Len(a) /\ j \in 1..Len(a)
  BY <1>2, <1>4, <1>6 DEF IsInjective
<1>7. CASE i \notin 1..Len(a) /\ j \notin 1..Len(a)
  <2>1. i - Len(a) = j - Len(a)
    BY <1>2, <1>5, <1>7 DEF IsInjective
  <2> QED
    BY <1>2, <2>1
<1> QED
  BY <1>4, <1>5, <1>6, <1>7

(* The heads of a level: the walks of n wires that are alive, each once. *)
LevelOk(type, start, nodes, base, heads, n, t) ==
  /\ Nodes(nodes) /\ Trails(nodes, t)
  /\ base \in Nat /\ heads \in Seq(HeadSet) /\ Len(nodes) = base + Len(heads)
  /\ \A k \in 1..Len(heads) : /\ t[base + k] \in Live(type, start, n)
                              /\ Knows(type, t[base + k], heads[k])
  /\ \A w \in Live(type, start, n) : \E k \in 1..Len(heads) : w = t[base + k]
  /\ \A k, l \in 1..Len(heads) : t[base + k] = t[base + l] => k = l

(* The heads that thread i of several has grown, and what it found. *)
Grown(heads, index, i) ==
  {k \in 1..Len(heads) : k < index[i] /\ k % Len(index) = i % Len(index)}
Found(type, base, heads, index, t, i) ==
  UNION {Sprouts(type, t[base + k], base + k) : k \in Grown(heads, index, i)}
ThreadsOk(type, base, heads, next, index, t) ==
  /\ index \in Seq(Nat) /\ index # <<>>
  /\ next \in Seq(Seq(HeadSet)) /\ Len(next) = Len(index)
  /\ \A i \in 1..Len(index) :
       /\ index[i] >= i /\ index[i] % Len(index) = i % Len(index)
       /\ IsInjective(next[i])
       /\ Range(next[i]) = Found(type, base, heads, index, t, i)

(* The level of a start wire is the root. *)
LEMMA LevelStarts ==
  ASSUME NEW type, TypeOk(type), NEW start \in outbound_only_wires(type)
  PROVE  LevelOk(type, start, <<[parent |-> 0, wire_id |-> start]>>, 0,
                 <<make_init_wire_pip_node(type, start)>>, 1, [p \in 1..1 |-> <<start>>])
<1> DEFINE nodes == <<[parent |-> 0, wire_id |-> start]>>
           c == make_init_wire_pip_node(type, start)
           heads == <<c>>
           t == [p \in 1..1 |-> <<start>>]
<1>1. Live(type, start, 1) = {<<start>>} /\ Fresh(type, <<start>>) = Feeders(type, start)
      /\ start \in Nat
  BY LiveStarts
<1>2. Reach(type, <<start>>) = Feeders(type, start) /\ Feeders(type, start) \subseteq Nat
  <2>1. Reach(type, <<start>>) = Feeders(type, start)
    BY DEF Reach
  <2> QED
    BY <2>1, ReachIsSmall
<1>3. c \in HeadSet /\ Knows(type, <<start>>, c)
  BY <1>1, <1>2 DEF make_init_wire_pip_node, HeadSet, Knows
<1>4. nodes \in Seq(NodeSet) /\ Len(nodes) = 1 /\ nodes[1].parent = 0 /\ nodes[1].wire_id = start
  BY <1>1 DEF NodeSet
<1>5. Nodes(nodes)
  BY <1>4 DEF Nodes
<1>6. t \in [1..1 -> Seq(Nat)] /\ t[1] = <<start>>
  BY <1>1
<1> HIDE DEF nodes, t, c
<1>7. Trails(nodes, t)
  BY <1>4, <1>6 DEF Trails
<1>8. heads \in Seq(HeadSet) /\ Len(heads) = 1 /\ heads[1] = c
  BY <1>3
<1> HIDE DEF heads
<1>9. \A k \in 1..Len(heads) : k = 1 /\ 0 + k = 1
  BY <1>8
<1>10. 1 \in 1..Len(heads) /\ 0 + 1 = 1
  BY <1>8
<1>11. \A k \in 1..Len(heads) : /\ t[0 + k] \in Live(type, start, 1)
                                /\ Knows(type, t[0 + k], heads[k])
  BY <1>1, <1>3, <1>6, <1>8, <1>9
<1>12. \A w \in Live(type, start, 1) : \E k \in 1..Len(heads) : w = t[0 + k]
  BY <1>1, <1>6, <1>10
<1>13. LevelOk(type, start, nodes, 0, heads, 1, t)
  BY <1>4, <1>5, <1>7, <1>8, <1>9, <1>11, <1>12 DEF LevelOk
<1> QED
  BY <1>13 DEF nodes, t, heads, c

(* The threads of a level start with nothing found. *)
LEMMA ThreadsStart ==
  ASSUME NEW type, NEW base, NEW heads \in Seq(HeadSet), NEW t, NEW n \in Nat \ {0}
  PROVE  ThreadsOk(type, base, heads, [i \in 1..n |-> <<>>], [i \in 1..n |-> i], t)
<1> DEFINE next == [i \in 1..n |-> <<>>]
           index == [i \in 1..n |-> i]
<1>1. index \in Seq(Nat) /\ Len(index) = n /\ index # <<>>
  OBVIOUS
<1>2. <<>> \in Seq(HeadSet) /\ Range(<<>>) = {} /\ IsInjective(<<>>)
  BY DEF Range, IsInjective
<1>3. next \in Seq(Seq(HeadSet)) /\ Len(next) = n
  BY <1>2
<1>4. \A i \in 1..n : index[i] = i /\ next[i] = <<>>
  OBVIOUS
<1> HIDE DEF next, index
<1>5. ASSUME NEW i \in 1..n PROVE Grown(heads, index, i) = {}
  <2> SUFFICES ASSUME NEW k \in 1..Len(heads), k < i, k % n = i % n PROVE FALSE
    BY <1>1, <1>4 DEF Grown
  <2>1. k \in Nat /\ i \in Nat /\ k <= i /\ i < k + n
    OBVIOUS
  <2>2. k = i
    BY <2>1, SameRemainder
  <2> QED
    BY <2>1, <2>2
<1>6. ASSUME NEW i \in 1..n PROVE Found(type, base, heads, index, t, i) = {}
  BY <1>5 DEF Found
<1>7. \A i \in 1..Len(index) :
       /\ index[i] >= i /\ index[i] % Len(index) = i % Len(index)
       /\ IsInjective(next[i])
       /\ Range(next[i]) = Found(type, base, heads, index, t, i)
  <2> SUFFICES ASSUME NEW i \in 1..n
               PROVE  /\ index[i] >= i /\ index[i] % n = i % n
                      /\ IsInjective(next[i])
                      /\ Range(next[i]) = Found(type, base, heads, index, t, i)
    BY <1>1
  <2>1. index[i] = i /\ next[i] = <<>> /\ i >= i
    BY <1>4
  <2> QED
    BY <1>2, <1>6, <2>1
<1>8. ThreadsOk(type, base, heads, next, index, t)
  BY <1>1, <1>3, <1>7 DEF ThreadsOk
<1> QED
  BY <1>8 DEF next, index

(* A sprout knows its parent and its wire. *)
LEMMA SproutsParent ==
  ASSUME NEW type, NEW w, NEW parent, NEW h \in Sprouts(type, w, parent)
  PROVE  h.parent = parent /\ h.wire_id \in Ways(type, w) /\ ~Ends(type, w)
         /\ h = NewHead(type, w, parent, h.wire_id)
<1>1. ~Ends(type, w)
  BY DEF Sprouts
<1>2. PICK x \in Ways(type, w) : h = NewHead(type, w, parent, x)
  BY DEF Sprouts
<1>3. h.parent = parent /\ h.wire_id = x
  BY <1>2 DEF NewHead
<1> QED
  BY <1>1, <1>2, <1>3

(* A thread adds the sprouts of the head it grows. *)
LEMMA ThreadGrows ==
  ASSUME NEW type, NEW base \in Nat, NEW heads \in Seq(HeadSet), NEW next, NEW index, NEW t,
         ThreadsOk(type, base, heads, next, index, t),
         NEW i \in 1..Len(index), index[i] <= Len(heads),
         NEW more \in Seq(HeadSet), IsInjective(more),
         Range(more) = Sprouts(type, t[base + index[i]], base + index[i])
  PROVE  ThreadsOk(type, base, heads, [next EXCEPT ![i] = @ \o more],
                   [index EXCEPT ![i] = @ + Len(index)], t)
<1> DEFINE n == Len(index)
           next2 == [next EXCEPT ![i] = @ \o more]
           index2 == [index EXCEPT ![i] = @ + n]
           c == index[i]
<1>1. /\ index \in Seq(Nat) /\ n \in Nat \ {0} /\ next \in Seq(Seq(HeadSet)) /\ Len(next) = n
      /\ c \in Nat /\ c >= i /\ c % n = i % n /\ c >= 1
  BY DEF ThreadsOk
<1>2. /\ index2 \in Seq(Nat) /\ Len(index2) = n /\ index2[i] = c + n
      /\ \A j \in 1..n : j # i => index2[j] = index[j]
  BY <1>1
<1>3. next[i] \in Seq(HeadSet) /\ next[i] \o more \in Seq(HeadSet)
  BY <1>1
<1>4. /\ next2 \in Seq(Seq(HeadSet)) /\ Len(next2) = n /\ next2[i] = next[i] \o more
      /\ \A j \in 1..n : j # i => next2[j] = next[j]
  <2> DEFINE m == next[i] \o more
  <2>1. m \in Seq(HeadSet) /\ i \in 1..Len(next) /\ next2 = [next EXCEPT ![i] = m]
    BY <1>1, <1>3
  <2> HIDE DEF m, next2, n
  <2> QED
    <3>1. next \in Seq(Seq(HeadSet)) /\ i \in 1..Len(next) /\ Len(next) = n
      BY <1>1, <2>1
    <3>2. next2 \in Seq(Seq(HeadSet))
      BY <2>1, <3>1
    <3>3. Len(next2) = n
      BY <2>1, <3>1
    <3>4. next2[i] = m /\ \A j \in 1..n : j # i => next2[j] = next[j]
      BY <2>1, <3>1
    <3> QED
      BY <3>2, <3>3, <3>4 DEF m
<1> HIDE DEF n, next2, index2, c
<1>5. (c + n) % n = i % n /\ c + n >= i
  <2>1. (c + n) % n = c % n
    BY <1>1, RemainderSteps
  <2> QED
    BY <1>1, <2>1
<1>6. \A j \in 1..n : /\ index[j] >= j /\ index[j] % n = j % n /\ IsInjective(next[j])
                      /\ Range(next[j]) = Found(type, base, heads, index, t, j)
  BY DEF ThreadsOk, n
<1>7. Grown(heads, index2, i) = Grown(heads, index, i) \cup {c}
  <2>1. c \in 1..Len(heads) /\ c < c + n
    BY <1>1 DEF c
  <2>2. ASSUME NEW k \in 1..Len(heads), k < c + n, k % n = i % n, ~(k < c) PROVE k = c
    <3>1. k \in Nat /\ c <= k /\ c % n = k % n
      BY <1>1, <2>2
    <3> QED
      BY <1>1, <2>2, <3>1, SameRemainder
  <2>3. Grown(heads, index2, i) = {k \in 1..Len(heads) : k < c + n /\ k % n = i % n}
    BY <1>2 DEF Grown
  <2>4. Grown(heads, index, i) = {k \in 1..Len(heads) : k < c /\ k % n = i % n}
    BY DEF Grown, c, n
  <2>5. \A k \in 1..Len(heads) : k < c => k < c + n
    BY <1>1
  <2> QED
    BY <1>1, <2>1, <2>2, <2>3, <2>4, <2>5
<1>8. Found(type, base, heads, index2, t, i) = Range(next[i]) \cup Range(more)
  <2>1. Range(next[i]) = Found(type, base, heads, index, t, i)
    BY <1>6 DEF n
  <2>2. Range(more) = Sprouts(type, t[base + c], base + c)
    BY DEF c
  <2> DEFINE S(k) == Sprouts(type, t[base + k], base + k)
  <2>3. UNION {S(k) : k \in Grown(heads, index, i) \cup {c}}
          = (UNION {S(k) : k \in Grown(heads, index, i)}) \cup S(c)
    <3> HIDE DEF S
    <3> QED
      OBVIOUS
  <2> QED
    BY <1>7, <2>1, <2>2, <2>3 DEF Found
<1>9. ASSUME NEW j \in 1..n, j # i
      PROVE  Found(type, base, heads, index2, t, j) = Range(next[j])
  <2>1. Grown(heads, index2, j) = Grown(heads, index, j)
    BY <1>2, <1>9 DEF Grown, n
  <2> QED
    BY <1>6, <2>1 DEF Found
<1>10. Range(next[i]) \cap Range(more) = {}
  <2> SUFFICES ASSUME NEW h \in Range(next[i]), h \in Range(more) PROVE FALSE
    OBVIOUS
  <2>1. h.parent = base + c
    <3>1. h \in Sprouts(type, t[base + c], base + c)
      BY DEF c
    <3> QED
      BY <3>1, SproutsParent
  <2>2. h \in Found(type, base, heads, index, t, i)
    BY <1>6 DEF n
  <2>3. PICK k \in Grown(heads, index, i) : h \in Sprouts(type, t[base + k], base + k)
    BY <2>2 DEF Found
  <2>4. h.parent = base + k
    BY <2>3, SproutsParent
  <2>5. k \in Nat /\ k < c
    BY <2>3 DEF Grown, c
  <2> QED
    BY <1>1, <2>1, <2>4, <2>5
<1>11. IsInjective(next2[i]) /\ Range(next2[i]) = Range(next[i]) \cup Range(more)
  <2>1. IsInjective(next[i])
    BY <1>6 DEF n
  <2> QED
    BY <1>3, <1>4, <1>10, <2>1, ConcatenatedRange, ConcatenatedInjective
<1>12. \A j \in 1..Len(index2) :
         /\ index2[j] >= j /\ index2[j] % Len(index2) = j % Len(index2)
         /\ IsInjective(next2[j])
         /\ Range(next2[j]) = Found(type, base, heads, index2, t, j)
  <2> SUFFICES ASSUME NEW j \in 1..n
               PROVE  /\ index2[j] >= j /\ index2[j] % n = j % n
                      /\ IsInjective(next2[j])
                      /\ Range(next2[j]) = Found(type, base, heads, index2, t, j)
    BY <1>2
  <2>1. CASE j = i
    BY <1>2, <1>5, <1>8, <1>11, <2>1
  <2>2. CASE j # i
    BY <1>2, <1>4, <1>6, <1>9, <2>2
  <2> QED
    BY <2>1, <2>2
<1>13. index2 # <<>>
  BY <1>1, <1>2
<1>14. ThreadsOk(type, base, heads, next2, index2, t)
  BY <1>2, <1>4, <1>12, <1>13 DEF ThreadsOk
<1> QED
  BY <1>14 DEF next2, index2, n

(* Every number has the remainder of one of the threads. *)
LEMMA SomeThread ==
  ASSUME NEW k \in Nat, NEW n \in Nat \ {0}
  PROVE  \E i \in 1..n : k % n = i % n
<1> DEFINE r == k % n
<1>1. r \in 0..(n - 1)
  BY Quotient
<1> HIDE DEF r
<1>2. r % n = r
  <2>1. r \div n \in Nat /\ r % n \in 0..(n - 1) /\ (r \div n) * n <= r /\ r < (r \div n) * n + n
        /\ r = n * (r \div n) + (r % n)
    <3>1. r \in Nat
      BY <1>1
    <3> QED
      BY <3>1, Quotient, Zenon
  <2> DEFINE d == r \div n
             s == r % n
  <2> HIDE DEF d, s
  <2>2. d \in Nat /\ s \in 0..(n - 1) /\ r = n * d + s
    BY <2>1 DEF d, s
  <2>3. ~(d >= 1)
    <3> SUFFICES ASSUME d >= 1 PROVE FALSE
      OBVIOUS
    <3>1. n * 1 <= n * d
      BY <2>2, ProductGrows
    <3>2. n * d \in Nat /\ n * 1 = n
      BY <2>2, Product
    <3> QED
      BY <1>1, <2>2, <3>1, <3>2
  <2>4. d = 0
    BY <2>2, <2>3
  <2>5. n * d = 0
    BY <2>4
  <2> QED
    BY <2>2, <2>5 DEF s
<1>3. CASE r # 0
  <2>1. r \in 1..n
    BY <1>1, <1>3
  <2> QED
    BY <1>2, <2>1 DEF r
<1>4. CASE r = 0
  <2>1. (0 + n) % n = 0 % n
    BY RemainderSteps
  <2>2. 0 + n = n /\ n \in 1..n
    OBVIOUS
  <2>3. n % n = 0
    BY <1>2, <1>4, <2>1, <2>2
  <2> QED
    BY <1>4, <2>2, <2>3 DEF r
<1> QED
  BY <1>3, <1>4

(* Every thread is past the last head. *)
Past(heads, index) == \A i \in 1..Len(index) : index[i] > Len(heads)

(* Then the threads have found the sprouts
   of every head, each once. *)
LEMMA AllFound ==
  ASSUME NEW type, NEW base \in Nat, NEW heads \in Seq(HeadSet), NEW next, NEW index, NEW t,
         ThreadsOk(type, base, heads, next, index, t),
         Past(heads, index)
  PROVE  /\ FlattenSeq(next) \in Seq(HeadSet) /\ IsInjective(FlattenSeq(next))
         /\ \A h : h \in Range(FlattenSeq(next)) <=>
                     \E k \in 1..Len(heads) : h \in Sprouts(type, t[base + k], base + k)
<1> DEFINE n == Len(index)
           S(k) == Sprouts(type, t[base + k], base + k)
<1>1. /\ n \in Nat \ {0} /\ next \in Seq(Seq(HeadSet)) /\ Len(next) = n /\ Len(heads) \in Nat
      /\ \A i \in 1..n : index[i] \in Nat
  <2>1. index \in Seq(Nat) /\ index # <<>> /\ next \in Seq(Seq(HeadSet)) /\ Len(next) = n
    BY DEF ThreadsOk
  <2>2. n \in Nat \ {0}
    BY <2>1
  <2>3. \A i \in 1..n : index[i] \in Nat
    BY <2>1
  <2> QED
    BY <2>1, <2>2, <2>3
<1>2. \A i \in 1..n : IsInjective(next[i]) /\ Range(next[i]) = Found(type, base, heads, index, t, i)
  BY DEF ThreadsOk
<1>3. \A i \in 1..n : Grown(heads, index, i) = {k \in 1..Len(heads) : k % n = i % n}
  <2> SUFFICES ASSUME NEW i \in 1..n
               PROVE  Grown(heads, index, i) = {k \in 1..Len(heads) : k % n = i % n}
    OBVIOUS
  <2>1. \A k \in 1..Len(heads) : k < index[i]
    BY <1>1 DEF Past
  <2> QED
    BY <2>1 DEF Grown
<1> HIDE DEF n
<1>4. \A i \in 1..n : \A h : h \in Range(next[i]) <=>
                               \E k \in 1..Len(heads) : k % n = i % n /\ h \in S(k)
  <2> SUFFICES ASSUME NEW i \in 1..n, NEW h
               PROVE  h \in Range(next[i]) <=> \E k \in 1..Len(heads) : k % n = i % n /\ h \in S(k)
    OBVIOUS
  <2>1. h \in Range(next[i]) <=> \E k \in Grown(heads, index, i) : h \in S(k)
    BY <1>2 DEF Found
  <2> QED
    BY <1>3, <2>1
<1>5. \A i, j \in 1..n : i # j => Range(next[i]) \cap Range(next[j]) = {}
  <2> SUFFICES ASSUME NEW i \in 1..n, NEW j \in 1..n, NEW h \in Range(next[i]), h \in Range(next[j])
               PROVE  i = j
    OBVIOUS
  <2>1. PICK k \in 1..Len(heads) : k % n = i % n /\ h \in S(k)
    BY <1>4
  <2>2. PICK l \in 1..Len(heads) : l % n = j % n /\ h \in S(l)
    BY <1>4
  <2>3. h.parent = base + k /\ h.parent = base + l
    BY <2>1, <2>2, SproutsParent
  <2>4. k = l
    BY <2>3
  <2>5. i % n = j % n
    BY <2>1, <2>2, <2>4
  <2>6. i \in Nat /\ j \in Nat /\ i < j + n /\ j < i + n
    BY <1>1
  <2>7. CASE i <= j
    BY <1>1, <2>5, <2>6, <2>7, SameRemainder
  <2>8. CASE j <= i
    BY <1>1, <2>5, <2>6, <2>8, SameRemainder
  <2> QED
    BY <2>6, <2>7, <2>8
<1>6. IsInjective(FlattenSeq(next)) /\ FlattenSeq(next) \in Seq(HeadSet)
  BY <1>1, <1>2, <1>5, Flattened, FlattenedInjective
<1>7. Range(FlattenSeq(next)) = UNION {Range(next[i]) : i \in 1..n}
  BY <1>1, FlattenedRange
<1>8. ASSUME NEW h
      PROVE  h \in Range(FlattenSeq(next)) <=> \E k \in 1..Len(heads) : h \in S(k)
  <2>1. ASSUME h \in Range(FlattenSeq(next)) PROVE \E k \in 1..Len(heads) : h \in S(k)
    <3>1. PICK i \in 1..n : h \in Range(next[i])
      BY <1>7, <2>1
    <3> QED
      BY <1>4, <3>1
  <2>2. ASSUME NEW k \in 1..Len(heads), h \in S(k) PROVE h \in Range(FlattenSeq(next))
    <3>1. k \in Nat
      OBVIOUS
    <3>2. PICK i \in 1..n : k % n = i % n
      BY <1>1, <3>1, SomeThread
    <3>3. h \in Range(next[i])
      BY <1>4, <2>2, <3>2
    <3> QED
      BY <1>7, <3>3
  <2> QED
    BY <2>1, <2>2
<1> QED
  BY <1>6, <1>8

(* The nodes with those of new heads behind them. *)
Joined(nodes, new) ==
  nodes \o [i \in DOMAIN new |-> [parent |-> new[i].parent, wire_id |-> new[i].wire_id]]

(* The nodes of a search with those of a level more. *)
LEMMA JoinedNodes ==
  ASSUME NEW nodes, Nodes(nodes), NEW t, Trails(nodes, t), NEW new \in Seq(HeadSet),
         \A i \in 1..Len(new) : new[i].parent \in 1..Len(nodes)
  PROVE  /\ Nodes(Joined(nodes, new)) /\ Len(Joined(nodes, new)) = Len(nodes) + Len(new)
         /\ \A i \in 1..Len(nodes) : Joined(nodes, new)[i] = nodes[i]
         /\ \A i \in 1..Len(new) :
              /\ Joined(nodes, new)[Len(nodes) + i].parent = new[i].parent
              /\ Joined(nodes, new)[Len(nodes) + i].wire_id = new[i].wire_id
         /\ \E t2 : /\ Trails(Joined(nodes, new), t2)
                    /\ \A i \in 1..Len(nodes) : t2[i] = t[i]
                    /\ \A i \in 1..Len(new) :
                         t2[Len(nodes) + i] = Append(t[new[i].parent], new[i].wire_id)
<1> DEFINE all == Joined(nodes, new)
           m == Len(nodes)
           more == [i \in DOMAIN new |-> [parent |-> new[i].parent, wire_id |-> new[i].wire_id]]
<1>1. /\ nodes \in Seq(NodeSet) /\ m \in Nat /\ m >= 1 /\ nodes[1].parent = 0
      /\ \A p \in 2..m : nodes[p].parent \in 1..(p - 1)
  BY DEF Nodes
<1>2. \A i \in 1..Len(new) : new[i].parent \in Nat /\ new[i].wire_id \in Nat
  <2> SUFFICES ASSUME NEW i \in 1..Len(new) PROVE new[i].parent \in Nat /\ new[i].wire_id \in Nat
    OBVIOUS
  <2>1. new[i] \in HeadSet
    OBVIOUS
  <2> QED
    BY <2>1 DEF HeadSet
<1>3. more \in Seq(NodeSet) /\ Len(more) = Len(new) /\ Len(new) \in Nat /\ DOMAIN new = 1..Len(new)
  <2>1. DOMAIN new = 1..Len(new) /\ Len(new) \in Nat
    OBVIOUS
  <2>2. \A i \in 1..Len(new) : [parent |-> new[i].parent, wire_id |-> new[i].wire_id] \in NodeSet
    BY <1>2 DEF NodeSet
  <2> DEFINE R(i) == [parent |-> new[i].parent, wire_id |-> new[i].wire_id]
  <2>3. more = [i \in 1..Len(new) |-> R(i)] /\ \A i \in 1..Len(new) : R(i) \in NodeSet
    BY <2>1, <2>2
  <2> HIDE DEF R, more
  <2>4. more \in Seq(NodeSet) /\ Len(more) = Len(new)
    BY <2>1, <2>3
  <2> QED
    BY <2>1, <2>4
<1>4. \A i \in 1..Len(new) : more[i].parent = new[i].parent /\ more[i].wire_id = new[i].wire_id
  BY <1>3
<1>5. all = nodes \o more
  BY DEF Joined
<1> HIDE DEF all, m, more
<1>6. /\ all \in Seq(NodeSet) /\ Len(all) = m + Len(new)
      /\ \A i \in 1..m : all[i] = nodes[i]
      /\ \A i \in 1..Len(new) : all[m + i] = more[i]
  <2>1. /\ nodes \o more \in Seq(NodeSet) /\ Len(nodes \o more) = Len(nodes) + Len(more)
        /\ \A j \in 1..Len(nodes) : (nodes \o more)[j] = nodes[j]
        /\ \A j \in 1..Len(more) : (nodes \o more)[Len(nodes) + j] = more[j]
    <3>1. nodes \in Seq(NodeSet) /\ more \in Seq(NodeSet)
      BY <1>1, <1>3
    <3> QED
      BY <3>1
  <2> QED
    BY <1>3, <1>5, <2>1 DEF m
<1>7. \A p \in 1..(m + Len(new)) : p \notin 1..m => p - m \in 1..Len(new) /\ p = m + (p - m)
  BY <1>1, <1>3
<1>8. Nodes(all)
  <2>1. all[1].parent = 0
    <3>1. 1 \in 1..m
      BY <1>1
    <3> QED
      BY <1>1, <1>6, <3>1
  <2>2. ASSUME NEW p \in 2..Len(all) PROVE all[p].parent \in 1..(p - 1)
    <3>1. CASE p \in 1..m
      BY <1>1, <1>6, <3>1
    <3>2. CASE p \notin 1..m
      <4>1. p - m \in 1..Len(new) /\ p = m + (p - m)
        BY <1>6, <1>7, <3>2
      <4>2. all[p] = more[p - m]
        BY <1>6, <4>1
      <4>3. all[p].parent \in 1..m
        BY <1>4, <4>1, <4>2 DEF m
      <4> QED
        BY <1>1, <4>1, <4>3
    <3> QED
      BY <3>1, <3>2
  <2> QED
    BY <1>1, <1>3, <1>6, <2>1, <2>2 DEF Nodes
<1> DEFINE t2 == [p \in 1..Len(all) |->
                    IF p \in 1..m THEN t[p] ELSE Append(t[new[p - m].parent], new[p - m].wire_id)]
<1>9. \A i \in 1..m : t[i] \in Seq(Nat)
  BY DEF Trails, m
<1>10. /\ \A p \in 1..m : t2[p] = t[p]
       /\ \A i \in 1..Len(new) : t2[m + i] = Append(t[new[i].parent], new[i].wire_id)
  <2>1. \A p \in 1..m : p \in 1..Len(all)
    BY <1>1, <1>3, <1>6
  <2>2. \A i \in 1..Len(new) : m + i \in 1..Len(all) /\ m + i \notin 1..m /\ (m + i) - m = i
    BY <1>1, <1>3, <1>6
  <2> QED
    BY <2>1, <2>2
<1>11. t2 \in [1..Len(all) -> Seq(Nat)]
  <2> SUFFICES ASSUME NEW p \in 1..Len(all)
               PROVE  (IF p \in 1..m THEN t[p] ELSE Append(t[new[p - m].parent], new[p - m].wire_id))
                        \in Seq(Nat)
    OBVIOUS
  <2>1. CASE p \in 1..m
    BY <1>9, <2>1
  <2>2. CASE p \notin 1..m
    <3>1. p - m \in 1..Len(new)
      BY <1>6, <1>7, <2>2
    <3>2. t[new[p - m].parent] \in Seq(Nat) /\ new[p - m].wire_id \in Nat
      BY <1>2, <1>9, <3>1 DEF m
    <3> QED
      BY <2>2, <3>2
  <2> QED
    BY <2>1, <2>2
<1> HIDE DEF t2
<1>12. Trails(all, t2)
  <2>1. t2[1] = <<all[1].wire_id>>
    <3>1. 1 \in 1..m
      BY <1>1
    <3>2. t[1] = <<nodes[1].wire_id>>
      BY DEF Trails
    <3> QED
      BY <1>6, <1>10, <3>1, <3>2
  <2>2. ASSUME NEW p \in 2..Len(all) PROVE t2[p] = Append(t2[all[p].parent], all[p].wire_id)
    <3>1. CASE p \in 1..m
      <4>1. nodes[p].parent \in 1..m /\ p \in 2..m /\ all[p] = nodes[p]
        BY <1>1, <1>6, <3>1
      <4>2. t[p] = Append(t[nodes[p].parent], nodes[p].wire_id)
        BY <4>1 DEF Trails, m
      <4> QED
        BY <1>10, <3>1, <4>1, <4>2
    <3>2. CASE p \notin 1..m
      <4>1. p - m \in 1..Len(new) /\ p = m + (p - m)
        BY <1>6, <1>7, <3>2
      <4> DEFINE i == p - m
      <4>2. all[p].parent = new[i].parent /\ all[p].wire_id = new[i].wire_id
        BY <1>4, <1>6, <4>1
      <4>3. t2[p] = Append(t[new[i].parent], new[i].wire_id)
        BY <1>10, <4>1
      <4>4. new[i].parent \in 1..m
        BY <4>1 DEF m
      <4> HIDE DEF i
      <4>5. t2[all[p].parent] = t[new[i].parent]
        BY <1>10, <4>2, <4>4
      <4> QED
        BY <4>2, <4>3, <4>5
    <3> QED
      BY <3>1, <3>2
  <2> QED
    BY <1>11, <2>1, <2>2 DEF Trails
<1> QED
  BY <1>4, <1>6, <1>8, <1>10, <1>12 DEF all, m

(* The new heads of the threads are the next level. *)
LEMMA JoinLevel ==
  ASSUME NEW type, TypeOk(type), NEW start \in outbound_only_wires(type), NEW n \in Nat, n >= 1,
         NEW nodes, NEW base, NEW heads, NEW t, LevelOk(type, start, nodes, base, heads, n, t),
         NEW next, NEW index, ThreadsOk(type, base, heads, next, index, t),
         Past(heads, index)
  PROVE  \E t2 : LevelOk(type, start, Joined(nodes, FlattenSeq(next)), Len(nodes),
                         FlattenSeq(next), n + 1, t2)
<1> DEFINE new == FlattenSeq(next)
           all == Joined(nodes, new)
           m == Len(nodes)
<1>1. /\ Nodes(nodes) /\ Trails(nodes, t) /\ base \in Nat /\ heads \in Seq(HeadSet)
      /\ m = base + Len(heads)
      /\ \A k \in 1..Len(heads) : t[base + k] \in Live(type, start, n)
      /\ \A w \in Live(type, start, n) : \E k \in 1..Len(heads) : w = t[base + k]
      /\ \A k, l \in 1..Len(heads) : t[base + k] = t[base + l] => k = l
  BY DEF LevelOk
<1>2. /\ new \in Seq(HeadSet) /\ IsInjective(new)
      /\ \A h : h \in Range(new) <=>
                  \E k \in 1..Len(heads) : h \in Sprouts(type, t[base + k], base + k)
  <2>1. base \in Nat /\ heads \in Seq(HeadSet) /\ ThreadsOk(type, base, heads, next, index, t)
    BY <1>1
  <2> QED
    <3>1. new \in Seq(HeadSet) /\ IsInjective(new)
      BY <2>1, AllFound
    <3>2. \A h : h \in Range(new) <=>
                  \E k \in 1..Len(heads) : h \in Sprouts(type, t[base + k], base + k)
      <4> SUFFICES ASSUME NEW h
                   PROVE  h \in Range(new) <=>
                            \E k \in 1..Len(heads) : h \in Sprouts(type, t[base + k], base + k)
        OBVIOUS
      <4> QED
        BY <2>1, AllFound
    <3> QED
      BY <3>1, <3>2
<1> HIDE DEF new
<1>3. \A i \in 1..Len(new) : new[i] \in Range(new) /\ i \in DOMAIN new
  BY <1>2 DEF Range
<1>4. ASSUME NEW i \in 1..Len(new)
      PROVE  \E k \in 1..Len(heads) :
               /\ new[i].parent = base + k /\ base + k \in 1..m
               /\ new[i].wire_id \in Ways(type, t[base + k]) /\ ~Ends(type, t[base + k])
               /\ new[i] = NewHead(type, t[base + k], base + k, new[i].wire_id)
  <2>1. PICK k \in 1..Len(heads) : new[i] \in Sprouts(type, t[base + k], base + k)
    BY <1>2, <1>3
  <2>2. base + k \in 1..m
    BY <1>1
  <2> QED
    BY <2>1, <2>2, SproutsParent
<1>5. /\ Nodes(all) /\ Len(all) = m + Len(new)
      /\ \E t2 : /\ Trails(all, t2)
                 /\ \A i \in 1..Len(new) : t2[m + i] = Append(t[new[i].parent], new[i].wire_id)
  <2>1. \A i \in 1..Len(new) : new[i].parent \in 1..m
    BY <1>4
  <2>2. Nodes(nodes) /\ Trails(nodes, t) /\ new \in Seq(HeadSet)
    BY <1>1, <1>2
  <2>3. Nodes(all) /\ Len(all) = m + Len(new)
    BY <2>1, <2>2, JoinedNodes
  <2>4. \E t2 : /\ Trails(Joined(nodes, new), t2)
                /\ \A i \in 1..Len(nodes) : t2[i] = t[i]
                /\ \A i \in 1..Len(new) :
                     t2[Len(nodes) + i] = Append(t[new[i].parent], new[i].wire_id)
    <3>1. \A i \in 1..Len(new) : new[i].parent \in 1..Len(nodes)
      BY <2>1
    <3> HIDE DEF all, m
    <3> QED
      BY <2>2, <3>1, JoinedNodes, SMTT(30)
  <2> QED
    BY <2>3, <2>4
<1>6. PICK t2 : /\ Trails(all, t2)
                /\ \A i \in 1..Len(new) : t2[m + i] = Append(t[new[i].parent], new[i].wire_id)
  BY <1>5
<1>7. /\ \A v \in Live(type, start, n + 1) : \E w \in Live(type, start, n) :
              ~Ends(type, w) /\ \E x \in Ways(type, w) : v = Append(w, x)
      /\ \A w \in Live(type, start, n) : ~Ends(type, w) =>
              \A x \in Ways(type, w) : Append(w, x) \in Live(type, start, n + 1)
  BY LiveGrows
<1>8. ASSUME NEW i \in 1..Len(new)
      PROVE  t2[m + i] \in Live(type, start, n + 1) /\ Knows(type, t2[m + i], new[i])
  <2>1. PICK k \in 1..Len(heads) :
               /\ new[i].parent = base + k
               /\ new[i].wire_id \in Ways(type, t[base + k]) /\ ~Ends(type, t[base + k])
               /\ new[i] = NewHead(type, t[base + k], base + k, new[i].wire_id)
    BY <1>4
  <2> DEFINE w == t[base + k]
             x == new[i].wire_id
  <2>2. t2[m + i] = Append(w, x) /\ w \in Live(type, start, n)
    BY <1>1, <1>6, <2>1
  <2>3. w \in Seq(Nat) /\ Len(w) = n
    BY <2>2, LiveWalk
  <2>4. x \in Nat
    BY <2>1, <2>3, FreshIsSmall DEF Ways
  <2> HIDE DEF w, x
  <2>5. t2[m + i] \in Live(type, start, n + 1)
    BY <1>7, <2>1, <2>2 DEF w, x
  <2>6. Append(w, x)[Len(Append(w, x))] = x
    BY <2>3, <2>4, Appended
  <2>7. Knows(type, Append(w, x), new[i])
    <3>1. Ends(type, Append(w, x)) <=> x \in inbound_only_wires(type)
      BY <2>6 DEF Ends
    <3>2. new[i].wire_id = x
      BY DEF x
    <3>3. x \notin inbound_only_wires(type) =>
            new[i].all_reachable = Reach(type, Append(w, x))
            /\ new[i].head_reachable = Fresh(type, Append(w, x))
      <4>1. new[i] = NewHead(type, w, base + k, x)
        BY <2>1 DEF w, x
      <4> QED
        BY <4>1 DEF NewHead
    <3> QED
      BY <2>6, <3>1, <3>2, <3>3 DEF Knows
  <2> QED
    BY <2>2, <2>5, <2>7
<1>9. ASSUME NEW v \in Live(type, start, n + 1) PROVE \E i \in 1..Len(new) : v = t2[m + i]
  <2>1. PICK w \in Live(type, start, n) : ~Ends(type, w) /\ \E x \in Ways(type, w) : v = Append(w, x)
    BY <1>7
  <2>2. PICK x \in Ways(type, w) : v = Append(w, x)
    BY <2>1
  <2>3. PICK k \in 1..Len(heads) : w = t[base + k]
    BY <1>1
  <2> DEFINE h == NewHead(type, w, base + k, x)
  <2>4. h \in Sprouts(type, t[base + k], base + k)
    BY <2>1, <2>2, <2>3 DEF Sprouts
  <2>5. h \in Range(new)
    BY <1>2, <2>4
  <2>6. PICK i \in 1..Len(new) : h = new[i]
    BY <1>2, <2>5 DEF Range
  <2>7. new[i].parent = base + k /\ new[i].wire_id = x
    <3>1. h.parent = base + k /\ h.wire_id = x
      BY DEF NewHead
    <3> QED
      BY <2>6, <3>1
  <2> QED
    BY <1>6, <2>2, <2>3, <2>7
<1>10. ASSUME NEW i \in 1..Len(new), NEW j \in 1..Len(new), t2[m + i] = t2[m + j] PROVE i = j
  <2>1. PICK k \in 1..Len(heads) :
               /\ new[i].parent = base + k
               /\ new[i].wire_id \in Ways(type, t[base + k])
               /\ new[i] = NewHead(type, t[base + k], base + k, new[i].wire_id)
    BY <1>4
  <2>2. PICK l \in 1..Len(heads) :
               /\ new[j].parent = base + l
               /\ new[j].wire_id \in Ways(type, t[base + l])
               /\ new[j] = NewHead(type, t[base + l], base + l, new[j].wire_id)
    BY <1>4
  <2> DEFINE w == t[base + k]
             v == t[base + l]
             x == new[i].wire_id
             y == new[j].wire_id
  <2>3. w \in Live(type, start, n) /\ v \in Live(type, start, n)
    BY <1>1
  <2>4. w \in Seq(Nat) /\ Len(w) = n /\ v \in Seq(Nat) /\ Len(v) = n
    BY <2>3, LiveWalk
  <2>5. x \in Nat /\ y \in Nat
    BY <2>1, <2>2, <2>4, FreshIsSmall DEF Ways
  <2>6. Append(w, x) = Append(v, y)
    BY <1>6, <1>10, <2>1, <2>2
  <2> HIDE DEF w, v, x, y
  <2>7. x = y
    <3>1. Append(w, x)[n + 1] = x /\ Append(v, y)[n + 1] = y
      BY <2>4, <2>5, Appended
    <3> QED
      BY <2>6, <3>1
  <2>8. w = v
    <3>1. (\A a \in 1..n : Append(w, x)[a] = w[a]) /\ (\A a \in 1..n : Append(v, y)[a] = v[a])
      BY <2>4, <2>5, Appended
    <3>2. \A a \in 1..n : w[a] = v[a]
      BY <2>6, <3>1
    <3> QED
      BY <2>4, <3>2
  <2>9. k = l
    BY <1>1, <2>8 DEF w, v
  <2>10. new[i] = new[j]
    BY <2>1, <2>2, <2>7, <2>9 DEF x, y
  <2> QED
    BY <1>2, <1>3, <2>10 DEF IsInjective
<1>11. m \in Nat
  BY <1>1
<1>12. LevelOk(type, start, all, m, new, n + 1, t2)
  BY <1>2, <1>5, <1>6, <1>8, <1>9, <1>10, <1>11 DEF LevelOk
<1> QED
  BY <1>12 DEF new

(* The wires of a walk between its ends, from the last to the first. *)
InnerPath(w) == [i \in 1..(Len(w) - 2) |-> w[Len(w) - i]]

Rung(all, head, p) ==
  IF all[p].wire_id = all[head].wire_id THEN <<>> ELSE <<all[p].wire_id>>
Ascent(all, head) ==
  CHOOSE up : up = [p \in 1..Len(all) |->
                IF p = 1 THEN <<>> ELSE Rung(all, head, p) \o up[all[p].parent]]

(* The way up to the root is what its recursion describes. *)
LEMMA AscentRecursion ==
  ASSUME NEW all, Nodes(all), NEW head
  PROVE  \A p \in 1..Len(all) : Ascent(all, head)[p] =
           IF p = 1 THEN <<>> ELSE Rung(all, head, p) \o Ascent(all, head)[all[p].parent]
<1> DEFINE D(f, i) == IF i = 1 THEN <<>> ELSE Rung(all, head, i) \o f[all[i].parent]
           Is(f, n) == f = [i \in 1..n |-> D(f, i)]
           T == {n \in Nat : n <= Len(all) => \E f : Is(f, n)}
<1>0. Len(all) \in Nat
  BY DEF Nodes
<1>p. \A i \in 2..Len(all) : all[i].parent \in 1..(i - 1)
  BY DEF Nodes
<1>1. 0 \in T
  <2> DEFINE g == [i \in 1..0 |-> <<>>]
  <2>1. Is(g, 0)
    <3> DEFINE E(i) == D(g, i)
    <3> HIDE DEF E
    <3>1. \A i \in 1..0 : <<>> = E(i)
      OBVIOUS
    <3>2. [i \in 1..0 |-> <<>>] = [i \in 1..0 |-> E(i)]
      BY <3>1
    <3> QED
      BY <3>2 DEF E
  <2> HIDE DEF Is, g
  <2> QED
    BY <2>1
<1>2. ASSUME NEW n \in Nat, n \in T PROVE n + 1 \in T
  <2> HIDE DEF Is
  <2> SUFFICES ASSUME n + 1 <= Len(all) PROVE \E f : Is(f, n + 1)
    OBVIOUS
  <2> USE DEF Is
  <2>0. n <= Len(all)
    BY <1>0
  <2>1. PICK f : Is(f, n)
    <3> HIDE DEF Is
    <3> QED
      BY <1>2, <2>0
  <2> DEFINE g == [i \in 1..(n + 1) |-> IF i = n + 1 THEN D(f, i) ELSE f[i]]
  <2>2. ASSUME NEW i \in 1..(n + 1) PROVE g[i] = D(g, i)
    <3>1. i # 1 => g[all[i].parent] = f[all[i].parent]
      <4> SUFFICES ASSUME i # 1 PROVE g[all[i].parent] = f[all[i].parent]
        OBVIOUS
      <4> DEFINE q == all[i].parent
      <4>1. q \in 1..(i - 1)
        BY <1>0, <1>p
      <4> HIDE DEF q
      <4>2. q \in 1..(n + 1) /\ q # n + 1
        BY <4>1
      <4>3. g[q] = f[q]
        BY <4>2
      <4> QED
        BY <4>3 DEF q
    <3>2. D(g, i) = D(f, i)
      <4> HIDE DEF g
      <4> QED
        BY <3>1
    <3>3. i # n + 1 => f[i] = D(f, i)
      <4> HIDE DEF D
      <4> QED
        BY <2>1
    <3> HIDE DEF D
    <3> QED
      BY <3>2, <3>3
  <2>3. Is(g, n + 1)
    <3> HIDE DEF D
    <3>1. g = [i \in 1..(n + 1) |-> g[i]]
      OBVIOUS
    <3> HIDE DEF g
    <3> QED
      BY <2>2, <3>1
  <2> HIDE DEF Is, g
  <2> QED
    BY <2>3
<1> HIDE DEF T
<1>3. Len(all) \in T
  BY <1>0, <1>1, <1>2, Inductive
<1>4. PICK f : Is(f, Len(all))
  <2> HIDE DEF Is
  <2> QED
    BY <1>0, <1>3 DEF T
<1> DEFINE up == Ascent(all, head)
<1>5. up = [i \in 1..Len(all) |-> D(up, i)]
  BY <1>4, Zenon DEF Ascent
<1> HIDE DEF up, D
<1>6. \A p \in 1..Len(all) : up[p] = D(up, p)
  BY <1>5
<1> QED
  BY <1>6 DEF up, D

(* The path stored for a head is what is between the ends of its walk. *)
LEMMA WirePathIs ==
  ASSUME NEW all, Nodes(all), NEW t, Trails(all, t), NEW head \in 2..Len(all),
         IsInjective(t[head])
  PROVE  WirePath(all, head) = InnerPath(t[head])
<1> DEFINE up == Ascent(all, head)
           x == all[head].wire_id
           X(i) == Rung(all, head, i)
           Free(u) == \A i \in 2..Len(u) : u[i] # x
           Back(u) == [i \in 1..(Len(u) - 1) |-> u[Len(u) + 1 - i]]
           T == {n \in Nat : \A p \in 1..Len(all) : p <= n => (Free(t[p]) => up[p] = Back(t[p]))}
<1>0. Len(all) \in Nat /\ \A p \in 2..Len(all) : all[p].parent \in 1..(p - 1)
  BY DEF Nodes
<1>1. \A p \in 1..Len(all) : up[p] = IF p = 1 THEN <<>> ELSE X(p) \o up[all[p].parent]
  BY AscentRecursion
<1>2. WirePath(all, head) = up[head]
  BY DEF WirePath, Ascent, Rung
<1>x. x \in Nat /\ \A p \in 1..Len(all) : t[p] \in Seq(Nat) /\ all[p].wire_id \in Nat /\ Len(t[p]) >= 1
  <2>1. head \in 1..Len(all)
    BY <1>0
  <2> QED
    BY <2>1, TrailLast
<1>t. \A p \in 2..Len(all) : t[p] = Append(t[all[p].parent], all[p].wire_id)
  BY DEF Trails
<1> HIDE DEF up, x
<1>3. 0 \in T
  BY <1>0
<1>4. ASSUME NEW n \in Nat, n \in T PROVE n + 1 \in T
  <2> SUFFICES ASSUME NEW p \in 1..Len(all), p = n + 1, Free(t[p]) PROVE up[p] = Back(t[p])
    <3>1. \A p \in 1..Len(all) : p <= n + 1 => p <= n \/ p = n + 1
      BY <1>0
    <3> HIDE DEF Free, Back
    <3> QED
      BY <1>4, <3>1
  <2>1. CASE p = 1
    <3>1. t[p] = <<all[1].wire_id>>
      BY <2>1 DEF Trails
    <3>2. Len(t[p]) = 1
      BY <3>1
    <3>3. up[p] = <<>>
      BY <1>1, <2>1
    <3>4. Back(t[p]) = <<>>
      BY <3>2
    <3> QED
      BY <3>3, <3>4
  <2>2. CASE p # 1
    <3> DEFINE q == all[p].parent
               u == t[q]
               y == all[p].wire_id
    <3>1. p \in 2..Len(all) /\ q \in 1..n /\ q \in 1..Len(all)
      BY <1>0, <2>2
    <3>2. t[p] = Append(u, y) /\ u \in Seq(Nat) /\ y \in Nat /\ Len(u) >= 1
      BY <1>t, <1>x, <3>1
    <3>3. up[p] = X(p) \o up[q]
      BY <1>1, <2>2
    <3> HIDE DEF q
    <3>4. Free(u) => up[q] = Back(u)
      <4> HIDE DEF Free, Back
      <4>1. q <= n
        BY <3>1
      <4> QED
        BY <1>4, <3>1, <4>1
    <3> DEFINE v == t[p]
    <3> HIDE DEF u, y
    <3>5. /\ v \in Seq(Nat) /\ Len(v) = Len(u) + 1 /\ v[Len(u) + 1] = y
          /\ \A i \in 1..Len(u) : v[i] = u[i]
      BY <3>2, Appended
    <3>6. Free(v)
      OBVIOUS
    <3> HIDE DEF v
    <3>7. y # x
      <4>1. Len(u) + 1 \in 2..Len(v)
        BY <3>2, <3>5
      <4> QED
        BY <3>5, <3>6, <4>1
    <3>8. Free(u)
      <4> SUFFICES ASSUME NEW i \in 2..Len(u) PROVE u[i] # x
        OBVIOUS
      <4>1. i \in 2..Len(v) /\ i \in 1..Len(u)
        BY <3>2, <3>5
      <4> QED
        BY <3>5, <3>6, <4>1
    <3>9. up[p] = <<y>> \o Back(u)
      <4>1. X(p) = <<y>>
        BY <3>7 DEF y, x, Rung
      <4> HIDE DEF X, Free, Back
      <4> QED
        BY <3>3, <3>4, <3>8, <4>1
    <3>10. <<y>> \o Back(u) = Back(v)
      <4> DEFINE b == Back(u)
      <4>1. b \in Seq(Nat) /\ Len(b) = Len(u) - 1 /\ \A i \in 1..(Len(u) - 1) : b[i] = u[Len(u) + 1 - i]
        <5>1. \A i \in 1..(Len(u) - 1) : u[Len(u) + 1 - i] \in Nat
          BY <3>2
        <5> QED
          BY <3>2, <5>1
      <4> DEFINE c == Back(v)
      <4>2. c \in Seq(Nat) /\ Len(c) = Len(u) /\ \A i \in 1..Len(u) : c[i] = v[Len(u) + 2 - i]
        <5>1. Len(v) - 1 = Len(u) /\ \A i \in 1..Len(u) : Len(v) + 1 - i = Len(u) + 2 - i
          BY <3>2, <3>5
        <5>2. ASSUME NEW i \in 1..Len(u) PROVE v[Len(u) + 2 - i] \in Nat
          <6> DEFINE k == Len(u) + 2 - i
          <6>1. k \in 1..Len(v)
            BY <3>2, <3>5
          <6>2. v \in Seq(Nat)
            BY <3>2, <3>5
          <6> HIDE DEF k
          <6>3. v[k] \in Nat
            BY <6>1, <6>2
          <6> QED
            BY <6>3 DEF k
        <5>3. c = [i \in 1..Len(u) |-> v[Len(u) + 2 - i]]
          BY <5>1
        <5> HIDE DEF c
        <5> QED
          BY <3>2, <5>2, <5>3
      <4> HIDE DEF b, c
      <4>3. /\ <<y>> \o b \in Seq(Nat) /\ Len(<<y>> \o b) = Len(u) /\ (<<y>> \o b)[1] = y
            /\ \A i \in 2..Len(u) : (<<y>> \o b)[i] = b[i - 1]
        BY <3>2, <4>1
      <4>4. c[1] = y
        <5>1. 1 \in 1..Len(u) /\ Len(u) + 2 - 1 = Len(u) + 1
          BY <3>2
        <5> QED
          BY <3>5, <4>2, <5>1
      <4>5. ASSUME NEW i \in 2..Len(u) PROVE c[i] = b[i - 1]
        <5>1. i \in 1..Len(u) /\ i - 1 \in 1..(Len(u) - 1) /\ Len(u) + 1 - (i - 1) = Len(u) + 2 - i
              /\ Len(u) + 2 - i \in 1..Len(u)
          BY <3>2
        <5>2. c[i] = v[Len(u) + 2 - i] /\ b[i - 1] = u[Len(u) + 1 - (i - 1)]
          BY <4>1, <4>2, <5>1
        <5> QED
          BY <3>5, <5>1, <5>2
      <4>6. \A i \in 1..Len(u) : c[i] = (<<y>> \o b)[i]
        BY <4>3, <4>4, <4>5
      <4> DEFINE d == <<y>> \o b
      <4> HIDE DEF d
      <4>7. c = d
        <5>1. d \in Seq(Nat) /\ Len(d) = Len(u) /\ \A i \in 1..Len(u) : c[i] = d[i]
          BY <4>3, <4>6 DEF d
        <5>2. c \in Seq(Nat) /\ Len(c) = Len(u)
          BY <4>2
        <5>3. Len(u) \in Nat
          BY <3>2
        <5> DEFINE N == Len(u)
        <5>4. N \in Nat /\ d \in Seq(Nat) /\ c \in Seq(Nat) /\ Len(c) = N /\ Len(d) = N
              /\ \A i \in 1..N : c[i] = d[i]
          BY <5>1, <5>2, <5>3
        <5> HIDE DEF N
        <5> QED
          BY <5>4
      <4> QED
        BY <4>7 DEF b, c, d
    <3> QED
      BY <3>9, <3>10 DEF v
  <2> QED
    BY <2>1, <2>2
<1> DEFINE q == all[head].parent
           u == t[q]
           v == t[head]
<1>5. q \in 1..Len(all) /\ head \in 1..Len(all) /\ head # 1
  BY <1>0
<1>6. v = Append(u, x) /\ u \in Seq(Nat) /\ Len(u) >= 1
  BY <1>t, <1>x, <1>5 DEF x
<1>7. up[head] = <<>> \o up[q]
  <2>1. X(head) = <<>>
    BY DEF Rung
  <2> QED
    BY <1>1, <1>5, <2>1
<1>8. Free(u) => up[q] = Back(u)
  <2>1. q \in T
    <3>1. q \in Nat
      BY <1>5
    <3> HIDE DEF T
    <3> QED
      BY <1>3, <1>4, <3>1, Inductive
  <2>2. q <= q
    BY <1>5
  <2> HIDE DEF Free, Back, q
  <2> QED
    BY <1>5, <2>1, <2>2
<1>9. IsInjective(v)
  OBVIOUS
<1> HIDE DEF q, u, v
<1>10. /\ v \in Seq(Nat) /\ Len(v) = Len(u) + 1 /\ v[Len(u) + 1] = x
       /\ \A i \in 1..Len(u) : v[i] = u[i]
  BY <1>6, <1>x, Appended
<1>11. Free(u)
  <2> SUFFICES ASSUME NEW i \in 2..Len(u), u[i] = x PROVE FALSE
    OBVIOUS
  <2>1. i \in DOMAIN v /\ Len(u) + 1 \in DOMAIN v /\ v[i] = v[Len(u) + 1] /\ i # Len(u) + 1
    BY <1>6, <1>10
  <2> QED
    BY <1>9, <2>1 DEF IsInjective
<1>12. Back(u) = InnerPath(v)
  <2>1. Len(v) - 2 = Len(u) - 1
    BY <1>6, <1>10
  <2>2. ASSUME NEW i \in 1..(Len(u) - 1) PROVE u[Len(u) + 1 - i] = v[Len(v) - i]
    <3>1. Len(u) + 1 - i \in 1..Len(u) /\ Len(v) - i = Len(u) + 1 - i
      BY <1>6, <1>10
    <3> QED
      BY <1>10, <3>1
  <2> QED
    BY <2>1, <2>2 DEF InnerPath
<1>13. Back(u) \in Seq(Nat)
  <2>1. \A i \in 1..(Len(u) - 1) : u[Len(u) + 1 - i] \in Nat
    BY <1>6
  <2> QED
    BY <1>6, <2>1
<1>14. up[head] = Back(u)
  <2> HIDE DEF Back
  <2>1. <<>> \o Back(u) = Back(u)
    BY <1>13
  <2> QED
    BY <1>7, <1>8, <1>11, <2>1
<1> QED
  BY <1>2, <1>12, <1>14 DEF v

(* What a PathContainer holds. *)
Keys == Nat \X Nat \X Nat \X Nat
Kept(c) ==
  /\ c.paths \in Seq(Seq(Nat)) /\ IsInjective(c.paths)
  /\ \A key \in DOMAIN c.wire_pairs :
       /\ key \in Keys
       /\ c.wire_pairs[key] \in Seq(1..Len(c.paths)) /\ c.wire_pairs[key] # <<>>
       /\ IsInjective(c.wire_pairs[key])
       /\ \A i \in 1..Len(c.wire_pairs[key]) : Len(c.paths[c.wire_pairs[key][i]]) = key[4]
  /\ \A id \in 1..Len(c.paths) : \E key \in DOMAIN c.wire_pairs :
       \E i \in 1..Len(c.wire_pairs[key]) : c.wire_pairs[key][i] = id
Has(c, key, path) ==
  /\ key \in DOMAIN c.wire_pairs
  /\ \E i \in 1..Len(c.wire_pairs[key]) : path = c.paths[c.wire_pairs[key][i]]

(* A sequence over a set is one over a larger set. *)
LEMMA Widened ==
  ASSUME NEW S, NEW T, S \subseteq T, NEW w \in Seq(S)
  PROVE  w \in Seq(T)
<1>1. Len(w) \in Nat /\ w = [i \in 1..Len(w) |-> w[i]] /\ \A i \in 1..Len(w) : w[i] \in S
  OBVIOUS
<1>2. \A i \in 1..Len(w) : w[i] \in T
  BY <1>1
<1> QED
  BY <1>1, <1>2

(* A sequence without repetition stays so with a new entry. *)
LEMMA AppendedInjective ==
  ASSUME NEW S, NEW w \in Seq(S), NEW x \in S, IsInjective(w), \A i \in 1..Len(w) : w[i] # x
  PROVE  IsInjective(Append(w, x))
<1> DEFINE v == Append(w, x)
<1>1. /\ v \in Seq(S) /\ Len(v) = Len(w) + 1 /\ v[Len(w) + 1] = x
      /\ \A i \in 1..Len(w) : v[i] = w[i]
  BY Appended
<1>2. DOMAIN v = 1..(Len(w) + 1) /\ DOMAIN w = 1..Len(w) /\ Len(w) \in Nat
  BY <1>1
<1> HIDE DEF v
<1>3. \A i \in 1..(Len(w) + 1) : i \in 1..Len(w) \/ i = Len(w) + 1
  BY <1>2
<1> SUFFICES ASSUME NEW a \in 1..(Len(w) + 1), NEW b \in 1..(Len(w) + 1), v[a] = v[b] PROVE a = b
  BY <1>2 DEF IsInjective, v
<1>4. CASE a \in 1..Len(w) /\ b \in 1..Len(w)
  BY <1>1, <1>2, <1>4 DEF IsInjective
<1>5. CASE a = Len(w) + 1 \/ b = Len(w) + 1
  BY <1>1, <1>3, <1>5
<1> QED
  BY <1>3, <1>4, <1>5

(* set_path gives the pair one path more, under the path's one id. *)
LEMMA SetPath ==
  ASSUME NEW c, Kept(c), NEW key \in Keys, NEW path \in Seq(Nat), Len(path) = key[4],
         ~Has(c, key, path)
  PROVE  /\ Kept(set_path(c, key, path))
         /\ \A k, p : Has(set_path(c, key, path), k, p) <=> Has(c, k, p) \/ (k = key /\ p = path)
<1> DEFINE known == {k \in DOMAIN c.paths : c.paths[k] = path}
           id == IF known = {} THEN Len(c.paths) + 1 ELSE CHOOSE k \in known : TRUE
           ids == IF key \in DOMAIN c.wire_pairs THEN c.wire_pairs[key] ELSE <<>>
           ps == IF known = {} THEN Append(c.paths, path) ELSE c.paths
           wp == [k \in DOMAIN c.wire_pairs \cup {key} |->
                    IF k = key THEN Append(ids, id) ELSE c.wire_pairs[k]]
           d == set_path(c, key, path)
<1>1. d.paths = ps /\ d.wire_pairs = wp
  BY DEF set_path
<1> DEFINE P == c.paths
           W == c.wire_pairs
           n == Len(P)
<1>2. /\ P \in Seq(Seq(Nat)) /\ IsInjective(P)
      /\ \A k \in DOMAIN W : k \in Keys /\ W[k] \in Seq(1..n) /\ W[k] # <<>> /\ IsInjective(W[k])
      /\ \A k \in DOMAIN W : \A i \in 1..Len(W[k]) : Len(P[W[k][i]]) = k[4]
      /\ \A j \in 1..n : \E k \in DOMAIN W : \E i \in 1..Len(W[k]) : W[k][i] = j
  BY DEF Kept
<1>3. n \in Nat /\ DOMAIN P = 1..n
  BY <1>2
<1>4. id \in 1..(n + 1) /\ id \in 1..Len(ps) /\ ps[id] = path /\ ps \in Seq(Seq(Nat))
      /\ (\A k \in 1..n : ps[k] = P[k]) /\ Len(ps) >= n /\ Len(ps) \in Nat /\ IsInjective(ps)
      /\ \A j \in 1..Len(ps) : j \in 1..n \/ j = id
  <2>1. CASE known = {}
    <3>1. id = n + 1 /\ ps = Append(P, path)
      BY <2>1
    <3> HIDE DEF P, ps, id
    <3>2. /\ Append(P, path) \in Seq(Seq(Nat)) /\ Len(Append(P, path)) = n + 1
          /\ Append(P, path)[n + 1] = path /\ \A k \in 1..n : Append(P, path)[k] = P[k]
      BY <1>2, Appended
    <3>3. \A k \in 1..n : P[k] # path
      BY <1>3, <2>1 DEF P
    <3>4. IsInjective(Append(P, path))
      BY <1>2, <3>3, AppendedInjective
    <3> QED
      BY <1>3, <3>1, <3>2, <3>4
  <2>2. CASE known # {}
    <3>1. id \in known /\ ps = P
      BY <2>2
    <3>2. id \in 1..n /\ P[id] = path
      BY <1>3, <3>1
    <3> HIDE DEF P, ps, id
    <3> QED
      BY <1>2, <1>3, <3>1, <3>2
  <2> QED
    BY <2>1, <2>2
<1>5. DOMAIN wp = DOMAIN W \cup {key} /\ wp[key] = Append(ids, id)
      /\ \A k \in DOMAIN W : k # key => wp[k] = W[k]
  <2> HIDE DEF ids, id
  <2> QED
    OBVIOUS
<1>6. ids \in Seq(1..n) /\ IsInjective(ids)
      /\ \A i \in 1..Len(ids) : P[ids[i]] # path /\ Len(P[ids[i]]) = key[4]
  <2>1. CASE key \in DOMAIN W
    <3>1. ids = W[key]
      BY <2>1
    <3>2. \A i \in 1..Len(W[key]) : P[W[key][i]] # path
      BY <2>1 DEF Has
    <3> QED
      BY <1>2, <2>1, <3>1, <3>2
  <2>2. CASE key \notin DOMAIN W
    <3>1. ids = <<>>
      BY <2>2
    <3>2. <<>> \in Seq(1..n) /\ IsInjective(<<>>) /\ Len(<<>>) = 0
      BY DEF IsInjective
    <3> HIDE DEF ids
    <3> QED
      BY <3>1, <3>2
  <2> QED
    BY <2>1, <2>2
<1>w. \A k, p : Has(c, k, p) <=> k \in DOMAIN W /\ \E i \in 1..Len(W[k]) : p = P[W[k][i]]
  BY DEF Has
<1>i. ids = IF key \in DOMAIN W THEN W[key] ELSE <<>>
  OBVIOUS
<1> HIDE DEF id, ids, ps, wp, d, P, W
<1> DEFINE m == Len(ps)
           A == Append(ids, id)
           L == Len(ids)
<1>7. \A i \in 1..L : ids[i] \in 1..n
  BY <1>6
<1>8. \A i \in 1..L : ids[i] # id
  BY <1>4, <1>6, <1>7
<1>9. L \in Nat /\ ids \in Seq(1..m) /\ id \in 1..m
  <2>1. 1..n \subseteq 1..m
    BY <1>3, <1>4
  <2>2. ids \in Seq(1..m)
    BY <1>6, <2>1, Widened
  <2> QED
    BY <1>4, <1>6, <2>2
<1>10. /\ A \in Seq(1..m) /\ Len(A) = L + 1 /\ A[L + 1] = id /\ \A i \in 1..L : A[i] = ids[i]
  BY <1>9, Appended
<1>11. IsInjective(A)
  BY <1>6, <1>8, <1>9, AppendedInjective
<1> HIDE DEF A, L, m
<1>12. \A i \in 1..(L + 1) : i \in 1..L \/ i = L + 1
  BY <1>9
<1>13. \A i \in 1..L : ps[A[i]] = P[ids[i]]
  BY <1>4, <1>7, <1>10
<1>14. ASSUME NEW k \in DOMAIN wp
       PROVE  /\ k \in Keys /\ wp[k] \in Seq(1..m) /\ wp[k] # <<>> /\ IsInjective(wp[k])
              /\ \A i \in 1..Len(wp[k]) : Len(ps[wp[k][i]]) = k[4]
  <2>1. CASE k = key
    <3>1. wp[k] = A
      BY <1>5, <2>1 DEF A
    <3>2. A # <<>>
      BY <1>9, <1>10
    <3>3. ASSUME NEW i \in 1..Len(A) PROVE Len(ps[A[i]]) = key[4]
      <4>1. CASE i = L + 1
        BY <1>4, <1>10, <4>1
      <4>2. CASE i \in 1..L
        BY <1>6, <1>13, <4>2 DEF L
      <4> QED
        BY <1>10, <1>12, <4>1, <4>2
    <3> QED
      BY <1>10, <1>11, <2>1, <3>1, <3>2, <3>3
  <2>2. CASE k # key
    <3>1. k \in DOMAIN W /\ wp[k] = W[k]
      BY <1>5, <2>2
    <3> DEFINE w == W[k]
    <3>2. k \in Keys /\ w \in Seq(1..n) /\ w # <<>> /\ IsInjective(w)
          /\ \A i \in 1..Len(w) : Len(P[w[i]]) = k[4]
      BY <1>2, <3>1
    <3> HIDE DEF w
    <3>3. w \in Seq(1..m)
      <4>1. 1..n \subseteq 1..m
        BY <1>3, <1>4 DEF m
      <4> QED
        BY <3>2, <4>1, Widened
    <3>4. \A i \in 1..Len(w) : w[i] \in 1..n
      BY <3>2
    <3>5. \A i \in 1..Len(w) : Len(ps[w[i]]) = k[4]
      BY <1>4, <3>2, <3>4
    <3> QED
      BY <3>1, <3>2, <3>3, <3>5 DEF w
  <2> QED
    BY <2>1, <2>2
<1>u. ASSUME NEW j \in 1..m
      PROVE  \E k \in DOMAIN wp : \E i \in 1..Len(wp[k]) : wp[k][i] = j
  <2>1. CASE j = id
    <3>1. L + 1 \in 1..(L + 1)
      BY <1>9
    <3> QED
      BY <1>5, <1>10, <2>1, <3>1 DEF A
  <2>2. CASE j \in 1..n
    <3>0. PICK k \in DOMAIN W : \E i \in 1..Len(W[k]) : W[k][i] = j
      BY <1>2, <2>2
    <3>1. PICK i \in 1..Len(W[k]) : W[k][i] = j
      BY <3>0
    <3>2. CASE k = key
      <4>1. ids = W[k] /\ i \in 1..L /\ wp[k] = A /\ k \in DOMAIN wp
        BY <1>5, <1>i, <3>2 DEF A, L
      <4>2. i \in 1..(L + 1) /\ A[i] = j
        BY <1>9, <1>10, <3>1, <4>1
      <4> QED
        BY <1>10, <4>1, <4>2
    <3>3. CASE k # key
      BY <1>5, <3>1, <3>3
    <3> QED
      BY <3>2, <3>3
  <2> QED
    BY <1>4, <2>1, <2>2 DEF m
<1>15. Kept(d)
  BY <1>1, <1>4, <1>14, <1>u DEF Kept, m
<1>16. ASSUME NEW k, NEW p
       PROVE  Has(d, k, p) <=> Has(c, k, p) \/ (k = key /\ p = path)
  <2>0. Has(d, k, p) <=> k \in DOMAIN wp /\ \E i \in 1..Len(wp[k]) : p = ps[wp[k][i]]
    BY <1>1 DEF Has
  <2>1. CASE k = key
    <3>1. wp[k] = A /\ k \in DOMAIN wp
      BY <1>5, <2>1 DEF A
    <3>2. Has(d, k, p) <=> \E i \in 1..(L + 1) : p = ps[A[i]]
      BY <1>10, <2>0, <3>1
    <3>3. L + 1 \in 1..(L + 1) /\ \A i \in 1..L : i \in 1..(L + 1)
      BY <1>9
    <3>4. (\E i \in 1..(L + 1) : p = ps[A[i]]) <=> (\E i \in 1..L : p = P[ids[i]]) \/ p = path
      BY <1>4, <1>10, <1>12, <1>13, <3>3
    <3>5. Has(c, k, p) <=> \E i \in 1..L : p = P[ids[i]]
      <4>1. CASE key \in DOMAIN W
        BY <1>i, <1>w, <2>1, <4>1 DEF L
      <4>2. CASE key \notin DOMAIN W
        <5>1. ~Has(c, k, p)
          BY <1>w, <2>1, <4>2
        <5>2. L = 0
          BY <1>i, <4>2 DEF L
        <5> QED
          BY <5>1, <5>2
      <4> QED
        BY <4>1, <4>2
    <3> QED
      BY <2>1, <3>2, <3>4, <3>5
  <2>2. CASE k # key
    <3>1. k \in DOMAIN wp <=> k \in DOMAIN W
      BY <1>5, <2>2
    <3>2. ASSUME k \in DOMAIN W
          PROVE  (\E i \in 1..Len(wp[k]) : p = ps[wp[k][i]]) <=> (\E i \in 1..Len(W[k]) : p = P[W[k][i]])
      <4>1. wp[k] = W[k] /\ W[k] \in Seq(1..n)
        BY <1>2, <1>5, <2>2, <3>2
      <4>2. \A i \in 1..Len(W[k]) : W[k][i] \in 1..n
        BY <4>1
      <4>3. \A i \in 1..Len(W[k]) : ps[W[k][i]] = P[W[k][i]]
        BY <1>4, <4>2
      <4> QED
        BY <4>1, <4>3
    <3> QED
      BY <1>w, <2>0, <2>2, <3>1, <3>2
  <2> QED
    BY <2>1, <2>2
<1> QED
  BY <1>15, <1>16 DEF d

KeyOf(tt, start, w) == <<tt, start, w[Len(w)], Len(w) - 2>>

(* The paths of the walks of n wires that end. *)
LevelHas(type, tt, start, n, key, path) ==
  \E w \in Live(type, start, n) :
    Ends(type, w) /\ key = KeyOf(tt, start, w) /\ path = InnerPath(w)

(* The path of a walk is the wires between its ends, backwards. *)
LEMMA InnerTyped ==
  ASSUME NEW w \in Seq(Nat), Len(w) >= 2
  PROVE  /\ InnerPath(w) \in Seq(Nat) /\ Len(InnerPath(w)) = Len(w) - 2
         /\ \A i \in 1..(Len(w) - 2) : InnerPath(w)[i] = w[Len(w) - i]
<1> DEFINE n == Len(w)
<1>1. n - 2 \in Nat /\ \A i \in 1..(n - 2) : w[n - i] \in Nat
  OBVIOUS
<1>2. InnerPath(w) = [i \in 1..(n - 2) |-> w[n - i]]
  BY DEF InnerPath
<1> QED
  BY <1>1, <1>2

(* The pair of a walk is a pair. *)
LEMMA KeyTyped ==
  ASSUME NEW tt \in Nat, NEW start \in Nat, NEW w \in Seq(Nat), Len(w) >= 2
  PROVE  /\ KeyOf(tt, start, w) = <<tt, start, w[Len(w)], Len(w) - 2>>
         /\ KeyOf(tt, start, w) \in Keys /\ KeyOf(tt, start, w)[4] = Len(w) - 2
<1> DEFINE a == w[Len(w)]
           b == Len(w) - 2
           k == KeyOf(tt, start, w)
<1>1. k = <<tt, start, a, b>> /\ a \in Nat /\ b \in Nat
  BY DEF KeyOf
<1> HIDE DEF k, a, b
<1>2. k \in Keys /\ k[4] = b
  BY <1>1 DEF Keys
<1> QED
  BY <1>1, <1>2 DEF k, a, b

(* A pair and a path tell the walk. *)
LEMMA EntryTellsWalk ==
  ASSUME NEW tt \in Nat, NEW start \in Nat, NEW n \in Nat, n >= 2,
         NEW v \in Seq(Nat), Len(v) = n, NEW w \in Seq(Nat), Len(w) = n, v[1] = w[1],
         v[n] = w[n], InnerPath(v) = InnerPath(w)
  PROVE  v = w
<1>1. /\ \A i \in 1..(n - 2) : InnerPath(v)[i] = v[n - i]
      /\ \A i \in 1..(n - 2) : InnerPath(w)[i] = w[n - i]
  <2>1. \A i \in 1..(Len(v) - 2) : InnerPath(v)[i] = v[Len(v) - i]
    BY InnerTyped
  <2>2. \A i \in 1..(Len(w) - 2) : InnerPath(w)[i] = w[Len(w) - i]
    BY InnerTyped
  <2> QED
    BY <2>1, <2>2
<1>2. ASSUME NEW j \in 2..(n - 1) PROVE v[j] = w[j]
  <2>1. n - j \in 1..(n - 2) /\ n - (n - j) = j
    OBVIOUS
  <2>2. InnerPath(v)[n - j] = v[n - (n - j)] /\ InnerPath(w)[n - j] = w[n - (n - j)]
    BY <1>1, <2>1
  <2> QED
    BY <2>1, <2>2
<1>3. \A j \in 1..n : j = 1 \/ j = n \/ j \in 2..(n - 1)
  OBVIOUS
<1>4. \A j \in 1..n : v[j] = w[j]
  BY <1>2, <1>3
<1> QED
  BY <1>4

Store(c, all, p) ==
  IF all[p].wire_id \in inbound_only_wires(Type)
  THEN set_path(c, <<tile_type_idx - 1, start_wire_index, all[p].wire_id, depth_i>>,
                WirePath(all, p))
  ELSE c
Current == [paths |-> paths, wire_pairs |-> wire_pairs]
Storing(all, from) ==
  CHOOSE stored : stored = [n \in 0..(Len(all) - from) |->
    IF n = 0 THEN Current ELSE Store(stored[n - 1], all, from + n)]

(* What set_path has stored after n heads is what its recursion describes. *)
LEMMA StoringRecursion ==
  ASSUME NEW all, NEW from, Len(all) - from \in Nat
  PROVE  \A n \in 0..(Len(all) - from) :
           Storing(all, from)[n] =
             IF n = 0 THEN Current ELSE Store(Storing(all, from)[n - 1], all, from + n)
<1> DEFINE D(f, i) == IF i = 0 THEN Current ELSE Store(f[i - 1], all, from + i)
           Is(f, n) == f = [i \in 0..n |-> D(f, i)]
           T == {n \in Nat : \E f : Is(f, n)}
<1>1. 0 \in T
  <2> DEFINE g == [i \in 0..0 |-> Current]
  <2>1. Is(g, 0)
    OBVIOUS
  <2> HIDE DEF Is, g
  <2> QED
    BY <2>1
<1>2. ASSUME NEW n \in Nat, n \in T PROVE n + 1 \in T
  <2>1. PICK f : Is(f, n)
    BY <1>2
  <2> DEFINE g == [i \in 0..(n + 1) |-> IF i = n + 1 THEN D(f, i) ELSE f[i]]
  <2>2. ASSUME NEW i \in 0..(n + 1) PROVE g[i] = D(g, i)
    <3>1. i # 0 => g[i - 1] = f[i - 1]
      OBVIOUS
    <3>2. D(g, i) = D(f, i)
      <4> HIDE DEF g
      <4> QED
        BY <3>1
    <3>3. i # n + 1 => f[i] = D(f, i)
      <4> HIDE DEF D
      <4> QED
        BY <2>1
    <3> HIDE DEF D
    <3> QED
      BY <3>2, <3>3
  <2>3. Is(g, n + 1)
    <3> HIDE DEF D
    <3>1. g = [i \in 0..(n + 1) |-> g[i]]
      OBVIOUS
    <3> HIDE DEF g
    <3> QED
      BY <2>2, <3>1
  <2> HIDE DEF Is, g
  <2> QED
    BY <2>3
<1> HIDE DEF T
<1>3. Len(all) - from \in T
  BY <1>1, <1>2, Inductive
<1>4. PICK f : Is(f, Len(all) - from)
  <2> HIDE DEF Is
  <2> QED
    BY <1>3 DEF T
<1> DEFINE s == Storing(all, from)
<1>5. s = [i \in 0..(Len(all) - from) |-> D(s, i)]
  BY <1>4, Zenon DEF Storing
<1> HIDE DEF s, D
<1>6. \A n \in 0..(Len(all) - from) : s[n] = D(s, n)
  BY <1>5
<1> QED
  BY <1>6 DEF s, D

(* The heads of a level that end are stored, each once. *)
LEMMA StoreLevel ==
  ASSUME TypeOk(Type), start_wire_index \in outbound_only_wires(Type),
         tile_type_idx \in Nat \ {0}, depth_i \in Nat, Kept(Current),
         NEW all, NEW from \in Nat \ {0}, NEW new, NEW t,
         LevelOk(Type, start_wire_index, all, from, new, depth_i + 2, t),
         \A k, p : Has(Current, k, p) =>
           ~(k[1] = tile_type_idx - 1 /\ k[2] = start_wire_index /\ k[4] = depth_i)
  PROVE  /\ Kept(StorePaths(all, from))
         /\ \A k, p : Has(StorePaths(all, from), k, p) <=>
              \/ Has(Current, k, p)
              \/ LevelHas(Type, tile_type_idx - 1, start_wire_index, depth_i + 2, k, p)
<1> DEFINE s == Storing(all, from)
           n == depth_i + 2
           tt == tile_type_idx - 1
           start == start_wire_index
           m == Len(new)
           New(i, k, p) == /\ Ends(Type, t[from + i]) /\ k = KeyOf(tt, start, t[from + i])
                           /\ p = InnerPath(t[from + i])
           T == {j \in Nat : j <= m => /\ Kept(s[j])
                                       /\ \A k, p : Has(s[j], k, p) <=>
                                            Has(Current, k, p) \/ \E i \in 1..j : New(i, k, p)}
<1>1. /\ Nodes(all) /\ Trails(all, t) /\ new \in Seq(HeadSet) /\ Len(all) = from + m
      /\ \A i \in 1..m : t[from + i] \in Live(Type, start, n)
      /\ \A w \in Live(Type, start, n) : \E i \in 1..m : w = t[from + i]
      /\ \A i, j \in 1..m : t[from + i] = t[from + j] => i = j
  BY DEF LevelOk
<1>2. m \in Nat /\ Len(all) - from = m /\ n \in Nat /\ n >= 2 /\ n >= 1 /\ tt \in Nat /\ start \in Nat
      /\ n - 2 = depth_i
  <2>1. new \in Seq(HeadSet) /\ Len(all) = from + m
    BY <1>1
  <2>2. start \in Nat
    BY LiveStarts
  <2>3. m \in Nat
    BY <2>1
  <2>4. Len(all) - from = m
    BY <2>1, <2>3
  <2> QED
    BY <2>2, <2>3, <2>4
<1>3. StorePaths(all, from) = s[m]
  BY <1>2, Zenon DEF StorePaths, Storing, Store, Current
<1>4. \A j \in 0..m : s[j] = IF j = 0 THEN Current ELSE Store(s[j - 1], all, from + j)
  BY <1>2, StoringRecursion
<1>5. ASSUME NEW i \in 1..m
      PROVE  /\ t[from + i] \in Seq(Nat) /\ Len(t[from + i]) = n /\ t[from + i][1] = start
             /\ all[from + i].wire_id = t[from + i][n]
             /\ WirePath(all, from + i) = InnerPath(t[from + i])
  <2>1. from + i \in 2..Len(all) /\ from + i \in 1..Len(all)
    BY <1>1, <1>2
  <2>2. t[from + i] \in Live(Type, start, n)
    BY <1>1
  <2>3. t[from + i] \in Seq(Nat) /\ Len(t[from + i]) = n /\ t[from + i][1] = start
        /\ IsInjective(t[from + i])
    BY <1>2, <2>2, LiveWalk
  <2>4. WirePath(all, from + i) = InnerPath(t[from + i])
    <3>1. Nodes(all) /\ Trails(all, t)
      BY <1>1
    <3> QED
      BY <2>1, <2>3, <3>1, WirePathIs
  <2>5. all[from + i].wire_id = t[from + i][n]
    <3>1. Nodes(all) /\ Trails(all, t)
      BY <1>1
    <3>2. t[from + i][Len(t[from + i])] = all[from + i].wire_id
      BY <2>1, <3>1, TrailLast
    <3> QED
      BY <2>3, <3>2
  <2> QED
    BY <2>3, <2>4, <2>5
<1> HIDE DEF s, n, tt, start, m
<1>6. 0 \in T
  <2>1. 0 \in 0..m
    BY <1>2
  <2>2. s[0] = Current
    BY <1>4, <2>1
  <2>3. \A k, p : ~\E i \in 1..0 : New(i, k, p)
    OBVIOUS
  <2> HIDE DEF New
  <2> QED
    BY <2>2, <2>3
<1>7. ASSUME NEW j \in Nat, j \in T PROVE j + 1 \in T
  <2> HIDE DEF New
  <2> SUFFICES ASSUME j + 1 <= m
               PROVE  /\ Kept(s[j + 1])
                      /\ \A k, p : Has(s[j + 1], k, p) <=>
                           Has(Current, k, p) \/ \E i \in 1..(j + 1) : New(i, k, p)
    OBVIOUS
  <2> DEFINE a == j + 1
             w == t[from + a]
             c == s[j]
  <2>1. a \in 1..m /\ a \in 0..m /\ a - 1 = j /\ j <= m /\ j \in 0..m /\ a # 0
        /\ \A i \in 1..a : i = a \/ i \in 1..j
    BY <1>2
  <2>2. /\ Kept(c)
        /\ \A k, p : Has(c, k, p) <=> Has(Current, k, p) \/ \E i \in 1..j : New(i, k, p)
    BY <1>7, <2>1
  <2>3. s[a] = Store(c, all, from + a)
    <3> HIDE DEF a
    <3>1. s[a] = IF a = 0 THEN Current ELSE Store(s[a - 1], all, from + a)
      BY <1>4, <2>1
    <3> QED
      BY <2>1, <3>1
  <2> HIDE DEF a, c
  <2>4. /\ w \in Seq(Nat) /\ Len(w) = n /\ w[1] = start
        /\ all[from + a].wire_id = w[n] /\ WirePath(all, from + a) = InnerPath(w)
    BY <1>5, <2>1
  <2>5. Ends(Type, w) <=> w[n] \in inbound_only_wires(Type)
    BY <2>4 DEF Ends
  <2>6. \A i \in 1..j : i \in 1..a
    BY <2>1
  <2>7. CASE ~Ends(Type, w)
    <3>1. s[a] = c
      BY <2>3, <2>4, <2>5, <2>7 DEF Store
    <3>2. \A k, p : ~New(a, k, p)
      BY <2>7 DEF New
    <3>3. \A k, p : (\E i \in 1..a : New(i, k, p)) <=> \E i \in 1..j : New(i, k, p)
      BY <2>1, <2>6, <3>2
    <3> QED
      BY <2>2, <3>1, <3>3 DEF a
  <2>8. CASE Ends(Type, w)
    <3> DEFINE key == KeyOf(tt, start, w)
               path == InnerPath(w)
    <3>1. /\ key = <<tt, start, w[n], depth_i>> /\ key \in Keys
          /\ path \in Seq(Nat) /\ Len(path) = key[4]
      <4> HIDE DEF w
      <4>3. tt \in Nat /\ start \in Nat /\ w \in Seq(Nat) /\ Len(w) >= 2 /\ Len(w) = n
        BY <1>2, <2>4
      <4>1. KeyOf(tt, start, w) = <<tt, start, w[Len(w)], Len(w) - 2>>
            /\ KeyOf(tt, start, w) \in Keys /\ KeyOf(tt, start, w)[4] = Len(w) - 2
        BY <4>3, KeyTyped
      <4>2. KeyOf(tt, start, w) \in Keys /\ InnerPath(w) \in Seq(Nat)
            /\ Len(InnerPath(w)) = KeyOf(tt, start, w)[4]
        BY <4>1, <4>3, InnerTyped
      <4> QED
        BY <1>2, <4>1, <4>2, <4>3
    <3>2. s[a] = set_path(c, key, path)
      BY <2>3, <2>4, <2>5, <2>8, <3>1 DEF Store, tt, start
    <3>3. ~Has(c, key, path)
      <4>1. ~Has(Current, key, path)
        <5>1. key[1] = tt /\ key[2] = start /\ key[4] = depth_i
          BY <3>1
        <5> QED
          BY <5>1 DEF tt, start
      <4>2. ASSUME NEW i \in 1..j, New(i, key, path) PROVE FALSE
        <5> DEFINE v == t[from + i]
        <5>1. i \in 1..m /\ i # a
          BY <1>2, <2>1
        <5>2. key = KeyOf(tt, start, v) /\ path = InnerPath(v)
          BY <4>2 DEF New
        <5>3. v \in Seq(Nat) /\ Len(v) = n /\ v[1] = start
          BY <1>5, <5>1
        <5>4. KeyOf(tt, start, v) = <<tt, start, v[n], n - 2>>
          <6> HIDE DEF v
          <6>1. tt \in Nat /\ start \in Nat /\ v \in Seq(Nat) /\ Len(v) >= 2
            BY <1>2, <5>3
          <6>2. KeyOf(tt, start, v) = <<tt, start, v[Len(v)], Len(v) - 2>>
            BY <6>1, KeyTyped
          <6> QED
            BY <5>3, <6>2
        <5> HIDE DEF v, w
        <5>5. v[n] = w[n]
          BY <3>1, <5>2, <5>4
        <5>6. v = w
          BY <1>2, <2>4, <5>2, <5>3, <5>5, EntryTellsWalk
        <5> QED
          BY <1>1, <2>1, <5>1, <5>6 DEF v, w
      <4> QED
        BY <2>2, <4>1, <4>2
    <3>4. \A k, p : New(a, k, p) <=> k = key /\ p = path
      BY <2>8 DEF New
    <3> HIDE DEF key, path
    <3>5. /\ Kept(s[a])
          /\ \A k, p : Has(s[a], k, p) <=> Has(c, k, p) \/ (k = key /\ p = path)
      BY <2>2, <3>1, <3>2, <3>3, SetPath
    <3>7. a \in 1..a
      BY <2>1
    <3>6. \A k, p : (\E i \in 1..a : New(i, k, p)) <=> (\E i \in 1..j : New(i, k, p)) \/ (k = key /\ p = path)
      BY <2>1, <2>6, <3>4, <3>7
    <3> QED
      BY <2>2, <3>5, <3>6 DEF a
  <2> QED
    BY <2>7, <2>8
<1>8. m \in T
  <2> HIDE DEF T
  <2> QED
    BY <1>2, <1>6, <1>7, Inductive
<1>9. /\ Kept(s[m])
      /\ \A k, p : Has(s[m], k, p) <=> Has(Current, k, p) \/ \E i \in 1..m : New(i, k, p)
  <2> HIDE DEF New
  <2> QED
    BY <1>2, <1>8
<1>10. \A k, p : (\E i \in 1..m : New(i, k, p)) <=> LevelHas(Type, tt, start, n, k, p)
  <2> SUFFICES ASSUME NEW k, NEW p
               PROVE  (\E i \in 1..m : New(i, k, p)) <=> LevelHas(Type, tt, start, n, k, p)
    OBVIOUS
  <2>1. ASSUME NEW i \in 1..m, New(i, k, p) PROVE LevelHas(Type, tt, start, n, k, p)
    BY <1>1, <2>1 DEF LevelHas
  <2>2. ASSUME LevelHas(Type, tt, start, n, k, p) PROVE \E i \in 1..m : New(i, k, p)
    <3>1. PICK w \in Live(Type, start, n) :
            Ends(Type, w) /\ k = KeyOf(tt, start, w) /\ p = InnerPath(w)
      BY <2>2 DEF LevelHas
    <3>2. PICK i \in 1..m : w = t[from + i]
      BY <1>1
    <3> QED
      BY <3>1, <3>2
  <2> QED
    BY <2>1, <2>2
<1> HIDE DEF New
<1>11. \A k, p : Has(s[m], k, p) <=> Has(Current, k, p) \/ LevelHas(Type, tt, start, n, k, p)
  BY <1>9, <1>10
<1> QED
  BY <1>3, <1>9, <1>11 DEF n, tt, start

Further(type, walks) ==
  {Append(a[1], a[2]) : a \in {b \in walks \X bidirectional_wires(type) :
                                  b[2] \in Feeders(type, Last(b[1]))}}
Walking(type, start) ==
  CHOOSE walks : walks = [n \in 0..Cardinality(bidirectional_wires(type)) |->
    IF n = 0 THEN {<<start>>} ELSE Further(type, walks[n - 1])]

(* The walks of n wires are what their recursion describes. *)
LEMMA WalkingRecursion ==
  ASSUME NEW type, TypeOk(type), NEW start
  PROVE  \A n \in 0..Cardinality(bidirectional_wires(type)) :
           Walking(type, start)[n] =
             IF n = 0 THEN {<<start>>} ELSE Further(type, Walking(type, start)[n - 1])
<1> DEFINE D(f, i) == IF i = 0 THEN {<<start>>} ELSE Further(type, f[i - 1])
           Is(f, n) == f = [i \in 0..n |-> D(f, i)]
           T == {n \in Nat : \E f : Is(f, n)}
           N == Cardinality(bidirectional_wires(type))
<1>1. 0 \in T
  <2> DEFINE g == [i \in 0..0 |-> {<<start>>}]
  <2>1. Is(g, 0)
    OBVIOUS
  <2> HIDE DEF Is, g
  <2> QED
    BY <2>1
<1>2. ASSUME NEW n \in Nat, n \in T PROVE n + 1 \in T
  <2>1. PICK f : Is(f, n)
    BY <1>2
  <2> DEFINE g == [i \in 0..(n + 1) |-> IF i = n + 1 THEN D(f, i) ELSE f[i]]
  <2>2. ASSUME NEW i \in 0..(n + 1) PROVE g[i] = D(g, i)
    <3>1. i # 0 => g[i - 1] = f[i - 1]
      OBVIOUS
    <3>2. D(g, i) = D(f, i)
      <4> HIDE DEF g
      <4> QED
        BY <3>1
    <3>3. i # n + 1 => f[i] = D(f, i)
      <4> HIDE DEF D
      <4> QED
        BY <2>1
    <3> HIDE DEF D
    <3> QED
      BY <3>2, <3>3
  <2>3. Is(g, n + 1)
    <3> HIDE DEF D
    <3>1. g = [i \in 0..(n + 1) |-> g[i]]
      OBVIOUS
    <3> HIDE DEF g
    <3> QED
      BY <2>2, <3>1
  <2> HIDE DEF Is, g
  <2> QED
    BY <2>3
<1> HIDE DEF T
<1>3. N \in T
  <2>1. N \in Nat
    BY BidirectionalFinite
  <2> HIDE DEF N
  <2> QED
    BY <1>1, <1>2, <2>1, Inductive
<1>4. PICK f : Is(f, N)
  <2> HIDE DEF Is
  <2> QED
    BY <1>3 DEF T
<1> DEFINE s == Walking(type, start)
<1>5. s = [i \in 0..N |-> D(s, i)]
  BY <1>4, Zenon DEF Walking
<1> HIDE DEF s, D
<1>6. \A n \in 0..N : s[n] = D(s, n)
  BY <1>5
<1> QED
  BY <1>6 DEF s, D

(* The walks of n steps: each wire but the first goes both ways and feeds the one
   before. *)
Walk(type, start, n, v) ==
  /\ v \in Seq(Nat) /\ Len(v) = n + 1 /\ v[1] = start
  /\ \A i \in 2..(n + 1) : v[i] \in bidirectional_wires(type) /\ v[i] \in Feeders(type, v[i - 1])

(* They are the walks over wires of both directions. *)
LEMMA WalkingIs ==
  ASSUME NEW type, TypeOk(type), NEW start \in Nat
  PROVE  \A n \in 0..Cardinality(bidirectional_wires(type)) : \A v :
           v \in Walking(type, start)[n] <=> Walk(type, start, n, v)
<1> DEFINE N == Cardinality(bidirectional_wires(type))
           s == Walking(type, start)
           T == {n \in Nat : n <= N => \A v : v \in s[n] <=> Walk(type, start, n, v)}
<1>1. \A n \in 0..N : s[n] = IF n = 0 THEN {<<start>>} ELSE Further(type, s[n - 1])
  BY WalkingRecursion
<1>2. N \in Nat
  BY BidirectionalFinite
<1>3. bidirectional_wires(type) \subseteq Nat
  BY WiresAreSmall DEF bidirectional_wires
<1> HIDE DEF N, s
<1>4. 0 \in T
  <2> SUFFICES ASSUME NEW v PROVE v \in s[0] <=> Walk(type, start, 0, v)
    OBVIOUS
  <2>1. s[0] = {<<start>>}
    BY <1>1, <1>2
  <2>2. Walk(type, start, 0, <<start>>)
    BY DEF Walk
  <2>3. ASSUME Walk(type, start, 0, v) PROVE v = <<start>>
    BY <2>3 DEF Walk
  <2> QED
    BY <2>1, <2>2, <2>3
<1>5. ASSUME NEW n \in Nat, n \in T PROVE n + 1 \in T
  <2> SUFFICES ASSUME n + 1 <= N, NEW v
               PROVE  v \in s[n + 1] <=> Walk(type, start, n + 1, v)
    OBVIOUS
  <2>1. s[n + 1] = Further(type, s[n])
    <3>1. n + 1 \in 0..N /\ n + 1 # 0 /\ (n + 1) - 1 = n
      BY <1>2
    <3> QED
      BY <1>1, <3>1
  <2>2. \A u : u \in s[n] <=> Walk(type, start, n, u)
    BY <1>2, <1>5
  <2>3. ASSUME v \in s[n + 1] PROVE Walk(type, start, n + 1, v)
    <3>1. PICK b \in s[n] \X bidirectional_wires(type) :
            b[2] \in Feeders(type, Last(b[1])) /\ v = Append(b[1], b[2])
      BY <2>1, <2>3 DEF Further
    <3> DEFINE u == b[1]
               x == b[2]
    <3>2. u \in s[n] /\ x \in bidirectional_wires(type) /\ x \in Feeders(type, Last(u)) /\ v = Append(u, x)
      BY <3>1
    <3> HIDE DEF u, x
    <3>3. /\ u \in Seq(Nat) /\ Len(u) = n + 1 /\ u[1] = start
          /\ \A i \in 2..(n + 1) : u[i] \in bidirectional_wires(type) /\ u[i] \in Feeders(type, u[i - 1])
      BY <2>2, <3>2 DEF Walk
    <3>4. x \in Feeders(type, u[n + 1])
      BY <3>2, <3>3 DEF Last
    <3>5. /\ v \in Seq(Nat) /\ Len(v) = n + 2 /\ v[n + 2] = x /\ \A i \in 1..(n + 1) : v[i] = u[i]
      <4>1. x \in Nat
        BY <1>3, <3>2
      <4>2. Len(u) + 1 = n + 2
        BY <3>3
      <4> QED
        BY <3>2, <3>3, <4>1, <4>2, Appended
    <3>6. ASSUME NEW i \in 2..(n + 2)
          PROVE  v[i] \in bidirectional_wires(type) /\ v[i] \in Feeders(type, v[i - 1])
      <4>1. i - 1 \in 1..(n + 1)
        OBVIOUS
      <4>2. v[i - 1] = u[i - 1]
        BY <3>5, <4>1
      <4>3. CASE i = n + 2
        <5>1. i - 1 = n + 1
          BY <4>3
        <5> QED
          BY <3>2, <3>4, <3>5, <4>2, <4>3, <5>1
      <4>4. CASE i # n + 2
        <5>1. i \in 2..(n + 1) /\ i \in 1..(n + 1)
          BY <4>4
        <5> QED
          BY <3>3, <3>5, <4>2, <5>1
      <4> QED
        BY <4>3, <4>4
    <3>7. v[1] = start
      <4>1. 1 \in 1..(n + 1)
        OBVIOUS
      <4> QED
        BY <3>3, <3>5, <4>1
    <3>8. (n + 1) + 1 = n + 2
      OBVIOUS
    <3> QED
      BY <3>5, <3>6, <3>7, <3>8 DEF Walk
  <2>4. ASSUME Walk(type, start, n + 1, v) PROVE v \in s[n + 1]
    <3>1. /\ v \in Seq(Nat) /\ Len(v) = (n + 1) + 1 /\ v[1] = start
          /\ \A i \in 2..((n + 1) + 1) : v[i] \in bidirectional_wires(type) /\ v[i] \in Feeders(type, v[i - 1])
      BY <2>4 DEF Walk
    <3> DEFINE m == n + 1
               u == SubSeq(v, 1, m)
               x == v[m + 1]
    <3>2. /\ u \in Seq(Nat) /\ Len(u) = m /\ \A i \in 1..m : u[i] = v[i]
          /\ x \in Nat /\ v = Append(u, x)
      <4> HIDE DEF m
      <4>1. m \in Nat /\ Len(v) = m + 1
        BY <3>1 DEF m
      <4> QED
        BY <3>1, <4>1, Unappended
    <3> HIDE DEF u, x
    <3>3. Walk(type, start, n, u)
      <4>1. u[1] = start
        <5>1. 1 \in 1..m
          OBVIOUS
        <5> QED
          BY <3>1, <3>2, <5>1
      <4>2. ASSUME NEW i \in 2..(n + 1)
            PROVE  u[i] \in bidirectional_wires(type) /\ u[i] \in Feeders(type, u[i - 1])
        <5>1. i \in 1..m /\ i - 1 \in 1..m /\ i \in 2..((n + 1) + 1)
          OBVIOUS
        <5> QED
          BY <3>1, <3>2, <5>1
      <4> QED
        BY <3>2, <4>1, <4>2 DEF Walk
    <3>4. x \in bidirectional_wires(type) /\ x \in Feeders(type, Last(u))
      <4>1. m + 1 \in 2..((n + 1) + 1) /\ (m + 1) - 1 = m /\ m \in 1..m
        OBVIOUS
      <4>2. v[m + 1] \in bidirectional_wires(type) /\ v[m + 1] \in Feeders(type, v[(m + 1) - 1])
        BY <3>1, <4>1
      <4>3. Last(u) = u[m]
        BY <3>2 DEF Last
      <4> QED
        BY <3>2, <4>1, <4>2, <4>3 DEF x
    <3>5. u \in s[n]
      BY <2>2, <3>3
    <3> DEFINE b == <<u, x>>
    <3>6. b \in s[n] \X bidirectional_wires(type) /\ b[1] = u /\ b[2] = x
      BY <3>4, <3>5
    <3> HIDE DEF b
    <3>7. b \in {a \in s[n] \X bidirectional_wires(type) : a[2] \in Feeders(type, Last(a[1]))}
      BY <3>4, <3>6
    <3>8. v = Append(b[1], b[2])
      BY <3>2, <3>6
    <3> QED
      BY <2>1, <3>7, <3>8 DEF Further
  <2> QED
    BY <2>3, <2>4
<1>6. \A n \in Nat : n \in T
  <2> HIDE DEF T
  <2> QED
    BY <1>4, <1>5, Inductive
<1> SUFFICES ASSUME NEW n \in 0..N PROVE \A v : v \in s[n] <=> Walk(type, start, n, v)
  BY DEF N, s
<1>7. n \in Nat /\ n <= N
  BY <1>2
<1> QED
  BY <1>6, <1>7

(* What a walk that ends is as a direct path. *)
PathOf(v) == <<Reverse(InnerPath(v)), v[Len(v)]>>

(* The path that is stored, read from the root, is the walk without its ends. *)
LEMMA InnerReversed ==
  ASSUME NEW w \in Seq(Nat), Len(w) >= 1, NEW x \in Nat
  PROVE  PathOf(Append(w, x)) = <<Tail(w), x>>
<1> DEFINE v == Append(w, x)
           n == Len(w)
<1>1. v \in Seq(Nat) /\ Len(v) = n + 1 /\ v[n + 1] = x /\ \A i \in 1..n : v[i] = w[i]
  BY Appended
<1> HIDE DEF v
<1>2. /\ InnerPath(v) \in Seq(Nat) /\ Len(InnerPath(v)) = n - 1
      /\ \A i \in 1..(n - 1) : InnerPath(v)[i] = v[(n + 1) - i]
  <2>1. Len(v) >= 2 /\ Len(v) - 2 = n - 1
    BY <1>1
  <2>2. /\ InnerPath(v) \in Seq(Nat) /\ Len(InnerPath(v)) = Len(v) - 2
        /\ \A i \in 1..(Len(v) - 2) : InnerPath(v)[i] = v[Len(v) - i]
    BY <1>1, <2>1, InnerTyped
  <2> QED
    BY <1>1, <2>1, <2>2
<1> DEFINE p == InnerPath(v)
<1> HIDE DEF p
<1>3. p \in Seq(Nat) /\ Len(p) = n - 1 /\ \A i \in 1..(n - 1) : p[i] = v[(n + 1) - i]
  BY <1>2 DEF p
<1>4. Reverse(p) = [i \in 1..(n - 1) |-> p[((n - 1) - i) + 1]]
  BY <1>3 DEF Reverse
<1>5. ASSUME NEW i \in 1..(n - 1) PROVE p[((n - 1) - i) + 1] = w[i + 1]
  <2>1. ((n - 1) - i) + 1 \in 1..(n - 1) /\ (n + 1) - (((n - 1) - i) + 1) = i + 1 /\ i + 1 \in 1..n
    OBVIOUS
  <2>2. p[((n - 1) - i) + 1] = v[(n + 1) - (((n - 1) - i) + 1)]
    BY <1>3, <2>1
  <2> QED
    BY <1>1, <2>1, <2>2
<1>6. Reverse(p) = [i \in 1..(n - 1) |-> w[i + 1]]
  BY <1>4, <1>5
<1>7. Tail(w) = [i \in 1..(n - 1) |-> w[i + 1]]
  <2>1. /\ n \in Nat /\ Tail(w) \in Seq(Nat) /\ Len(Tail(w)) = n - 1
        /\ \A i \in 1..(n - 1) : Tail(w)[i] = w[i + 1]
    OBVIOUS
  <2> DEFINE u == Tail(w)
  <2>2. u \in Seq(Nat) /\ Len(u) = n - 1 /\ n \in Nat /\ \A i \in 1..(n - 1) : u[i] = w[i + 1]
    BY <2>1
  <2> HIDE DEF u, n
  <2>3. u = [i \in 1..(n - 1) |-> u[i]]
    BY <2>2
  <2>4. u = [i \in 1..(n - 1) |-> w[i + 1]]
    BY <2>2, <2>3
  <2> QED
    BY <2>4 DEF u
<1> QED
  BY <1>1, <1>6, <1>7 DEF PathOf, p, v

(* The direct paths are the direct walks that end: those that any search of
   unlimited depth meets. *)
LEMMA DirectPathsAre ==
  ASSUME NEW type, TypeOk(type), NEW start \in outbound_only_wires(type)
  PROVE  \A x : x \in DirectPaths(type, start) <=>
           \E n \in Nat : n >= 2 /\ \E v \in Live(type, start, n) :
             Ends(type, v) /\ x = PathOf(v)
<1> DEFINE N == Cardinality(bidirectional_wires(type))
<1>1. Walks(type, start) = UNION {Walking(type, start)[n] : n \in 0..N}
  BY DEF Walks, Walking, Further
<1>2. start \in Nat /\ N \in Nat
  BY LiveStarts, BidirectionalFinite
<1>3. \A n \in 0..N : \A v : v \in Walking(type, start)[n] <=> Walk(type, start, n, v)
  BY <1>2, WalkingIs
<1>4. \A w : w \in Walks(type, start) <=> \E n \in 0..N : Walk(type, start, n, w)
  BY <1>1, <1>3
<1>5. inbound_only_wires(type) \subseteq Nat
  BY WiresAreSmall DEF inbound_only_wires
<1> HIDE DEF N
<1> TAKE x
<1>6. ASSUME NEW w \in Walks(type, start), NEW f \in inbound_only_wires(type),
             Direct(type, Append(w, f)), x = <<Tail(w), f>>
      PROVE  \E n \in Nat : n >= 2 /\ \E v \in Live(type, start, n) : Ends(type, v) /\ x = PathOf(v)
  <2>1. PICK m \in 0..N : Walk(type, start, m, w)
    BY <1>4, <1>6
  <2>2. w \in Seq(Nat) /\ Len(w) = m + 1 /\ w[1] = start /\ m \in Nat
    BY <2>1, <1>2 DEF Walk
  <2> DEFINE v == Append(w, f)
             n == m + 2
  <2>3. f \in Nat
    BY <1>5
  <2>4. v \in Seq(Nat) /\ Len(v) = n /\ v[n] = f /\ v[1] = start
    <3>1. v \in Seq(Nat) /\ Len(v) = Len(w) + 1 /\ v[Len(w) + 1] = f
          /\ \A i \in 1..Len(w) : v[i] = w[i]
      BY <2>2, <2>3, Appended
    <3>2. 1 \in 1..Len(w) /\ Len(w) + 1 = n
      BY <2>2
    <3> HIDE DEF v, n
    <3> QED
      BY <2>2, <3>1, <3>2
  <2>5. x = PathOf(v)
    BY <1>6, <2>2, <2>3, InnerReversed
  <2>6. Direct(type, v)
    BY <1>6
  <2> HIDE DEF v
  <2>7. Ends(type, v)
    BY <2>4 DEF Ends
  <2>8. v \in Live(type, start, n)
    BY <2>4, <2>6, <2>7 DEF Live
  <2>9. n \in Nat /\ n >= 2
    BY <2>2
  <2> QED
    BY <2>5, <2>7, <2>8, <2>9
<1>7. ASSUME NEW n \in Nat, n >= 2, NEW v \in Live(type, start, n), Ends(type, v), x = PathOf(v)
      PROVE  \E w \in Walks(type, start) : \E f \in inbound_only_wires(type) :
               Direct(type, Append(w, f)) /\ x = <<Tail(w), f>>
  <2> DEFINE m == n - 1
             w == SubSeq(v, 1, m)
             f == v[m + 1]
  <2>1. /\ v \in Seq(Nat) /\ Len(v) = n /\ v[1] = start /\ Direct(type, v)
        /\ IsInjective(v)
        /\ \A i \in 2..n : v[i] \in Feeders(type, v[i - 1])
        /\ \A i \in 2..(n - 1) : v[i] \in bidirectional_wires(type)
    BY <1>7, LiveWalk
  <2>2. m \in Nat /\ m >= 1 /\ m + 1 = n
    BY <1>7
  <2>3. /\ w \in Seq(Nat) /\ Len(w) = m /\ \A i \in 1..m : w[i] = v[i]
        /\ f \in Nat /\ v = Append(w, f)
    <3> HIDE DEF m
    <3> QED
      BY <2>1, <2>2, Unappended
  <2>4. f \in inbound_only_wires(type)
    BY <1>7, <2>1, <2>2 DEF Ends
  <2> HIDE DEF w, f
  <2>5. n - 2 \in 0..N
    <3>1. n - 2 <= N
      BY <1>7, <2>1, LiveLength DEF N
    <3> QED
      BY <1>2, <1>7, <3>1
  <2>6. Walk(type, start, n - 2, w)
    <3>1. (n - 2) + 1 = m
      OBVIOUS
    <3>2. w[1] = start
      <4>1. 1 \in 1..m
        BY <2>2
      <4> QED
        BY <2>1, <2>3, <4>1
    <3>3. ASSUME NEW i \in 2..m PROVE w[i] \in bidirectional_wires(type) /\ w[i] \in Feeders(type, w[i - 1])
      <4>1. i \in 1..m /\ i - 1 \in 1..m /\ i \in 2..n /\ i \in 2..(n - 1)
        OBVIOUS
      <4> QED
        BY <2>1, <2>3, <4>1
    <3> QED
      BY <2>3, <3>1, <3>2, <3>3 DEF Walk
  <2>7. w \in Walks(type, start)
    BY <1>4, <2>5, <2>6
  <2>8. x = <<Tail(w), f>>
    BY <1>7, <2>2, <2>3, InnerReversed
  <2> QED
    BY <2>1, <2>3, <2>4, <2>7, <2>8
<1>8. x \in DirectPaths(type, start) <=>
        \E w \in Walks(type, start) : \E f \in inbound_only_wires(type) :
          Direct(type, Append(w, f)) /\ x = <<Tail(w), f>>
  <2> DEFINE W == Walks(type, start)
             F == inbound_only_wires(type)
  <2> HIDE DEF W, F
  <2>1. x \in DirectPaths(type, start) <=>
          \E b \in W \X F : Direct(type, Append(b[1], b[2])) /\ x = <<Tail(b[1]), b[2]>>
    BY DEF DirectPaths, W, F
  <2>2. ASSUME NEW b \in W \X F, Direct(type, Append(b[1], b[2])), x = <<Tail(b[1]), b[2]>>
        PROVE  \E w \in W : \E f \in F : Direct(type, Append(w, f)) /\ x = <<Tail(w), f>>
    <3>1. b[1] \in W /\ b[2] \in F
      OBVIOUS
    <3> QED
      BY <2>2, <3>1, Zenon
  <2>3. ASSUME NEW w \in W, NEW f \in F, Direct(type, Append(w, f)), x = <<Tail(w), f>>
        PROVE  \E b \in W \X F : Direct(type, Append(b[1], b[2])) /\ x = <<Tail(b[1]), b[2]>>
    <3> DEFINE b == <<w, f>>
    <3>1. b \in W \X F /\ b[1] = w /\ b[2] = f
      OBVIOUS
    <3> HIDE DEF b
    <3> QED
      BY <2>3, <3>1, Zenon
  <2>4. (x \in DirectPaths(type, start)) <=>
          (\E w \in W : \E f \in F : Direct(type, Append(w, f)) /\ x = <<Tail(w), f>>)
    BY <2>1, <2>2, <2>3, Zenon
  <2> QED
    BY <2>4 DEF W, F
<1> QED
  BY <1>6, <1>7, <1>8, Zenon

(* The searches that are over, and those levels of the present one that are. *)
Settled(tt, start) == tt < tile_type_idx \/ (tt = tile_type_idx /\ start < start_wire_index)
Met(tt, start, n) ==
  \/ Settled(tt, start)
  \/ pc = "grow" /\ tt = tile_type_idx /\ start = start_wire_index /\ n <= depth_i + 1
(* What the search from a wire finds among the walks of n wires. *)
Entry(tt, start, n, key, path) ==
  /\ tt \in DOMAIN tileTypes /\ ~Unused(tileTypes[tt])
  /\ start \in outbound_only_wires(tileTypes[tt]) /\ n \in Nat /\ n >= 2
  /\ LevelHas(tileTypes[tt], tt - 1, start, n, key, path)

Counters ==
  /\ tileTypes \in TileTypeLists /\ tile_type_idx \in 1..(Len(tileTypes) + 1)
  /\ start_wire_index \in Nat /\ depth_i \in Nat
  /\ MoreTypes => start_wire_index <= Type.wires
  /\ pc \in {"enum", "grow", "done", "aborted"}
  /\ pc \in {"done", "aborted"} => ~MoreTypes
  /\ pc # "grow" => wpn = <<>>
Searching ==
  pc = "grow" =>
    /\ MoreTypes /\ ~Unused(Type) /\ start_wire_index \in outbound_only_wires(Type)
    /\ depth_i < MaxDepth
    /\ \E t : /\ LevelOk(Type, start_wire_index, wpns, base_offset, wpn, depth_i + 1, t)
              /\ ThreadsOk(Type, base_offset, wpn, next_wpn, head_index, t)
Contents ==
  \A key, path : Has(Current, key, path) <=>
                   \E tt, start, n : Entry(tt, start, n, key, path) /\ Met(tt, start, n)
SearchInv == Counters /\ Searching /\ Kept(Current) /\ Contents

(* The tile types of a device. *)
LEMMA TypesAreOk ==
  ASSUME tileTypes \in TileTypeLists
  PROVE  /\ Len(tileTypes) \in Nat /\ DOMAIN tileTypes = 1..Len(tileTypes)
         /\ Len(tileTypes) <= TileTypeCount
         /\ \A tt \in DOMAIN tileTypes :
              TypeOk(tileTypes[tt]) /\ tileTypes[tt].wires \in Nat
              /\ tileTypes[tt].wires < CountLimit
<1>1. /\ tileTypes \in Seq([wires : Nat, pips : SUBSET Pips]) /\ Len(tileTypes) <= TileTypeCount
      /\ \A tt \in DOMAIN tileTypes :
           /\ tileTypes[tt].wires < CountLimit
           /\ \A pip \in tileTypes[tt].pips :
                {pip.wire0, pip.wire1} \subseteq 0..(tileTypes[tt].wires - 1)
  BY TilePathsAssumption
<1>2. \A tt \in DOMAIN tileTypes : tileTypes[tt].wires \in Nat
  <2>1. \A tt \in DOMAIN tileTypes : tileTypes[tt] \in [wires : Nat, pips : SUBSET Pips]
    <3> DEFINE R == [wires : Nat, pips : SUBSET Pips]
    <3>1. tileTypes \in Seq(R)
      BY <1>1
    <3> HIDE DEF R
    <3>2. \A tt \in DOMAIN tileTypes : tileTypes[tt] \in R
      BY <3>1
    <3> QED
      BY <3>2 DEF R
  <2> QED
    BY <2>1
<1> QED
  BY <1>1, <1>2 DEF TypeOk

(* The pair of a path that is found. *)
LEMMA EntryKey ==
  ASSUME tileTypes \in TileTypeLists, NEW tt, NEW start, NEW n, NEW key, NEW path,
         Entry(tt, start, n, key, path)
  PROVE  /\ key \in Keys /\ key[1] = tt - 1 /\ key[2] = start /\ key[4] = n - 2
         /\ tt \in 1..Len(tileTypes) /\ start \in Wires(tileTypes[tt])
         /\ key[3] \in Wires(tileTypes[tt]) /\ n \in Nat /\ n >= 2 /\ n - 2 < MaxDepth
<1> DEFINE type == tileTypes[tt]
<1>1. /\ tt \in 1..Len(tileTypes) /\ TypeOk(type) /\ ~Unused(type)
      /\ start \in outbound_only_wires(type) /\ n \in Nat /\ n >= 2 /\ Len(tileTypes) \in Nat
  BY TypesAreOk DEF Entry
<1>2. PICK w \in Live(type, start, n) : Ends(type, w) /\ key = KeyOf(tt - 1, start, w)
  BY DEF Entry, LevelHas
<1>3. w \in Seq(Nat) /\ Len(w) = n /\ w[n] \in Nat
  BY <1>1, LiveWalk
<1>4. start \in Nat /\ start \in Wires(type) /\ w[n] \in Wires(type)
  <2>1. start \in outbound_wires(type) /\ w[n] \in inbound_wires(type)
    BY <1>1, <1>2, <1>3 DEF outbound_only_wires, Ends, inbound_only_wires
  <2> HIDE DEF type
  <2>2. start \in Wires(type) /\ w[n] \in Wires(type) /\ Wires(type) \subseteq Nat
    BY <1>1, <2>1, WiresAreSmall
  <2> QED
    BY <2>2
<1>5. tt - 1 \in Nat
  BY <1>1
<1>6. /\ key = <<tt - 1, start, w[n], n - 2>> /\ key \in Keys
  BY <1>1, <1>2, <1>3, <1>4, <1>5, KeyTyped
<1>7. n - 2 < MaxDepth
  <2>1. PathOf(w) \in DirectPaths(type, start)
    BY <1>1, <1>2, DirectPathsAre
  <2>2. Len(PathOf(w)[1]) < MaxDepth
    BY <1>1, <2>1, DepthAssumption, TypesAreOk
  <2>3. InnerPath(w) \in Seq(Nat) /\ Len(InnerPath(w)) = n - 2
    BY <1>1, <1>3, InnerTyped
  <2>4. Len(Reverse(InnerPath(w))) = n - 2
    BY <2>3 DEF Reverse
  <2>5. PathOf(w)[1] = Reverse(InnerPath(w))
    BY DEF PathOf
  <2> QED
    BY <2>2, <2>4, <2>5
<1> QED
  BY <1>1, <1>4, <1>6, <1>7

(* What is found and where the search stands tell what is stored. *)
LEMMA ContentsKept ==
  ASSUME Contents, UNCHANGED <<tileTypes, paths, wire_pairs>>,
         \A tt, start, n, key, path :
           Entry(tt, start, n, key, path) => (Met(tt, start, n) <=> Met(tt, start, n)')
  PROVE  Contents'
<1>1. Current' = Current
  BY DEF Current
<1>2. \A tt, start, n, key, path : Entry(tt, start, n, key, path) <=> Entry(tt, start, n, key, path)'
  BY DEF Entry
<1>3. \A key, path : Has(Current, key, path) <=> Has(Current, key, path)'
  BY <1>1
<1> QED
  BY <1>2, <1>3, Zenon DEF Contents

(* No search was started. *)
LEMMA SearchStarts ==
  Init => SearchInv
<1> SUFFICES ASSUME Init PROVE SearchInv
  OBVIOUS
<1>1. Counters
  BY TypesAreOk DEF Init, Counters, MoreTypes, Type
<1>2. Searching
  BY DEF Init, Searching
<1>3. Current.paths = <<>> /\ Current.wire_pairs = <<>>
  BY DEF Init, Current
<1>4. DOMAIN Current.wire_pairs = {}
  BY <1>3
<1>5. Kept(Current)
  <2>1. Current.paths \in Seq(Seq(Nat)) /\ IsInjective(Current.paths)
    BY <1>3 DEF IsInjective
  <2>2. Len(Current.paths) = 0
    BY <1>3
  <2> QED
    BY <1>4, <2>1, <2>2 DEF Kept
<1>6. Contents
  <2>1. ASSUME NEW tt, NEW start, NEW n, NEW key, NEW path, Entry(tt, start, n, key, path)
        PROVE  ~Met(tt, start, n)
    <3>1. tt \in 1..Len(tileTypes) /\ start \in Wires(tileTypes[tt]) /\ tileTypes \in TileTypeLists
      BY <2>1, EntryKey DEF Init
    <3>2. TypeOk(tileTypes[tt]) /\ Len(tileTypes) \in Nat
      BY <3>1, TypesAreOk
    <3>3. start \in Nat
      BY <3>1, <3>2, WiresAreSmall
    <3>4. tt \in Nat /\ tt >= 1 /\ start >= 0
      BY <3>1, <3>2, <3>3
    <3>5. tile_type_idx = 1 /\ start_wire_index = 0 /\ pc = "enum"
      BY DEF Init
    <3> QED
      BY <3>3, <3>4, <3>5 DEF Met, Settled
  <2>2. \A key, path : ~Has(Current, key, path)
    BY <1>4 DEF Has
  <2> QED
    BY <2>1, <2>2 DEF Contents
<1> QED
  BY <1>1, <1>2, <1>5, <1>6 DEF SearchInv

(* The search goes on with the next tile type. *)
LEMMA NextTypeSearches ==
  SearchInv /\ NextType => SearchInv'
<1> SUFFICES ASSUME SearchInv, NextType PROVE SearchInv'
  OBVIOUS
<1>1. Counters /\ Searching /\ Kept(Current) /\ Contents
  BY DEF SearchInv
<1>2. /\ pc = "enum" /\ MoreTypes /\ pc' = pc /\ tileTypes' = tileTypes /\ depth_i' = depth_i
      /\ Unused(Type) \/ start_wire_index = Type.wires
      /\ tile_type_idx' = tile_type_idx + 1 /\ start_wire_index' = 0 /\ wpn' = wpn
      /\ paths' = paths /\ wire_pairs' = wire_pairs
  BY DEF NextType, search
<1>3. tileTypes \in TileTypeLists /\ tile_type_idx \in 1..Len(tileTypes) /\ Len(tileTypes) \in Nat
  BY <1>1, <1>2, TypesAreOk DEF Counters, MoreTypes
<1>4. Counters'
  <2>1. tile_type_idx' \in 1..(Len(tileTypes') + 1)
    BY <1>2, <1>3
  <2>2. MoreTypes' => start_wire_index' <= Type'.wires
    <3>1. MoreTypes' => tile_type_idx' \in DOMAIN tileTypes
      BY <1>2, <2>1, <1>3, TypesAreOk DEF MoreTypes
    <3>2. MoreTypes' => Type'.wires \in Nat
      BY <1>2, <1>3, <3>1, TypesAreOk DEF Type
    <3> QED
      BY <1>2, <3>2
  <2> QED
    BY <1>1, <1>2, <2>1, <2>2 DEF Counters
<1>5. Searching'
  BY <1>2 DEF Searching
<1>6. Kept(Current)'
  BY <1>1, <1>2 DEF Current
<1>7. ASSUME NEW tt, NEW start, NEW n, NEW key, NEW path, Entry(tt, start, n, key, path)
      PROVE  Met(tt, start, n) <=> Met(tt, start, n)'
  <2>1. tt \in 1..Len(tileTypes) /\ start \in Wires(tileTypes[tt])
    BY <1>3, <1>7, EntryKey
  <2>2. start \in Nat /\ start < tileTypes[tt].wires
    BY <1>3, <2>1, TypesAreOk DEF Wires
  <2>3. ~Unused(tileTypes[tt])
    BY <1>7 DEF Entry
  <2>4. tt = tile_type_idx => start < start_wire_index
    BY <1>2, <2>2, <2>3 DEF Type
  <2> QED
    BY <1>2, <1>3, <2>1, <2>2, <2>4 DEF Met, Settled
<1>8. Contents'
  BY <1>1, <1>2, <1>7, ContentsKept
<1> QED
  BY <1>4, <1>5, <1>6, <1>8 DEF SearchInv

(* A wire that no path starts at is passed over. *)
LEMMA SkipWireSearches ==
  SearchInv /\ SkipWire => SearchInv'
<1> SUFFICES ASSUME SearchInv, SkipWire PROVE SearchInv'
  OBVIOUS
<1>1. Counters /\ Searching /\ Kept(Current) /\ Contents
  BY DEF SearchInv
<1>2. /\ pc = "enum" /\ MoreTypes /\ pc' = pc /\ tileTypes' = tileTypes /\ depth_i' = depth_i
      /\ start_wire_index < Type.wires /\ start_wire_index \notin outbound_only_wires(Type)
      /\ tile_type_idx' = tile_type_idx /\ start_wire_index' = start_wire_index + 1 /\ wpn' = wpn
      /\ paths' = paths /\ wire_pairs' = wire_pairs
  BY DEF SkipWire, Enumerable, search
<1>3. /\ tileTypes \in TileTypeLists /\ tile_type_idx \in 1..Len(tileTypes) /\ Len(tileTypes) \in Nat
      /\ start_wire_index \in Nat
  BY <1>1, <1>2, TypesAreOk DEF Counters, MoreTypes
<1>4. Counters'
  <2>1. Type' = Type /\ Type.wires \in Nat
    BY <1>2, <1>3, TypesAreOk DEF Type
  <2>2. start_wire_index' \in Nat /\ start_wire_index' <= Type'.wires
    BY <1>2, <1>3, <2>1
  <2>3. MoreTypes'
    BY <1>2 DEF MoreTypes
  <2> QED
    BY <1>1, <1>2, <2>2, <2>3 DEF Counters
<1>5. Searching'
  BY <1>2 DEF Searching
<1>6. Kept(Current)'
  BY <1>1, <1>2 DEF Current
<1>7. ASSUME NEW tt, NEW start, NEW n, NEW key, NEW path, Entry(tt, start, n, key, path)
      PROVE  Met(tt, start, n) <=> Met(tt, start, n)'
  <2>1. tt \in 1..Len(tileTypes) /\ start \in Wires(tileTypes[tt])
    BY <1>3, <1>7, EntryKey
  <2>2. start \in Nat
    BY <1>3, <2>1, TypesAreOk DEF Wires
  <2>3. tt = tile_type_idx => start # start_wire_index
    BY <1>2, <1>7 DEF Entry, Type
  <2> QED
    BY <1>2, <1>3, <2>1, <2>2, <2>3 DEF Met, Settled
<1>8. Contents'
  BY <1>1, <1>2, <1>7, ContentsKept
<1> QED
  BY <1>4, <1>5, <1>6, <1>8 DEF SearchInv

(* The search from a wire starts at the root. *)
LEMMA StartWireSearches ==
  SearchInv /\ StartWire => SearchInv'
<1> SUFFICES ASSUME SearchInv, StartWire PROVE SearchInv'
  OBVIOUS
<1>1. Counters /\ Searching /\ Kept(Current) /\ Contents
  BY DEF SearchInv
<1> DEFINE root == make_init_wire_pip_node(Type, start_wire_index)
<1>2. /\ pc = "enum" /\ MoreTypes /\ tileTypes' = tileTypes /\ depth_i' = 0 /\ ~Unused(Type)
      /\ start_wire_index < Type.wires /\ start_wire_index \in outbound_only_wires(Type)
      /\ tile_type_idx' = tile_type_idx
      /\ paths' = paths /\ wire_pairs' = wire_pairs
      /\ wpns' = <<[parent |-> 0, wire_id |-> start_wire_index]>> /\ base_offset' = 0
  BY DEF StartWire, Enumerable
<1>3. /\ tileTypes \in TileTypeLists /\ tile_type_idx \in 1..Len(tileTypes) /\ Len(tileTypes) \in Nat
      /\ start_wire_index \in Nat /\ TypeOk(Type) /\ Type.wires \in Nat
  BY <1>1, <1>2, TypesAreOk DEF Counters, MoreTypes, Type
<1>4. Kept(Current)'
  BY <1>1, <1>2 DEF Current
<1>5. Type' = Type /\ MoreTypes'
  BY <1>2 DEF Type, MoreTypes
<1>6. MaxDepth \in Nat
  BY TilePathsAssumption
<1>7. CASE MaxDepth > 0
  <2>1. pc' = "grow" /\ StartThreads(<<root>>) /\ start_wire_index' = start_wire_index
    BY <1>7 DEF StartWire
  <2>2. Counters'
    BY <1>1, <1>2, <1>3, <1>5, <2>1 DEF Counters
  <2>3. Searching'
    <3> DEFINE t == [p \in 1..1 |-> <<start_wire_index>>]
               m == IF Len(<<root>>) > ManyHeads THEN Concurrency ELSE 1
    <3>1. LevelOk(Type, start_wire_index, wpns', base_offset', <<root>>, 1, t)
      <4> HIDE DEF root, t
      <4>1. LevelOk(Type, start_wire_index, <<[parent |-> 0, wire_id |-> start_wire_index]>>, 0,
                    <<root>>, 1, t)
        BY <1>2, <1>3, LevelStarts DEF root, t
      <4> QED
        BY <1>2, <4>1
    <3>2. m \in Nat \ {0}
      BY TilePathsAssumption
    <3>3. wpn' = <<root>> /\ next_wpn' = [i \in 1..m |-> <<>>] /\ head_index' = [i \in 1..m |-> i]
      BY <2>1 DEF StartThreads
    <3> HIDE DEF root, m, t
    <3>4. <<root>> \in Seq(HeadSet)
      BY <3>1 DEF LevelOk
    <3>5. ThreadsOk(Type, base_offset', wpn', next_wpn', head_index', t)
      BY <3>2, <3>3, <3>4, ThreadsStart
    <3>6. LevelOk(Type, start_wire_index, wpns', base_offset', wpn', depth_i' + 1, t)
      <4>1. depth_i' + 1 = 1
        BY <1>2
      <4> QED
        BY <3>1, <3>3, <4>1
    <3>7. \E t2 : /\ LevelOk(Type', start_wire_index', wpns', base_offset', wpn', depth_i' + 1, t2)
                  /\ ThreadsOk(Type', base_offset', wpn', next_wpn', head_index', t2)
      BY <1>5, <2>1, <3>5, <3>6
    <3> QED
      BY <1>2, <1>5, <1>6, <1>7, <2>1, <3>7 DEF Searching
  <2>4. ASSUME NEW tt, NEW start, NEW n, NEW key, NEW path, Entry(tt, start, n, key, path)
        PROVE  Met(tt, start, n) <=> Met(tt, start, n)'
    <3>1. n \in Nat /\ n >= 2
      BY <2>4 DEF Entry
    <3>2. ~(n <= depth_i' + 1)
      BY <1>2, <3>1
    <3> QED
      BY <1>2, <2>1, <3>2 DEF Met, Settled
  <2>5. Contents'
    BY <1>1, <1>2, <2>4, ContentsKept
  <2> QED
    BY <1>4, <2>2, <2>3, <2>5 DEF SearchInv
<1>8. CASE ~(MaxDepth > 0)
  <2>1. pc' = pc /\ start_wire_index' = start_wire_index + 1 /\ wpn' = wpn
    BY <1>8 DEF StartWire
  <2>2. Counters'
    <3>1. start_wire_index' \in Nat /\ start_wire_index' <= Type'.wires
      BY <1>2, <1>3, <1>5, <2>1
    <3> QED
      BY <1>1, <1>2, <1>3, <1>5, <2>1, <3>1 DEF Counters
  <2>3. Searching'
    BY <1>2, <2>1 DEF Searching
  <2>4. ASSUME NEW tt, NEW start, NEW n, NEW key, NEW path, Entry(tt, start, n, key, path)
        PROVE  FALSE
    <3>1. n \in Nat /\ n >= 2 /\ n - 2 < MaxDepth
      BY <1>3, <2>4, EntryKey
    <3> QED
      BY <1>6, <1>8, <3>1
  <2>5. Contents'
    BY <1>1, <1>2, <2>4, ContentsKept
  <2> QED
    BY <1>4, <2>2, <2>3, <2>5 DEF SearchInv
<1> QED
  BY <1>7, <1>8

(* A thread that grows a head leaves the level as it is, and aborts at none. *)
LEMMA GrowSearches ==
  ASSUME NEW i, SearchInv, Grow(i)
  PROVE  SearchInv'
<1>1. Counters /\ Searching /\ Kept(Current) /\ Contents
  BY DEF SearchInv
<1>2. /\ pc = "grow" /\ i \in DOMAIN head_index /\ head_index[i] <= Len(wpn)
      /\ tileTypes' = tileTypes /\ tile_type_idx' = tile_type_idx /\ depth_i' = depth_i
      /\ start_wire_index' = start_wire_index /\ wpns' = wpns /\ base_offset' = base_offset
      /\ wpn' = wpn /\ paths' = paths /\ wire_pairs' = wire_pairs
  BY DEF Grow
<1>3. /\ tileTypes \in TileTypeLists /\ tile_type_idx \in 1..Len(tileTypes) /\ Len(tileTypes) \in Nat
      /\ MoreTypes /\ TypeOk(Type) /\ start_wire_index \in outbound_only_wires(Type)
      /\ depth_i \in Nat
  BY <1>1, <1>2, TypesAreOk DEF Counters, Searching, MoreTypes, Type
<1>4. Type' = Type /\ MoreTypes'
  BY <1>2, <1>3 DEF Type, MoreTypes
<1>5. PICK t : /\ LevelOk(Type, start_wire_index, wpns, base_offset, wpn, depth_i + 1, t)
               /\ ThreadsOk(Type, base_offset, wpn, next_wpn, head_index, t)
  BY <1>1, <1>2 DEF Searching
<1> DEFINE k == head_index[i]
           parent == base_offset + k
           c == wpn[k]
           w == t[parent]
<1>6. /\ head_index \in Seq(Nat) /\ i \in 1..Len(head_index) /\ k \in 1..Len(wpn)
      /\ wpn \in Seq(HeadSet) /\ base_offset \in Nat /\ Len(wpns) = base_offset + Len(wpn)
  <2>1. /\ head_index \in Seq(Nat) /\ \A j \in 1..Len(head_index) : head_index[j] >= j
    BY <1>5 DEF ThreadsOk
  <2>2. i \in 1..Len(head_index)
    BY <1>2, <2>1
  <2>3. wpn \in Seq(HeadSet) /\ base_offset \in Nat /\ Len(wpns) = base_offset + Len(wpn)
    BY <1>5 DEF LevelOk
  <2>4. k \in Nat /\ k >= 1
    BY <2>1, <2>2
  <2> QED
    BY <1>2, <2>1, <2>2, <2>3, <2>4
<1>7. w \in Live(Type, start_wire_index, depth_i + 1) /\ Knows(Type, w, c)
      /\ Nodes(wpns) /\ Trails(wpns, t)
  <2> HIDE DEF k
  <2> QED
    BY <1>5, <1>6 DEF LevelOk
<1>8. parent \in 1..Len(wpns) /\ parent \in Nat
  <2> HIDE DEF k
  <2> QED
    BY <1>6
<1>9. touched_wires(parent) = Range(w) /\ Len(Chain(parent)) = Len(w)
  <2> HIDE DEF parent
  <2> QED
    BY <1>7, <1>8, ChainIsTrail
<1>10. depth_i + 1 \in Nat /\ depth_i + 1 >= 1
  BY <1>3
<1> HIDE DEF w, c, parent
<1>11. /\ ~GrowAborts(parent, c)
       /\ GrowHead(parent, c) \in Seq(HeadSet) /\ IsInjective(GrowHead(parent, c))
       /\ Range(GrowHead(parent, c)) = Sprouts(Type, w, parent)
  BY <1>3, <1>7, <1>8, <1>9, <1>10, GrowHeadIs
<1>12. /\ next_wpn' = [next_wpn EXCEPT ![i] = @ \o GrowHead(parent, c)]
       /\ head_index' = [head_index EXCEPT ![i] = @ + Len(head_index)]
       /\ pc' = pc
  BY <1>11 DEF Grow, parent, c, k
<1>13. ThreadsOk(Type, base_offset, wpn, next_wpn', head_index', t)
  <2> DEFINE more == GrowHead(parent, c)
  <2>1. more \in Seq(HeadSet) /\ IsInjective(more)
        /\ Range(more) = Sprouts(Type, t[base_offset + head_index[i]], base_offset + head_index[i])
    BY <1>11 DEF parent, w, k
  <2> HIDE DEF more
  <2>2. ThreadsOk(Type, base_offset, wpn, [next_wpn EXCEPT ![i] = @ \o more],
                  [head_index EXCEPT ![i] = @ + Len(head_index)], t)
    BY <1>2, <1>5, <1>6, <2>1, ThreadGrows
  <2> QED
    BY <1>12, <2>2 DEF more
<1>14. Counters'
  <2>1. start_wire_index' <= Type'.wires
    BY <1>1, <1>2, <1>3, <1>4 DEF Counters
  <2>2. tile_type_idx' \in 1..(Len(tileTypes') + 1)
    BY <1>1, <1>2 DEF Counters
  <2> QED
    BY <1>1, <1>2, <1>4, <1>12, <2>1, <2>2 DEF Counters
<1>15. Searching'
  <2>1. LevelOk(Type', start_wire_index', wpns', base_offset', wpn', depth_i' + 1, t)
    BY <1>2, <1>4, <1>5
  <2>2. ThreadsOk(Type', base_offset', wpn', next_wpn', head_index', t)
    BY <1>2, <1>4, <1>13
  <2>3. \E t2 : /\ LevelOk(Type', start_wire_index', wpns', base_offset', wpn', depth_i' + 1, t2)
                /\ ThreadsOk(Type', base_offset', wpn', next_wpn', head_index', t2)
    BY <2>1, <2>2
  <2> QED
    BY <1>1, <1>2, <1>4, <2>3 DEF Searching
<1>16. Kept(Current)'
  BY <1>1, <1>2 DEF Current
<1>17. Contents'
  <2>1. \A tt, start, n : Met(tt, start, n) <=> Met(tt, start, n)'
    BY <1>2, <1>12 DEF Met, Settled
  <2> QED
    BY <1>1, <1>2, <2>1, ContentsKept
<1> QED
  BY <1>14, <1>15, <1>16, <1>17 DEF SearchInv

(* The new level is that of the walks of one wire more, and those that end are stored. *)
LEMMA JoinSearches ==
  SearchInv /\ Join => SearchInv'
<1> SUFFICES ASSUME SearchInv, Join PROVE SearchInv'
  OBVIOUS
<1>1. Counters /\ Searching /\ Kept(Current) /\ Contents
  BY DEF SearchInv
<1> DEFINE heads == FlattenSeq(next_wpn)
           all == Joined(wpns, heads)
           stored == StorePaths(all, Len(wpns))
           n == depth_i + 2
           tt == tile_type_idx
           start == start_wire_index
<1>2. /\ pc = "grow" /\ \A i \in DOMAIN head_index : head_index[i] > Len(wpn)
      /\ wpns' = all /\ base_offset' = Len(wpns) /\ paths' = stored.paths
      /\ wire_pairs' = stored.wire_pairs /\ depth_i' = depth_i + 1
      /\ tileTypes' = tileTypes /\ tile_type_idx' = tile_type_idx
      /\ IF heads # <<>> /\ depth_i + 1 < MaxDepth
         THEN StartThreads(heads) /\ pc' = pc /\ start_wire_index' = start_wire_index
         ELSE pc' = "enum" /\ start_wire_index' = start_wire_index + 1 /\ wpn' = <<>>
  BY DEF Join, Joined
<1>3. /\ tileTypes \in TileTypeLists /\ tile_type_idx \in 1..Len(tileTypes) /\ Len(tileTypes) \in Nat
      /\ MoreTypes /\ TypeOk(Type) /\ start_wire_index \in outbound_only_wires(Type)
      /\ depth_i \in Nat /\ tile_type_idx \in DOMAIN tileTypes /\ ~Unused(Type)
      /\ start_wire_index \in Nat /\ depth_i < MaxDepth /\ Type.wires \in Nat
  BY <1>1, <1>2, TypesAreOk DEF Counters, Searching, MoreTypes, Type
<1>4. Type' = Type /\ MoreTypes'
  BY <1>2, <1>3 DEF Type, MoreTypes
<1>5. PICK t : /\ LevelOk(Type, start, wpns, base_offset, wpn, depth_i + 1, t)
               /\ ThreadsOk(Type, base_offset, wpn, next_wpn, head_index, t)
  BY <1>1, <1>2 DEF Searching
<1>6. Past(wpn, head_index)
  <2>1. head_index \in Seq(Nat)
    BY <1>5 DEF ThreadsOk
  <2>2. DOMAIN head_index = 1..Len(head_index)
    BY <2>1
  <2> QED
    BY <1>2, <2>2 DEF Past
<1>7. PICK t2 : LevelOk(Type, start, all, Len(wpns), heads, n, t2)
  <2>1. depth_i + 1 \in Nat /\ depth_i + 1 >= 1 /\ (depth_i + 1) + 1 = n
    BY <1>3
  <2> HIDE DEF n
  <2> QED
    BY <1>3, <1>5, <1>6, <2>1, JoinLevel
<1> HIDE DEF heads, all
<1>8. Len(wpns) \in Nat \ {0}
  BY <1>5 DEF LevelOk, Nodes
<1>9. ASSUME NEW key, NEW path, Has(Current, key, path)
      PROVE  ~(key[1] = tile_type_idx - 1 /\ key[2] = start_wire_index /\ key[4] = depth_i)
  <2>1. PICK a, b, m : Entry(a, b, m, key, path) /\ Met(a, b, m)
    BY <1>1, <1>9 DEF Contents
  <2>2. key[1] = a - 1 /\ key[2] = b /\ key[4] = m - 2 /\ a \in 1..Len(tileTypes) /\ m \in Nat
    BY <1>3, <2>1, EntryKey
  <2> SUFFICES ASSUME a - 1 = tile_type_idx - 1, b = start_wire_index, m - 2 = depth_i PROVE FALSE
    BY <2>2
  <2>3. a = tile_type_idx /\ ~(m <= depth_i + 1)
    BY <1>3, <2>2
  <2>4. ~(a < tile_type_idx) /\ ~(b < start_wire_index)
    BY <1>3, <2>3
  <2> QED
    BY <2>1, <2>3, <2>4 DEF Met, Settled
<1>10. /\ Kept(stored)
       /\ \A key, path : Has(stored, key, path) <=>
            Has(Current, key, path) \/ LevelHas(Type, tt - 1, start, n, key, path)
  BY <1>1, <1>3, <1>7, <1>8, <1>9, StoreLevel
<1> HIDE DEF stored
<1>11. Current'.paths = stored.paths /\ Current'.wire_pairs = stored.wire_pairs
  BY <1>2 DEF Current
<1>12. Kept(Current)'
  <2> DEFINE P == stored.paths
             W == stored.wire_pairs
  <2>1. /\ P \in Seq(Seq(Nat)) /\ IsInjective(P)
        /\ \A key \in DOMAIN W :
             /\ key \in Keys
             /\ W[key] \in Seq(1..Len(P)) /\ W[key] # <<>>
             /\ IsInjective(W[key])
             /\ \A i \in 1..Len(W[key]) : Len(P[W[key][i]]) = key[4]
        /\ \A id \in 1..Len(P) : \E key \in DOMAIN W : \E i \in 1..Len(W[key]) : W[key][i] = id
    BY <1>10 DEF Kept
  <2>2. (Current').paths = P /\ (Current').wire_pairs = W
    BY <1>11
  <2> HIDE DEF P, W
  <2>3. Kept(Current')
    BY <2>1, <2>2 DEF Kept
  <2> QED
    BY <2>3
<1>13. \A key, path : Has(Current', key, path) <=> Has(stored, key, path)
  BY <1>11 DEF Has
<1>14. \A a, b, m, key, path : Entry(a, b, m, key, path) <=> Entry(a, b, m, key, path)'
  BY <1>2 DEF Entry
<1>15. n \in Nat /\ n >= 2 /\ n = depth_i' + 1
  BY <1>2, <1>3
<1>16. \A key, path : LevelHas(Type, tt - 1, start, n, key, path) <=> Entry(tt, start, n, key, path)
  BY <1>3, <1>15 DEF Entry, Type
<1>17. CASE heads # <<>> /\ depth_i + 1 < MaxDepth
  <2>1. StartThreads(heads) /\ pc' = "grow" /\ start_wire_index' = start
    BY <1>2, <1>17
  <2>2. Counters'
    <3>1. start_wire_index' <= Type'.wires
      BY <1>1, <1>3, <1>4, <2>1 DEF Counters
    <3>2. depth_i' \in Nat
      BY <1>2, <1>3
    <3>3. tile_type_idx' \in 1..(Len(tileTypes') + 1)
      BY <1>1, <1>2 DEF Counters
    <3>4. start_wire_index' \in Nat
      BY <1>3, <2>1
    <3> QED
      BY <1>2, <1>3, <1>4, <2>1, <3>1, <3>2, <3>3, <3>4 DEF Counters
  <2>3. Searching'
    <3> DEFINE m == IF Len(heads) > ManyHeads THEN Concurrency ELSE 1
    <3>1. m \in Nat \ {0}
      BY TilePathsAssumption
    <3>2. wpn' = heads /\ next_wpn' = [i \in 1..m |-> <<>>] /\ head_index' = [i \in 1..m |-> i]
      BY <2>1 DEF StartThreads
    <3> HIDE DEF m
    <3>3. heads \in Seq(HeadSet)
      BY <1>7 DEF LevelOk
    <3>4. ThreadsOk(Type', base_offset', wpn', next_wpn', head_index', t2)
      BY <3>1, <3>2, <3>3, ThreadsStart
    <3>5. LevelOk(Type', start_wire_index', wpns', base_offset', wpn', depth_i' + 1, t2)
      BY <1>2, <1>4, <1>7, <1>15, <2>1, <3>2
    <3>6. \E t3 : /\ LevelOk(Type', start_wire_index', wpns', base_offset', wpn', depth_i' + 1, t3)
                  /\ ThreadsOk(Type', base_offset', wpn', next_wpn', head_index', t3)
      BY <3>4, <3>5
    <3>7. depth_i' < MaxDepth
      BY <1>2, <1>17
    <3> QED
      BY <1>3, <1>4, <2>1, <3>6, <3>7 DEF Searching
  <2>4. Contents'
    <3>1. ASSUME NEW a, NEW b, NEW m, NEW key, NEW path, Entry(a, b, m, key, path)
          PROVE  Met(a, b, m)' <=> Met(a, b, m) \/ (a = tt /\ b = start /\ m = n)
      <4>1. m \in Nat
        BY <3>1 DEF Entry
      <4>2. m <= depth_i' + 1 <=> m <= depth_i + 1 \/ m = n
        BY <1>2, <1>3, <4>1
      <4> HIDE DEF n
      <4> QED
        BY <1>2, <2>1, <4>2 DEF Met, Settled
    <3>2. ASSUME NEW key, NEW path
          PROVE  Has(Current', key, path) <=>
                   \E a, b, m : Entry(a, b, m, key, path)' /\ Met(a, b, m)'
      <4> HIDE DEF n
      <4>1. Has(Current', key, path) <=> \/ \E a, b, m : Entry(a, b, m, key, path) /\ Met(a, b, m)
                                         \/ Entry(tt, start, n, key, path)
        BY <1>1, <1>10, <1>13, <1>16, Zenon DEF Contents
      <4>2. (\E a, b, m : Entry(a, b, m, key, path)' /\ Met(a, b, m)') <=>
              \E a, b, m : Entry(a, b, m, key, path) /\ (Met(a, b, m) \/ (a = tt /\ b = start /\ m = n))
        BY <1>14, <3>1, Zenon
      <4> QED
        BY <4>1, <4>2, Zenon
    <3> QED
      BY <3>2 DEF Contents
  <2> QED
    BY <1>12, <2>2, <2>3, <2>4 DEF SearchInv
<1>18. CASE ~(heads # <<>> /\ depth_i + 1 < MaxDepth)
  <2>1. pc' = "enum" /\ start_wire_index' = start + 1 /\ wpn' = <<>>
    BY <1>2, <1>18
  <2>2. Counters'
    <3>1. start_wire_index' <= Type'.wires
      <4>1. start \in Wires(Type)
        BY <1>3, WiresAreSmall DEF outbound_only_wires
      <4> QED
        BY <1>3, <1>4, <2>1, <4>1 DEF Wires
    <3>2. depth_i' \in Nat /\ start_wire_index' \in Nat
      BY <1>2, <1>3, <2>1
    <3>3. tile_type_idx' \in 1..(Len(tileTypes') + 1)
      BY <1>1, <1>2 DEF Counters
    <3> QED
      BY <1>2, <1>3, <1>4, <2>1, <3>1, <3>2, <3>3 DEF Counters
  <2>3. Searching'
    BY <2>1 DEF Searching
  <2>4. ASSUME NEW m, NEW key, NEW path, Entry(tt, start, m, key, path)
        PROVE  m <= n
    <3>1. m \in Nat /\ m >= 2 /\ m - 2 < MaxDepth
      BY <1>3, <2>4, EntryKey
    <3>2. MaxDepth \in Nat
      BY TilePathsAssumption
    <3>3. CASE ~(depth_i + 1 < MaxDepth)
      BY <1>3, <3>1, <3>2, <3>3
    <3>4. CASE heads = <<>>
      <4>1. Live(Type, start, n) = {}
        <5>1. \A w \in Live(Type, start, n) : \E k \in 1..Len(heads) : w = t2[Len(wpns) + k]
          BY <1>7 DEF LevelOk
        <5>2. 1..Len(heads) = {}
          BY <3>4
        <5> QED
          BY <5>1, <5>2
      <4>2. Live(Type, start, m) # {}
        BY <2>4 DEF Entry, LevelHas, Type
      <4>3. ~(m >= n)
        <5> HIDE DEF n
        <5>1. n \in Nat /\ n >= 1
          BY <1>15
        <5>2. \A j \in Nat : j >= n => Live(Type, start, j) = {}
          BY <1>3, <4>1, <5>1, LiveEnds
        <5> QED
          BY <3>1, <4>2, <5>2
      <4> QED
        BY <1>3, <3>1, <4>3
    <3> QED
      BY <1>18, <3>3, <3>4
  <2>5. Contents'
    <3>1. ASSUME NEW a, NEW b, NEW m, NEW key, NEW path, Entry(a, b, m, key, path)
          PROVE  Met(a, b, m)' <=> Met(a, b, m) \/ (a = tt /\ b = start /\ m = n)
      <4>1. m \in Nat /\ b \in Nat
        <5>1. m \in Nat /\ b \in Wires(tileTypes[a]) /\ a \in DOMAIN tileTypes
          BY <1>3, <3>1, EntryKey, TypesAreOk
        <5> QED
          BY <1>3, <5>1, TypesAreOk, WiresAreSmall
      <4>2. a = tt /\ b = start => m <= n
        BY <2>4, <3>1
      <4>3. m <= n <=> m <= depth_i + 1 \/ m = n
        BY <1>3, <4>1
      <4>4. b < start + 1 <=> b < start \/ b = start
        BY <1>3, <4>1
      <4> HIDE DEF n
      <4> QED
        BY <1>2, <2>1, <4>2, <4>3, <4>4 DEF Met, Settled
    <3>2. ASSUME NEW key, NEW path
          PROVE  Has(Current', key, path) <=>
                   \E a, b, m : Entry(a, b, m, key, path)' /\ Met(a, b, m)'
      <4> HIDE DEF n
      <4>1. Has(Current', key, path) <=> \/ \E a, b, m : Entry(a, b, m, key, path) /\ Met(a, b, m)
                                         \/ Entry(tt, start, n, key, path)
        BY <1>1, <1>10, <1>13, <1>16, Zenon DEF Contents
      <4>2. (\E a, b, m : Entry(a, b, m, key, path)' /\ Met(a, b, m)') <=>
              \E a, b, m : Entry(a, b, m, key, path) /\ (Met(a, b, m) \/ (a = tt /\ b = start /\ m = n))
        BY <1>14, <3>1, Zenon
      <4> QED
        BY <4>1, <4>2, Zenon
    <3> QED
      BY <3>2 DEF Contents
  <2> QED
    BY <1>12, <2>2, <2>3, <2>5 DEF SearchInv
<1> QED
  BY <1>17, <1>18

(* Laying out changes nothing of what was found. *)
LEMMA RestSearches ==
  ASSUME SearchInv, StoreInFile \/ UNCHANGED vars
  PROVE  SearchInv'
<1>1. Counters /\ Searching /\ Kept(Current) /\ Contents
  BY DEF SearchInv
<1>2. /\ tileTypes' = tileTypes /\ tile_type_idx' = tile_type_idx /\ depth_i' = depth_i
      /\ start_wire_index' = start_wire_index /\ wpns' = wpns /\ base_offset' = base_offset
      /\ wpn' = wpn /\ next_wpn' = next_wpn /\ head_index' = head_index
      /\ paths' = paths /\ wire_pairs' = wire_pairs
      /\ pc' = pc \/ (pc = "enum" /\ ~MoreTypes /\ pc' \in {"done", "aborted"})
  BY DEF StoreInFile, vars, search
<1>3. (Type' = Type) /\ (MoreTypes' <=> MoreTypes)
  BY <1>2 DEF Type, MoreTypes
<1>4. Counters'
  <2>1. MoreTypes' => start_wire_index' <= Type'.wires
    BY <1>1, <1>2, <1>3 DEF Counters
  <2>2. tile_type_idx' \in 1..(Len(tileTypes') + 1)
    BY <1>1, <1>2 DEF Counters
  <2> QED
    BY <1>1, <1>2, <1>3, <2>1, <2>2 DEF Counters
<1>5. Searching'
  <2>1. SUFFICES ASSUME pc' = "grow" PROVE Searching'
    BY DEF Searching
  <2>2. pc = "grow"
    BY <1>2, <2>1
  <2>3. PICK t : /\ LevelOk(Type, start_wire_index, wpns, base_offset, wpn, depth_i + 1, t)
                 /\ ThreadsOk(Type, base_offset, wpn, next_wpn, head_index, t)
    BY <1>1, <2>2 DEF Searching
  <2>4. /\ LevelOk(Type', start_wire_index', wpns', base_offset', wpn', depth_i' + 1, t)
        /\ ThreadsOk(Type', base_offset', wpn', next_wpn', head_index', t)
    BY <1>2, <1>3, <2>3
  <2>5. \E t2 : /\ LevelOk(Type', start_wire_index', wpns', base_offset', wpn', depth_i' + 1, t2)
                /\ ThreadsOk(Type', base_offset', wpn', next_wpn', head_index', t2)
    BY <2>4
  <2> QED
    BY <1>1, <1>2, <1>3, <2>2, <2>5 DEF Searching
<1>6. Kept(Current)'
  BY <1>1, <1>2 DEF Current
<1>7. \A tt, start, n : Met(tt, start, n) <=> Met(tt, start, n)'
  BY <1>2 DEF Met, Settled
<1>8. Contents'
  BY <1>1, <1>2, <1>7, ContentsKept
<1> QED
  BY <1>4, <1>5, <1>6, <1>8 DEF SearchInv

(* Every step keeps the invariant of the search. *)
LEMMA SearchGoesOn ==
  SearchInv /\ [Next]_vars => SearchInv'
<1> SUFFICES ASSUME SearchInv, [Next]_vars PROVE SearchInv'
  OBVIOUS
<1>1. CASE NextType
  BY <1>1, NextTypeSearches
<1>2. CASE SkipWire
  BY <1>2, SkipWireSearches
<1>3. CASE StartWire
  BY <1>3, StartWireSearches
<1>4. CASE Join
  BY <1>4, JoinSearches
<1>5. CASE StoreInFile
  BY <1>5, RestSearches
<1>6. CASE \E i \in 1..Concurrency : Grow(i)
  BY <1>6, GrowSearches
<1>7. CASE Ended
  BY <1>7, RestSearches DEF Ended
<1>8. CASE UNCHANGED vars
  BY <1>8, RestSearches
<1> QED
  BY <1>1, <1>2, <1>3, <1>4, <1>5, <1>6, <1>7, <1>8 DEF Next

(* What is stored is numbered as set_path numbers it. *)
LEMMA KeptIsNumbered ==
  ASSUME Kept(Current)
  PROVE  PathsNumbered
<1>1. Current.paths = paths /\ Current.wire_pairs = wire_pairs
  BY DEF Current
<1>2. IsInjective(paths) /\ paths \in Seq(Seq(Nat))
  BY <1>1 DEF Kept
<1>3. ASSUME NEW key \in DOMAIN wire_pairs
      PROVE  /\ wire_pairs[key] # <<>> /\ IsInjective(wire_pairs[key])
             /\ \A id \in ToSet(wire_pairs[key]) : id \in DOMAIN paths /\ Len(paths[id]) = key[4]
  <2> DEFINE ids == wire_pairs[key]
  <2>1. /\ ids \in Seq(1..Len(paths)) /\ ids # <<>> /\ IsInjective(ids)
        /\ \A i \in 1..Len(ids) : Len(paths[ids[i]]) = key[4]
    BY <1>1, <1>3 DEF Kept
  <2> HIDE DEF ids
  <2>2. ASSUME NEW id \in ToSet(ids) PROVE id \in DOMAIN paths /\ Len(paths[id]) = key[4]
    <3>1. PICK i \in 1..Len(ids) : id = ids[i]
      BY <2>1, <2>2 DEF ToSet
    <3>2. ids[i] \in 1..Len(paths)
      BY <2>1
    <3>3. DOMAIN paths = 1..Len(paths)
      BY <1>2
    <3> QED
      BY <2>1, <3>1, <3>2, <3>3
  <2> QED
    BY <2>1, <2>2 DEF ids
<1> QED
  BY <1>2, <1>3 DEF PathsNumbered

(* A level of heads has no more wires on its walks than there are. *)
LEMMA SearchEndsByItself ==
  SearchInv => EndsByItself
<1> SUFFICES ASSUME SearchInv, wpn # <<>>
             PROVE  depth_i <= Cardinality(bidirectional_wires(Type)) + 1
  BY DEF EndsByItself
<1>1. Counters /\ Searching
  BY DEF SearchInv
<1>2. /\ pc = "grow" /\ tileTypes \in TileTypeLists /\ TypeOk(Type) /\ depth_i \in Nat
      /\ start_wire_index \in outbound_only_wires(Type)
  BY <1>1, TypesAreOk DEF Counters, Searching, MoreTypes, Type
<1>3. PICK t : LevelOk(Type, start_wire_index, wpns, base_offset, wpn, depth_i + 1, t)
  BY <1>1, <1>2 DEF Searching
<1> DEFINE w == t[base_offset + 1]
           n == depth_i + 1
<1>4. w \in Live(Type, start_wire_index, n)
  <2>1. wpn \in Seq(HeadSet) /\ \A k \in 1..Len(wpn) : t[base_offset + k] \in Live(Type, start_wire_index, n)
    BY <1>3 DEF LevelOk
  <2>2. 1 \in 1..Len(wpn)
    BY <2>1
  <2> QED
    BY <2>1, <2>2
<1>5. Cardinality(bidirectional_wires(Type)) \in Nat
  BY <1>2, BidirectionalFinite
<1>6. CASE depth_i = 0
  BY <1>5, <1>6
<1>7. CASE depth_i # 0
  <2>1. n \in Nat /\ n >= 2
    BY <1>2, <1>7
  <2> HIDE DEF n, w
  <2>2. n - 2 <= Cardinality(bidirectional_wires(Type))
    <3>1. /\ w \in Seq(Nat) /\ Len(w) = n /\ IsInjective(w)
          /\ \A i \in 2..(n - 1) : w[i] \in bidirectional_wires(Type)
      BY <1>2, <1>4, <2>1, LiveWalk
    <3> QED
      BY <1>2, <2>1, <3>1, LiveLength
  <2> QED
    BY <1>2, <1>5, <2>2 DEF n
<1> QED
  BY <1>6, <1>7

(* When a wire was searched from, the paths stored for it are its direct ones. *)
LEMMA StoredPathsAre ==
  ASSUME SearchInv, NEW tt \in DOMAIN tileTypes, NEW start \in Wires(tileTypes[tt]),
         Settled(tt, start)
  PROVE  StoredPaths(tt, start) =
           IF Unused(tileTypes[tt]) \/ start \notin outbound_only_wires(tileTypes[tt])
           THEN {} ELSE DirectPaths(tileTypes[tt], start)
<1>1. Counters /\ Kept(Current) /\ Contents
  BY DEF SearchInv
<1>2. /\ tileTypes \in TileTypeLists /\ tt \in 1..Len(tileTypes) /\ Len(tileTypes) \in Nat
      /\ TypeOk(tileTypes[tt]) /\ tile_type_idx \in Nat
  BY <1>1, TypesAreOk DEF Counters
<1> DEFINE type == tileTypes[tt]
<1>3. ASSUME NEW x
      PROVE  x \in StoredPaths(tt, start) <=>
               \E key, path : /\ Has(Current, key, path) /\ key[1] = tt - 1 /\ key[2] = start
                              /\ x = <<Reverse(path), key[3]>>
  <2>1. x \in StoredPaths(tt, start) <=>
          \E key \in DOMAIN wire_pairs :
            /\ key[1] = tt - 1 /\ key[2] = start
            /\ \E id \in Range(wire_pairs[key]) : x = <<Reverse(paths[id]), key[3]>>
    BY DEF StoredPaths
  <2>2. ASSUME NEW key \in DOMAIN wire_pairs
        PROVE  (\E id \in Range(wire_pairs[key]) : x = <<Reverse(paths[id]), key[3]>>) <=>
                 \E path : Has(Current, key, path) /\ x = <<Reverse(path), key[3]>>
    <3> DEFINE ids == wire_pairs[key]
    <3>1. ids \in Seq(1..Len(paths))
      BY <1>1, <2>2 DEF Kept, Current
    <3>2. \A path : Has(Current, key, path) <=> \E i \in 1..Len(ids) : path = paths[ids[i]]
      BY <2>2 DEF Has, Current
    <3> HIDE DEF ids
    <3>3. \A id : id \in Range(ids) <=> \E i \in 1..Len(ids) : id = ids[i]
      BY <3>1 DEF Range
    <3>4. ASSUME NEW id \in Range(ids), x = <<Reverse(paths[id]), key[3]>>
          PROVE  \E path : Has(Current, key, path) /\ x = <<Reverse(path), key[3]>>
      BY <3>2, <3>3, <3>4, Zenon
    <3>5. ASSUME NEW path, Has(Current, key, path), x = <<Reverse(path), key[3]>>
          PROVE  \E id \in Range(ids) : x = <<Reverse(paths[id]), key[3]>>
      <4>1. PICK i \in 1..Len(ids) : path = paths[ids[i]]
        BY <3>2, <3>5
      <4>2. ids[i] \in Range(ids)
        BY <3>3
      <4> QED
        BY <3>5, <4>1, <4>2, Zenon
    <3> QED
      BY <3>4, <3>5, Zenon DEF ids
  <2>3. \A key, path : Has(Current, key, path) => key \in DOMAIN wire_pairs
    BY DEF Has, Current
  <2> QED
    BY <2>1, <2>2, <2>3, Zenon
<1>4. ASSUME NEW key, NEW path, key[1] = tt - 1, key[2] = start
      PROVE  Has(Current, key, path) <=> \E n : Entry(tt, start, n, key, path)
  <2>1. ASSUME NEW n, Entry(tt, start, n, key, path) PROVE Has(Current, key, path)
    <3>1. Met(tt, start, n)
      BY DEF Met
    <3> QED
      BY <1>1, <2>1, <3>1 DEF Contents
  <2>2. ASSUME Has(Current, key, path) PROVE \E n : Entry(tt, start, n, key, path)
    <3>1. PICK a, b, n : Entry(a, b, n, key, path)
      BY <1>1, <2>2 DEF Contents
    <3>2. key[1] = a - 1 /\ key[2] = b /\ a \in 1..Len(tileTypes)
      BY <1>2, <3>1, EntryKey
    <3>3. a = tt /\ b = start
      BY <1>2, <1>4, <3>2
    <3> QED
      BY <3>1, <3>3
  <2> QED
    BY <2>1, <2>2
<1>5. \A n, key, path : Entry(tt, start, n, key, path) => key[1] = tt - 1 /\ key[2] = start
  BY <1>2, EntryKey
<1>6. \A x : x \in StoredPaths(tt, start) <=>
        \E n, key, path : Entry(tt, start, n, key, path) /\ x = <<Reverse(path), key[3]>>
  <2> TAKE x
  <2>1. ASSUME x \in StoredPaths(tt, start)
        PROVE  \E n, key, path : Entry(tt, start, n, key, path) /\ x = <<Reverse(path), key[3]>>
    <3>1. PICK key, path : /\ Has(Current, key, path) /\ key[1] = tt - 1 /\ key[2] = start
                           /\ x = <<Reverse(path), key[3]>>
      BY <1>3, <2>1, Zenon
    <3>2. PICK n : Entry(tt, start, n, key, path)
      BY <1>4, <3>1, Zenon
    <3> QED
      BY <3>1, <3>2, Zenon
  <2>2. ASSUME NEW n, NEW key, NEW path, Entry(tt, start, n, key, path), x = <<Reverse(path), key[3]>>
        PROVE  x \in StoredPaths(tt, start)
    <3>1. key[1] = tt - 1 /\ key[2] = start
      BY <1>5, <2>2, Zenon
    <3>2. Has(Current, key, path)
      BY <1>4, <2>2, <3>1, Zenon
    <3> QED
      BY <1>3, <2>2, <3>1, <3>2, Zenon
  <2> QED
    BY <2>1, <2>2, Zenon
<1>7. CASE Unused(type) \/ start \notin outbound_only_wires(type)
  <2>1. \A n, key, path : ~Entry(tt, start, n, key, path)
    BY <1>7 DEF Entry
  <2> QED
    BY <1>6, <1>7, <2>1
<1>8. CASE ~(Unused(type) \/ start \notin outbound_only_wires(type))
  <2> HIDE DEF type
  <2>1. TypeOk(type) /\ start \in outbound_only_wires(type)
    BY <1>2, <1>8 DEF type
  <2>2. ASSUME NEW n, NEW key, NEW path
        PROVE  Entry(tt, start, n, key, path) <=>
                 n \in Nat /\ n >= 2 /\ LevelHas(type, tt - 1, start, n, key, path)
    BY <1>8 DEF Entry, type
  <2>3. ASSUME NEW n \in Nat, n >= 2, NEW v \in Live(type, start, n)
        PROVE  PathOf(v) = <<Reverse(InnerPath(v)), KeyOf(tt - 1, start, v)[3]>>
    BY DEF PathOf, KeyOf
  <2>4. \A x, n : n \in Nat /\ n >= 2 =>
          ((\E key, path : LevelHas(type, tt - 1, start, n, key, path) /\ x = <<Reverse(path), key[3]>>)
            <=> \E v \in Live(type, start, n) : Ends(type, v) /\ x = PathOf(v))
    BY <2>3, Zenon DEF LevelHas
  <2>5. \A x : x \in DirectPaths(type, start) <=>
          \E n \in Nat : n >= 2 /\ \E v \in Live(type, start, n) : Ends(type, v) /\ x = PathOf(v)
    BY <2>1, DirectPathsAre
  <2>6. \A x : x \in StoredPaths(tt, start) <=> x \in DirectPaths(type, start)
    <3> TAKE x
    <3>1. ASSUME x \in StoredPaths(tt, start) PROVE x \in DirectPaths(type, start)
      <4>1. PICK n, key, path : Entry(tt, start, n, key, path) /\ x = <<Reverse(path), key[3]>>
        BY <1>6, <3>1, Zenon
      <4>2. n \in Nat /\ n >= 2 /\ LevelHas(type, tt - 1, start, n, key, path)
        BY <2>2, <4>1, Zenon
      <4>3. \E v \in Live(type, start, n) : Ends(type, v) /\ x = PathOf(v)
        BY <2>4, <4>1, <4>2, Zenon
      <4> QED
        BY <2>5, <4>2, <4>3, Zenon
    <3>2. ASSUME x \in DirectPaths(type, start) PROVE x \in StoredPaths(tt, start)
      <4>1. PICK n \in Nat : n >= 2 /\ \E v \in Live(type, start, n) : Ends(type, v) /\ x = PathOf(v)
        BY <2>5, <3>2, Zenon
      <4>2. PICK key, path : LevelHas(type, tt - 1, start, n, key, path) /\ x = <<Reverse(path), key[3]>>
        BY <2>4, <4>1, Zenon
      <4>3. Entry(tt, start, n, key, path)
        BY <2>2, <4>1, <4>2, Zenon
      <4> QED
        BY <1>6, <4>2, <4>3, Zenon
    <3> QED
      BY <3>1, <3>2
  <2>7. StoredPaths(tt, start) = DirectPaths(type, start)
    BY <2>6
  <2> QED
    BY <1>8, <2>7 DEF type
<1> QED
  BY <1>7, <1>8

(* In every state, for the tile types and start wires that are done with, exactly the
   direct paths are stored, each under one id and at the depth it has, and no search is
   longer than the wires of both directions allow: build_tile_type_wire_pip_path with
   any tile types and any number of threads, and in whatever order these end. *)
THEOREM SearchFindsDirectPaths == Spec => []StoresDirectPaths
<1>1. SearchInv => StoresDirectPaths
  <2> SUFFICES ASSUME SearchInv PROVE StoresDirectPaths
    OBVIOUS
  <2>1. PathsNumbered /\ EndsByItself
    BY KeptIsNumbered, SearchEndsByItself DEF SearchInv
  <2>2. ASSUME NEW tt \in DOMAIN tileTypes, NEW start \in Wires(tileTypes[tt]),
               tt < tile_type_idx \/ (tt = tile_type_idx /\ start < start_wire_index)
        PROVE  StoredPaths(tt, start) =
                 IF Unused(tileTypes[tt]) \/ start \notin outbound_only_wires(tileTypes[tt])
                 THEN {} ELSE DirectPaths(tileTypes[tt], start)
    BY <2>2, StoredPathsAre DEF Settled
  <2> QED
    BY <2>1, <2>2 DEF StoresDirectPaths
<1> QED
  BY <1>1, SearchStarts, SearchGoesOn, PTL DEF Spec

(* A bounded set that is not empty has a greatest number. *)
LEMMA GreatestIs ==
  ASSUME NEW B \in Nat, NEW J, J \subseteq -1..(B - 1), J # {}
  PROVE  Max(J) \in J /\ \A x \in J : x <= Max(J)
<1> DEFINE T == {B - x : x \in J}
<1>1. T \subseteq Nat /\ T # {}
  <2>1. \A x \in J : B - x \in Nat
    <3> TAKE x \in J
    <3>1. x \in -1..(B - 1)
      OBVIOUS
    <3> QED
      BY <3>1
  <2> QED
    BY <2>1
<1>2. \A x \in J : B - x \in T
  OBVIOUS
<1>3. \A y \in T : \E x \in J : y = B - x
  OBVIOUS
<1> HIDE DEF T
<1>4. PICK y \in T : \A z \in T : y <= z
  BY <1>1, LeastNat
<1>5. PICK m \in J : y = B - m
  BY <1>3
<1>6. \A x \in J : m >= x
  <2> TAKE x \in J
  <2>1. B - m <= B - x
    BY <1>2, <1>4, <1>5
  <2>2. m \in Int /\ x \in Int
    OBVIOUS
  <2> QED
    BY <2>1, <2>2
<1>7. Max(J) \in J /\ \A x \in J : Max(J) >= x
  BY <1>6 DEF Max
<1>8. \A x \in J : x \in Int
  OBVIOUS
<1> QED
  BY <1>7, <1>8

(* A vector has its last entry at the largest of its indices. *)
LEMMA SizeIs ==
  ASSUME NEW B \in Nat, NEW I, I \subseteq 0..(B - 1)
  PROVE  /\ Size(I) \in 0..B /\ \A x \in I : x < Size(I)
         /\ Size(I) # 0 => Size(I) - 1 \in I
<1> DEFINE J == I \cup {-1}
<1>1. J \subseteq -1..(B - 1) /\ J # {}
  OBVIOUS
<1>2. Max(J) \in J /\ \A x \in J : x <= Max(J)
  <2> HIDE DEF J
  <2> QED
    BY <1>1, GreatestIs
<1>3. Size(I) = Max(J) + 1
  BY DEF Size
<1> DEFINE m == Max(J)
<1> HIDE DEF m
<1>4. m \in J /\ (\A x \in J : x <= m) /\ Size(I) = m + 1
  BY <1>2, <1>3 DEF m
<1>5. m \in -1..(B - 1)
  BY <1>1, <1>4
<1> QED
  BY <1>4, <1>5

(* A set of numbers that is not empty has its minimum. *)
LEMMA LeastIs ==
  ASSUME NEW J, J \subseteq Nat, J # {}
  PROVE  Min(J) \in J /\ \A x \in J : Min(J) <= x
<1>1. PICK m \in J : \A x \in J : m <= x
  BY LeastNat
<1>2. Min(J) \in J /\ \A x \in J : Min(J) <= x
  BY <1>1 DEF Min
<1> QED
  BY <1>2

(* The entries of a part of a sequence. *)
LEMMA Cut ==
  ASSUME NEW S, NEW s \in Seq(S), NEW a \in Nat, NEW b \in Nat, a <= b, b <= Len(s)
  PROVE  /\ SubSeq(s, a + 1, b) \in Seq(S) /\ Len(SubSeq(s, a + 1, b)) = b - a
         /\ \A i \in 1..(b - a) : SubSeq(s, a + 1, b)[i] = s[a + i]
<1>1. SubSeq(s, a + 1, b) = [i \in 1..(b - a) |-> s[a + i]]
  <2>1. SubSeq(s, a + 1, b) = [i \in 1..((1 + b) - (a + 1)) |-> s[(i + (a + 1)) - 1]]
    BY DEF SubSeq
  <2>2. (1 + b) - (a + 1) = b - a
    OBVIOUS
  <2>3. \A i \in 1..(b - a) : (i + (a + 1)) - 1 = a + i
    OBVIOUS
  <2> QED
    BY <2>1, <2>2, <2>3
<1>2. \A i \in 1..(b - a) : s[a + i] \in S
  OBVIOUS
<1> QED
  BY <1>1, <1>2

(* Sequences of one length with the same entries are the same. *)
LEMMA SameSequence ==
  ASSUME NEW S, NEW s \in Seq(S), NEW t \in Seq(S), Len(s) = Len(t),
         \A i \in 1..Len(s) : s[i] = t[i]
  PROVE  s = t
OBVIOUS

(* Two parts side by side are one. *)
LEMMA Joins ==
  ASSUME NEW S, NEW s \in Seq(S), NEW a \in Nat, NEW b \in Nat, NEW c \in Nat,
         a <= b, b <= c, c <= Len(s)
  PROVE  SubSeq(s, a + 1, b) \o SubSeq(s, b + 1, c) = SubSeq(s, a + 1, c)
<1> DEFINE u == SubSeq(s, a + 1, b)
           v == SubSeq(s, b + 1, c)
           w == SubSeq(s, a + 1, c)
<1>1. /\ u \in Seq(S) /\ Len(u) = b - a /\ \A i \in 1..(b - a) : u[i] = s[a + i]
  BY Cut
<1>2. /\ v \in Seq(S) /\ Len(v) = c - b /\ \A i \in 1..(c - b) : v[i] = s[b + i]
  BY Cut
<1>3. /\ w \in Seq(S) /\ Len(w) = c - a /\ \A i \in 1..(c - a) : w[i] = s[a + i]
  BY Cut
<1> HIDE DEF u, v, w
<1>4. /\ u \o v \in Seq(S) /\ Len(u \o v) = Len(u) + Len(v)
      /\ \A j \in 1..Len(u) : (u \o v)[j] = u[j]
      /\ \A j \in 1..Len(v) : (u \o v)[Len(u) + j] = v[j]
  <2>1. u \in Seq(S) /\ v \in Seq(S)
    BY <1>1, <1>2
  <2> QED
    BY <2>1, Concatenated
<1>5. ASSUME NEW i \in 1..(c - a) PROVE (u \o v)[i] = w[i]
  <2>1. CASE i <= b - a
    <3>1. i \in 1..(b - a)
      BY <2>1
    <3>2. (u \o v)[i] = u[i]
      BY <1>1, <1>4, <3>1
    <3> QED
      BY <1>1, <1>3, <3>1, <3>2
  <2>2. CASE ~(i <= b - a)
    <3> DEFINE j == i - (b - a)
    <3>1. j \in 1..(c - b) /\ (b - a) + j = i /\ b + j = a + i
      BY <2>2
    <3> HIDE DEF j
    <3>2. (u \o v)[(b - a) + j] = v[j]
      BY <1>1, <1>2, <1>4, <3>1
    <3>3. v[j] = s[b + j]
      BY <1>2, <3>1
    <3>4. w[i] = s[a + i]
      BY <1>3
    <3> QED
      BY <3>1, <3>2, <3>3, <3>4
  <2> QED
    BY <2>1, <2>2
<1> DEFINE z == u \o v
<1>6. z \in Seq(S) /\ Len(z) = c - a /\ \A i \in 1..(c - a) : z[i] = w[i]
  BY <1>1, <1>2, <1>4, <1>5
<1> HIDE DEF z
<1>7. z = w
  BY <1>3, <1>6, SameSequence
<1> QED
  BY <1>7 DEF u, v, w, z

(* A run of vectors is concatenated where they are in the concatenation of all. *)
LEMMA Slice ==
  ASSUME NEW S, NEW all \in Seq(Seq(S)), NEW p \in Nat, NEW vectors \in Seq(Seq(S)),
         p + Len(vectors) <= Len(all), \A i \in 1..Len(vectors) : vectors[i] = all[p + i]
  PROVE  /\ FlattenSeq(vectors) = SubSeq(FlattenSeq(all), Before(all)[p + 1] + 1,
                                         Before(all)[p + Len(vectors) + 1])
         /\ \A i \in 1..(Len(vectors) + 1) :
              Before(all)[p + i] = Before(all)[p + 1] + Before(vectors)[i]
<1> DEFINE B == Before(all)
           A == Before(vectors)
           N == Len(vectors)
           F == FlattenSeq(all)
           G == FlattenSeq(vectors)
           T == {n \in Nat : n <= N => B[p + (n + 1)] = B[p + 1] + A[n + 1]}
<1>1. /\ B \in [1..(Len(all) + 1) -> Nat]
      /\ \A i \in 1..Len(all) : B[i + 1] = B[i] + Len(all[i])
  BY BeforeSums
<1>2. /\ A \in [1..(N + 1) -> Nat] /\ A[1] = 0
      /\ \A i \in 1..N : A[i + 1] = A[i] + Len(vectors[i])
  BY BeforeSums
<1>3. \A i \in 1..(Len(all) + 1) : \A k \in 1..(Len(all) + 1) : i <= k => B[i] <= B[k]
  BY BeforeGrows
<1>4. /\ F \in Seq(S) /\ Len(F) = B[Len(all) + 1]
      /\ \A i \in 1..Len(all) : \A j \in 1..Len(all[i]) : F[B[i] + j] = all[i][j]
  <2>1. all \in Seq(Seq(S))
    OBVIOUS
  <2> QED
    BY ONLY <2>1, Flattened
<1>5. /\ G \in Seq(S) /\ Len(G) = A[N + 1]
      /\ \A i \in 1..N : \A j \in 1..Len(vectors[i]) : G[A[i] + j] = vectors[i][j]
  <2>1. vectors \in Seq(Seq(S))
    OBVIOUS
  <2> QED
    BY ONLY <2>1, Flattened
<1>6. \A k \in 1..A[N + 1] : \E i \in 1..N : \E j \in 1..Len(vectors[i]) : k = A[i] + j
  BY Located
<1>7. /\ N \in Nat /\ Len(all) \in Nat /\ p + N <= Len(all)
      /\ \A i \in 1..N : vectors[i] = all[p + i]
      /\ \A i \in 1..N : Len(vectors[i]) \in Nat
  <2>1. N \in Nat /\ Len(all) \in Nat
    OBVIOUS
  <2>2. \A i \in 1..N : vectors[i] \in Seq(S)
    OBVIOUS
  <2>3. \A i \in 1..N : Len(vectors[i]) \in Nat
    BY <2>2
  <2> QED
    BY <2>1, <2>3
<1> HIDE DEF A, B, F, G, N
<1>8. 0 \in T
  <2>1. p + 1 \in 1..(Len(all) + 1) /\ p + (0 + 1) = p + 1 /\ 0 + 1 = 1
    BY <1>7
  <2>2. B[p + 1] \in Nat
    BY <1>1, <2>1
  <2> QED
    BY <1>2, <2>1, <2>2
<1>9. ASSUME NEW n \in Nat, n \in T PROVE n + 1 \in T
  <2> SUFFICES ASSUME n + 1 <= N PROVE B[p + ((n + 1) + 1)] = B[p + 1] + A[(n + 1) + 1]
    OBVIOUS
  <2> DEFINE i == n + 1
  <2>1. i \in 1..N /\ p + i \in 1..Len(all) /\ (p + i) + 1 = p + (i + 1) /\ p + 1 \in 1..(Len(all) + 1)
        /\ i \in 1..(N + 1) /\ p + i \in 1..(Len(all) + 1)
    BY <1>7
  <2>2. B[p + i] = B[p + 1] + A[i]
    BY <1>7, <1>9
  <2> HIDE DEF i
  <2>3. B[(p + i) + 1] = B[p + i] + Len(all[p + i])
    BY <1>1, <2>1
  <2>4. A[i + 1] = A[i] + Len(vectors[i]) /\ vectors[i] = all[p + i]
    BY <1>2, <1>7, <2>1
  <2>5. B[p + 1] \in Nat /\ A[i] \in Nat /\ Len(vectors[i]) \in Nat
    BY <1>1, <1>2, <1>7, <2>1
  <2>6. B[p + (i + 1)] = B[p + 1] + A[i + 1]
    <3>1. B[p + (i + 1)] = B[p + i] + Len(vectors[i])
      BY <2>1, <2>3, <2>4
    <3> QED
      BY <2>2, <2>4, <2>5, <3>1
  <2> QED
    BY <2>6 DEF i
<1>10. ASSUME NEW i \in 1..(N + 1) PROVE B[p + i] = B[p + 1] + A[i]
  <2>1. i - 1 \in Nat /\ (i - 1) + 1 = i /\ i - 1 <= N
    BY <1>7
  <2>2. i - 1 \in T
    <3> HIDE DEF T
    <3> QED
      BY <1>8, <1>9, <2>1, Inductive
  <2> QED
    BY <2>1, <2>2
<1> DEFINE a == B[p + 1]
           b == B[(p + N) + 1]
           H == SubSeq(F, a + 1, b)
<1>11. a \in Nat /\ b = a + A[N + 1] /\ A[N + 1] \in Nat /\ b <= Len(F)
  <2>1. p + 1 \in 1..(Len(all) + 1) /\ (p + N) + 1 \in 1..(Len(all) + 1)
        /\ (p + N) + 1 = p + (N + 1) /\ N + 1 \in 1..(N + 1)
        /\ Len(all) + 1 \in 1..(Len(all) + 1) /\ (p + N) + 1 <= Len(all) + 1
    BY <1>7
  <2>2. a \in Nat /\ A[N + 1] \in Nat
    BY <1>1, <1>2, <2>1
  <2>3. b = a + A[N + 1]
    BY <1>10, <2>1
  <2>4. b <= B[Len(all) + 1]
    BY <1>3, <2>1
  <2> QED
    BY <1>4, <2>2, <2>3, <2>4
<1> HIDE DEF a, b
<1>12. /\ H \in Seq(S) /\ Len(H) = b - a /\ \A i \in 1..(b - a) : H[i] = F[a + i]
  <2>1. b \in Nat /\ a <= b /\ b <= Len(F) /\ a \in Nat
    BY <1>11
  <2>2. F \in Seq(S)
    BY <1>4
  <2> QED
    BY <2>1, <2>2, Cut
<1>13. b - a = A[N + 1]
  BY <1>11
<1>14. ASSUME NEW k \in 1..A[N + 1] PROVE G[k] = F[a + k]
  <2>1. PICK i \in 1..N : \E j \in 1..Len(vectors[i]) : k = A[i] + j
    BY <1>6
  <2>2. PICK j \in 1..Len(vectors[i]) : k = A[i] + j
    BY <2>1
  <2>3. p + i \in 1..Len(all) /\ i \in 1..(N + 1)
    BY <1>7
  <2>4. B[p + i] = a + A[i] /\ A[i] \in Nat /\ vectors[i] = all[p + i] /\ j \in Int
    <3>1. B[p + i] = a + A[i]
      BY <1>10, <2>3 DEF a
    <3>2. A[i] \in Nat
      BY <1>2, <2>3
    <3>3. vectors[i] = all[p + i]
      BY <1>7
    <3>4. Len(vectors[i]) \in Nat
      BY <1>7
    <3>5. j \in Int
      BY <3>4
    <3> QED
      BY <3>1, <3>2, <3>3, <3>5
  <2>5. a + k = B[p + i] + j
    <3> DEFINE x == A[i]
               y == B[p + i]
    <3>1. k = x + j /\ y = a + x /\ x \in Int /\ a \in Int /\ j \in Int
      BY <1>11, <2>2, <2>4
    <3> HIDE DEF x, y
    <3>2. a + k = y + j
      BY <3>1
    <3> QED
      BY <3>2 DEF y
  <2>6. F[B[p + i] + j] = all[p + i][j]
    <3>1. j \in 1..Len(all[p + i])
      BY <2>4
    <3> QED
      BY <1>4, <2>3, <3>1
  <2>7. G[A[i] + j] = vectors[i][j]
    BY <1>5
  <2> QED
    BY <2>2, <2>4, <2>5, <2>6, <2>7
<1>15. G = H
  <2> HIDE DEF H
  <2>1. Len(G) = Len(H) /\ \A k \in 1..Len(G) : G[k] = H[k]
    BY <1>5, <1>12, <1>13, <1>14
  <2> QED
    BY <1>5, <1>12, <2>1, SameSequence
<1> QED
  BY <1>10, <1>15 DEF A, B, F, G, H, N, a, b

(* A vector is what its concatenation has where it begins. *)
LEMMA Part ==
  ASSUME NEW S, NEW all \in Seq(Seq(S)), NEW i \in 1..Len(all)
  PROVE  SubSeq(FlattenSeq(all), Before(all)[i] + 1, Before(all)[i] + Len(all[i])) = all[i]
<1> DEFINE F == FlattenSeq(all)
           a == Before(all)[i]
           n == Len(all[i])
<1>1. /\ F \in Seq(S) /\ Len(F) = Before(all)[Len(all) + 1]
      /\ \A j \in 1..n : F[a + j] = all[i][j]
  <2>1. \A k \in 1..Len(all) : \A j \in 1..Len(all[k]) : F[Before(all)[k] + j] = all[k][j]
    BY Flattened
  <2> QED
    BY <2>1, Flattened
<1>2. all[i] \in Seq(S) /\ n \in Nat
  OBVIOUS
<1>3. a \in Nat /\ a + n <= Len(F)
  <2>1. i \in 1..(Len(all) + 1) /\ i + 1 \in 1..(Len(all) + 1) /\ i + 1 <= Len(all) + 1
        /\ Len(all) + 1 \in 1..(Len(all) + 1)
    OBVIOUS
  <2>2. a \in Nat /\ Before(all)[i + 1] = a + n
    BY <2>1, BeforeSums
  <2>3. Before(all)[i + 1] <= Before(all)[Len(all) + 1]
    BY <2>1, BeforeGrows
  <2> QED
    BY <1>1, <2>2, <2>3
<1> DEFINE H == SubSeq(F, a + 1, a + n)
           v == all[i]
<1> HIDE DEF F, a
<1>4. /\ H \in Seq(S) /\ Len(H) = (a + n) - a /\ \A j \in 1..((a + n) - a) : H[j] = F[a + j]
  <2>1. a \in Nat /\ a + n \in Nat /\ a <= a + n /\ a + n <= Len(F) /\ F \in Seq(S)
    BY <1>1, <1>2, <1>3
  <2> HIDE DEF n
  <2> QED
    BY <2>1, Cut
<1>5. (a + n) - a = n
  BY <1>2, <1>3
<1> HIDE DEF H
<1>6. Len(v) = n /\ v \in Seq(S) /\ \A j \in 1..n : H[j] = v[j]
  BY <1>1, <1>2, <1>4, <1>5
<1> HIDE DEF v, n
<1>7. H = v
  BY <1>4, <1>5, <1>6, SameSequence
<1> QED
  BY <1>7 DEF H, v, F, a, n

(* Empty vectors begin at the same place. *)
LEMMA EmptyRun ==
  ASSUME NEW S, NEW vectors \in Seq(Seq(S)),
         NEW i \in 1..(Len(vectors) + 1), NEW j \in 1..(Len(vectors) + 1), i <= j,
         \A k \in i..(j - 1) : vectors[k] = <<>>
  PROVE  Before(vectors)[i] = Before(vectors)[j]
<1> DEFINE B == Before(vectors)
           T == {n \in Nat : i + n <= j => B[i + n] = B[i]}
<1>1. /\ B \in [1..(Len(vectors) + 1) -> Nat]
      /\ \A k \in 1..Len(vectors) : B[k + 1] = B[k] + Len(vectors[k])
  BY BeforeSums
<1> HIDE DEF B
<1>2. 0 \in T
  <2>1. i + 0 = i
    OBVIOUS
  <2> QED
    BY <2>1
<1>3. ASSUME NEW n \in Nat, n \in T PROVE n + 1 \in T
  <2> SUFFICES ASSUME i + (n + 1) <= j PROVE B[i + (n + 1)] = B[i]
    OBVIOUS
  <2> DEFINE k == i + n
  <2>1. k \in 1..Len(vectors) /\ i + (n + 1) = k + 1 /\ k \in i..(j - 1) /\ k \in 1..(Len(vectors) + 1)
    OBVIOUS
  <2>2. B[k] = B[i]
    BY <1>3, <2>1
  <2> HIDE DEF k
  <2>3. B[k + 1] = B[k] + Len(vectors[k])
    BY <1>1, <2>1
  <2>4. Len(vectors[k]) = 0
    <3>1. vectors[k] = <<>>
      BY <2>1
    <3> QED
      BY <3>1
  <2>5. B[k] \in Nat
    BY <1>1, <2>1
  <2>6. B[k + 1] = B[k]
    BY <2>3, <2>4, <2>5
  <2> QED
    BY <2>1, <2>2, <2>6
<1>4. j - i \in Nat /\ i + (j - i) = j /\ j <= j
  OBVIOUS
<1>5. j - i \in T
  <2> HIDE DEF T
  <2> QED
    BY <1>2, <1>3, <1>4, Inductive
<1> QED
  BY <1>4, <1>5 DEF B

(* Empty vectors at the end add nothing. *)
LEMMA Padded ==
  ASSUME NEW S, NEW a \in Seq(Seq(S)), NEW b \in Seq(Seq(S)), Len(a) <= Len(b),
         \A i \in 1..Len(a) : a[i] = b[i], \A i \in (Len(a) + 1)..Len(b) : b[i] = <<>>
  PROVE  FlattenSeq(a) = FlattenSeq(b)
<1> DEFINE F == FlattenSeq(b)
           B == Before(b)
           N == Len(a)
<1>1. F \in Seq(S) /\ Len(F) = B[Len(b) + 1]
  BY Flattened
<1>2. B \in [1..(Len(b) + 1) -> Nat] /\ B[1] = 0
  BY BeforeSums
<1>3. N \in Nat /\ Len(b) \in Nat /\ 0 + N <= Len(b) /\ \A i \in 1..N : a[i] = b[0 + i]
  OBVIOUS
<1>4. FlattenSeq(a) = SubSeq(F, B[0 + 1] + 1, B[0 + N + 1])
  <2> DEFINE p == 0
  <2>1. p \in Nat
    OBVIOUS
  <2>2. p + Len(a) <= Len(b) /\ \A i \in 1..Len(a) : a[i] = b[p + i]
    BY <1>3
  <2> HIDE DEF p
  <2>3. FlattenSeq(a) = SubSeq(FlattenSeq(b), Before(b)[p + 1] + 1, Before(b)[p + Len(a) + 1])
    BY <2>1, <2>2, Slice
  <2> QED
    BY <2>3 DEF p
<1>5. 0 + 1 = 1 /\ 0 + N + 1 = N + 1
  BY <1>3
<1>6. B[N + 1] = B[Len(b) + 1]
  <2>1. /\ N + 1 \in 1..(Len(b) + 1) /\ Len(b) + 1 \in 1..(Len(b) + 1) /\ N + 1 <= Len(b) + 1
        /\ (Len(b) + 1) - 1 = Len(b)
    BY <1>3
  <2>2. \A k \in (N + 1)..((Len(b) + 1) - 1) : b[k] = <<>>
    BY <2>1
  <2> HIDE DEF N
  <2> QED
    BY <2>1, <2>2, EmptyRun
<1>7. FlattenSeq(a) = SubSeq(F, 0 + 1, Len(F))
  BY <1>1, <1>2, <1>4, <1>5, <1>6
<1> HIDE DEF F
<1>8. SubSeq(F, 0 + 1, Len(F)) = F
  <2> DEFINE H == SubSeq(F, 0 + 1, Len(F))
             n == Len(F)
  <2>1. n \in Nat
    BY <1>1
  <2>2. H \in Seq(S) /\ Len(H) = n - 0 /\ \A i \in 1..(n - 0) : H[i] = F[0 + i]
    <3>1. 0 <= n /\ n <= Len(F)
      BY <2>1
    <3> QED
      BY <1>1, <2>1, <3>1, Cut
  <2>3. Len(H) = Len(F) /\ \A i \in 1..Len(H) : H[i] = F[i]
    BY <2>1, <2>2
  <2> HIDE DEF H
  <2>4. H = F
    BY <1>1, <2>2, <2>3, SameSequence
  <2> QED
    BY <2>4 DEF H
<1> QED
  BY <1>7, <1>8 DEF F

-----------------------------------------------------------------------------

Entries == [count : 0..(CountLimit - 1), index : Int]

(* The entry of a vector in its level, before and after skippable. *)
LEMMA SpansAre ==
  ASSUME NEW S, NEW vectors \in Seq(Seq(S))
  PROVE  /\ Spans(vectors) \in Seq(Entries) /\ Len(Spans(vectors)) = Len(vectors)
         /\ \A i \in 1..Len(vectors) :
              /\ Spans(vectors)[i].count = Len(vectors[i]) % CountLimit
              /\ Spans(vectors)[i].index = IF vectors[i] = <<>> THEN -1 ELSE Before(vectors)[i]
<1> DEFINE E(i) == [count |-> Len(vectors[i]) % CountLimit,
                    index |-> IF vectors[i] = <<>> THEN -1 ELSE Before(vectors)[i]]
           s == [i \in 1..Len(vectors) |-> E(i)]
<1>1. DOMAIN vectors = 1..Len(vectors) /\ Len(vectors) \in Nat
  OBVIOUS
<1>2. ASSUME NEW i \in 1..Len(vectors) PROVE E(i) \in Entries
  <2>1. Len(vectors[i]) \in Nat
    OBVIOUS
  <2>2. CountLimit \in Nat \ {0}
    BY FlatAssumption
  <2>3. Len(vectors[i]) % CountLimit \in 0..(CountLimit - 1)
    BY <2>1, <2>2, Quotient
  <2>4. Before(vectors)[i] \in Nat
    <3>1. i \in 1..(Len(vectors) + 1)
      BY <1>1
    <3> QED
      BY <3>1, BeforeSums
  <2> QED
    BY <2>3, <2>4 DEF Entries
<1>3. Spans(vectors) = <<>> \o s
  BY <1>1 DEF Spans
<1>4. \A i \in 1..Len(vectors) : E(i).count = Len(vectors[i]) % CountLimit
        /\ E(i).index = IF vectors[i] = <<>> THEN -1 ELSE Before(vectors)[i]
  OBVIOUS
<1> HIDE DEF E
<1>5. s \in Seq(Entries) /\ Len(s) = Len(vectors) /\ \A i \in 1..Len(vectors) : s[i] = E(i)
  BY <1>1, <1>2
<1> HIDE DEF s
<1>6. <<>> \o s = s
  BY <1>5
<1> QED
  BY <1>3, <1>4, <1>5, <1>6

(* Where an empty entry leads: to the next that is not empty. *)
Onward(level, i, next) ==
  /\ next \in (i + 1)..(Len(level) + 1)
  /\ next <= Len(level) => level[next].count # 0
  /\ \A j \in (i + 1)..(next - 1) : level[j].count = 0

(* skippable leaves the entries with a count, and gives the others their distance. *)
LEMMA SkippableIs ==
  ASSUME NEW level \in Seq(Entries)
  PROVE  /\ skippable(level) \in Seq(Entries) /\ Len(skippable(level)) = Len(level)
         /\ \A i \in 1..Len(level) :
              /\ skippable(level)[i].count = level[i].count
              /\ level[i].count # 0 => skippable(level)[i].index = level[i].index
              /\ level[i].count = 0 =>
                   \E next : Onward(level, i, next) /\ skippable(level)[i].index = i - next
<1> DEFINE J(i) == {j \in (i + 1)..Len(level) : level[j].count # 0} \cup {Len(level) + 1}
           E(i) == IF level[i].count # 0 THEN level[i]
                   ELSE [count |-> 0, index |-> i - Min(J(i))]
           s == [i \in 1..Len(level) |-> E(i)]
<1>1. DOMAIN level = 1..Len(level) /\ Len(level) \in Nat
  OBVIOUS
<1>2. \A i \in 1..Len(level) : level[i] \in Entries
  OBVIOUS
<1>3. \A i \in 1..Len(level) : level[i].count \in 0..(CountLimit - 1) /\ level[i].index \in Int
  BY <1>2 DEF Entries
<1>4. ASSUME NEW i \in 1..Len(level) PROVE Onward(level, i, Min(J(i))) /\ Min(J(i)) \in Nat
  <2>1. J(i) \subseteq Nat /\ J(i) # {}
    BY <1>1
  <2> DEFINE m == Min(J(i))
  <2>2. m \in J(i) /\ \A x \in J(i) : m <= x
    <3> HIDE DEF J
    <3> QED
      BY <2>1, LeastIs
  <2> HIDE DEF m
  <2>3. m \in (i + 1)..(Len(level) + 1) /\ (m <= Len(level) => level[m].count # 0)
    BY <1>1, <2>2
  <2>4. ASSUME NEW j \in (i + 1)..(m - 1) PROVE level[j].count = 0
    <3>1. j \in (i + 1)..Len(level) /\ ~(m <= j)
      BY <1>1, <2>3
    <3> QED
      BY <2>2, <3>1
  <2> QED
    BY <2>1, <2>2, <2>3, <2>4 DEF m, Onward
<1>5. ASSUME NEW i \in 1..Len(level)
      PROVE  /\ E(i) \in Entries /\ E(i).count = level[i].count
             /\ level[i].count # 0 => E(i).index = level[i].index
             /\ level[i].count = 0 => E(i).index = i - Min(J(i))
  <2>1. CountLimit \in Nat \ {0}
    BY FlatAssumption
  <2>2. Min(J(i)) \in Nat
    BY <1>4
  <2> DEFINE m == Min(J(i))
  <2> HIDE DEF m
  <2>3. m \in Nat /\ 0 \in 0..(CountLimit - 1) /\ i \in Int
    BY <2>1, <2>2 DEF m
  <2>4. i - m \in Int
    BY <2>3
  <2>5. [count |-> 0, index |-> i - m] \in Entries
    BY <2>3, <2>4 DEF Entries
  <2>6. E(i) = IF level[i].count # 0 THEN level[i] ELSE [count |-> 0, index |-> i - m]
    BY DEF m
  <2>7. E(i) \in Entries /\ E(i).count = level[i].count
    BY <1>2, <2>5, <2>6
  <2>8. level[i].count # 0 => E(i).index = level[i].index
    BY <2>6
  <2>9. level[i].count = 0 => E(i).index = i - m
    BY <2>6
  <2> QED
    BY <2>7, <2>8, <2>9 DEF m
<1>6. skippable(level) = <<>> \o s
  BY <1>1 DEF skippable
<1> HIDE DEF E, J
<1>7. s \in Seq(Entries) /\ Len(s) = Len(level) /\ \A i \in 1..Len(level) : s[i] = E(i)
  BY <1>1, <1>5
<1> HIDE DEF s
<1>8. <<>> \o s = s
  BY <1>7
<1>9. \A i \in 1..Len(level) :
        level[i].count = 0 => \E next : Onward(level, i, next) /\ s[i].index = i - next
  BY <1>4, <1>5, <1>7
<1> QED
  BY <1>5, <1>6, <1>7, <1>8, <1>9

Small(vectors) == \A i \in 1..Len(vectors) : Len(vectors[i]) < CountLimit

(* One level of the flat table, over the vectors it stands for. *)
LEMMA LevelIs ==
  ASSUME NEW S, NEW vectors \in Seq(Seq(S)), NEW level, level = skippable(Spans(vectors))
  PROVE  /\ level \in Seq(Entries) /\ Len(level) = Len(vectors)
         /\ \A i \in 1..Len(vectors) :
              /\ level[i].count = Len(vectors[i]) % CountLimit
              /\ level[i].count # 0 => level[i].index = Before(vectors)[i]
              /\ level[i].count = 0 =>
                   \E next : Onward(level, i, next) /\ level[i].index = i - next
<1> DEFINE s == Spans(vectors)
<1>1. /\ s \in Seq(Entries) /\ Len(s) = Len(vectors)
      /\ \A i \in 1..Len(vectors) :
           /\ s[i].count = Len(vectors[i]) % CountLimit
           /\ s[i].index = IF vectors[i] = <<>> THEN -1 ELSE Before(vectors)[i]
  BY SpansAre
<1> HIDE DEF s
<1>2. /\ level \in Seq(Entries) /\ Len(level) = Len(s)
      /\ \A i \in 1..Len(s) :
           /\ level[i].count = s[i].count
           /\ s[i].count # 0 => level[i].index = s[i].index
           /\ s[i].count = 0 => \E next : Onward(s, i, next) /\ level[i].index = i - next
  <2>1. s \in Seq(Entries)
    BY <1>1
  <2>2. level = skippable(s)
    BY DEF s
  <2>3. /\ skippable(s) \in Seq(Entries) /\ Len(skippable(s)) = Len(s)
        /\ \A i \in 1..Len(s) :
             /\ skippable(s)[i].count = s[i].count
             /\ s[i].count # 0 => skippable(s)[i].index = s[i].index
             /\ s[i].count = 0 => \E next : Onward(s, i, next) /\ skippable(s)[i].index = i - next
    BY <2>1, SkippableIs
  <2> QED
    BY <2>2, <2>3
<1>3. ASSUME NEW i \in 1..Len(vectors) PROVE level[i].count = Len(vectors[i]) % CountLimit
  BY <1>1, <1>2
<1>4. ASSUME NEW i \in 1..Len(vectors), level[i].count # 0
      PROVE  level[i].index = Before(vectors)[i]
  <2>1. CountLimit \in Nat \ {0}
    BY FlatAssumption
  <2>2. Len(vectors[i]) # 0
    <3>1. 0 % CountLimit = 0
      BY <2>1
    <3> QED
      BY <1>3, <1>4, <3>1
  <2>3. vectors[i] # <<>>
    BY <2>2
  <2> QED
    BY <1>1, <1>2, <1>4, <2>3
<1>5. ASSUME NEW i \in 1..Len(vectors), level[i].count = 0
      PROVE  \E next : Onward(level, i, next) /\ level[i].index = i - next
  <2>1. PICK next : Onward(s, i, next) /\ level[i].index = i - next
    BY <1>1, <1>2, <1>5
  <2>2. Onward(level, i, next)
    <3>1. next \in (i + 1)..(Len(s) + 1) /\ Len(s) \in Nat /\ Len(s) = Len(vectors)
      BY <1>1, <2>1 DEF Onward
    <3>2. next <= Len(s) => level[next].count = s[next].count
      <4>1. next <= Len(s) => next \in 1..Len(s)
        BY <3>1
      <4> QED
        BY <1>2, <4>1
    <3>3. \A j \in (i + 1)..(next - 1) : level[j].count = s[j].count
      <4>1. \A j \in (i + 1)..(next - 1) : j \in 1..Len(s)
        BY <3>1
      <4> QED
        BY <1>2, <4>1
    <3> QED
      BY <1>2, <2>1, <3>2, <3>3 DEF Onward
  <2> QED
    BY <2>1, <2>2
<1> QED
  BY <1>1, <1>2, <1>3, <1>4, <1>5

(* A number below the limit is counted as it is. *)
LEMMA Fits ==
  ASSUME NEW n \in Nat, n < CountLimit
  PROVE  n % CountLimit = n
<1>1. CountLimit \in Nat \ {0}
  BY FlatAssumption
<1> QED
  BY <1>1

(* Small vectors have their own length as count, and pass the check of skippable. *)
LEMMA SmallSkips ==
  ASSUME NEW S, NEW vectors \in Seq(Seq(S)), Small(vectors)
  PROVE  Skips(Spans(vectors))
<1> DEFINE s == Spans(vectors)
<1>1. /\ s \in Seq(Entries) /\ Len(s) = Len(vectors)
      /\ \A i \in 1..Len(vectors) :
           /\ s[i].count = Len(vectors[i]) % CountLimit
           /\ s[i].index = IF vectors[i] = <<>> THEN -1 ELSE Before(vectors)[i]
  BY SpansAre
<1> HIDE DEF s
<1>2. ASSUME NEW i \in 1..Len(vectors), s[i].count = 0 PROVE s[i].index = -1
  <2>1. vectors[i] \in Seq(S) /\ Len(vectors[i]) \in Nat
    OBVIOUS
  <2>2. Len(vectors[i]) = 0
    BY <1>1, <1>2, <2>1, Fits DEF Small
  <2>3. vectors[i] = <<>>
    BY <2>1, <2>2
  <2> QED
    BY <1>1, <2>3
<1>3. DOMAIN s = 1..Len(vectors)
  BY <1>1
<1> QED
  BY <1>2, <1>3 DEF Skips, s

(* A subscript below the count finds the entry of the vector's own element. *)
LEMMA Descends ==
  ASSUME NEW S, NEW vectors \in Seq(Seq(S)), NEW i \in 1..Len(vectors),
         Len(vectors[i]) < CountLimit, NEW j \in 0..(Len(vectors[i]) - 1),
         NEW level, level = skippable(Spans(vectors)),
         NEW below \in Seq(Entries), Len(below) = Len(FlattenSeq(vectors)),
         NEW q, q = Before(vectors)[i] + j + 1
  PROVE  /\ q \in 1..Len(below) /\ FlattenSeq(vectors)[q] = vectors[i][j + 1]
         /\ At(below, level[i].index + j) = below[q]
         /\ level[i].count = Len(vectors[i])
<1> DEFINE n == Len(vectors[i])
           B == Before(vectors)
<1>1. n \in Nat /\ n # 0 /\ j + 1 \in 1..n
  OBVIOUS
<1>2. level[i].count = n
  <2>1. level[i].count = n % CountLimit
    BY LevelIs
  <2> HIDE DEF n
  <2>2. n < CountLimit
    BY DEF n
  <2> QED
    BY <1>1, <2>1, <2>2, Fits
<1>3. level[i].index = B[i]
  <2>1. level[i].count # 0 => level[i].index = B[i]
    BY LevelIs
  <2> QED
    BY <1>1, <1>2, <2>1
<1>4. /\ B[i] \in Nat /\ B[i] + n <= Len(below)
  <2>1. i \in 1..(Len(vectors) + 1) /\ i + 1 \in 1..(Len(vectors) + 1) /\ i + 1 <= Len(vectors) + 1
        /\ Len(vectors) + 1 \in 1..(Len(vectors) + 1)
    OBVIOUS
  <2>2. B[i] \in Nat /\ B[i + 1] = B[i] + n
    BY <2>1, BeforeSums
  <2>3. B[i + 1] <= B[Len(vectors) + 1]
    BY <2>1, BeforeGrows
  <2>4. Len(below) = B[Len(vectors) + 1]
    BY Flattened
  <2> QED
    BY <2>2, <2>3, <2>4
<1>5. FlattenSeq(vectors)[B[i] + (j + 1)] = vectors[i][j + 1]
  BY <1>1, Flattened
<1>6. q = B[i] + (j + 1) /\ (B[i] + j) + 1 = q /\ q \in Nat /\ j \in Nat
  <2> DEFINE b == B[i]
  <2>1. q = (b + j) + 1 /\ b \in Nat
    BY <1>4
  <2>2. j \in Nat
    BY <1>1
  <2> HIDE DEF b
  <2>3. q = b + (j + 1) /\ (b + j) + 1 = q /\ q \in Nat /\ j \in Nat
    BY <2>1, <2>2
  <2> QED
    BY <2>3 DEF b
<1>7. q \in 1..Len(below)
  <2> DEFINE b == B[i]
             l == Len(below)
  <2>1. l \in Nat /\ b \in Nat /\ b + n <= l /\ q = b + (j + 1) /\ j + 1 <= n /\ n \in Nat /\ j \in Nat
    BY <1>1, <1>4, <1>6
  <2> HIDE DEF b, l, n
  <2>2. q \in 1..l
    BY <2>1
  <2> QED
    BY <2>2 DEF l
<1>8. DOMAIN below = 1..Len(below)
  OBVIOUS
<1> HIDE DEF B, n
<1>9. At(below, level[i].index + j) = below[q]
  BY <1>3, <1>6, <1>7, <1>8 DEF At
<1> QED
  BY <1>2, <1>5, <1>6, <1>7, <1>9 DEF B, n

(* What the tree is built from. *)
PairsOk(pairs) ==
  \A key \in DOMAIN pairs :
    /\ key \in Keys /\ key[1] < TileTypeCount /\ key[2] < CountLimit - 1 /\ key[3] < CountLimit - 1
    /\ key[4] < MaxDepth /\ pairs[key] \in Seq(Nat) /\ pairs[key] # <<>>

(* A vector with the ids of a depth put in its place, and what resize left there
   behind them. *)
Puts(v, n, ids, u) ==
  /\ Len(u) = n + 1 /\ u[n] = ids
  /\ \A i \in 1..(n - 1) : u[i] = IF i <= Len(v) THEN v[i] ELSE <<>>
  /\ u[n + 1] = IF Len(v) = n THEN v[n] ELSE <<>>

(* insert after resize puts the ids of a depth in their place. *)
LEMMA Inserted ==
  ASSUME NEW S, NEW v \in Seq(Seq(S)), NEW n \in Nat \ {0}, Len(v) <= n, NEW ids \in Seq(S)
  PROVE  /\ InsertAt(Resize(v, n), n, ids) \in Seq(Seq(S))
         /\ Puts(v, n, ids, InsertAt(Resize(v, n), n, ids))
<1> DEFINE m == n - Len(v)
           pad == [i \in 1..m |-> <<>>]
           w == v \o pad
           u == InsertAt(Resize(v, n), n, ids)
<1>1. m \in Nat /\ Len(v) \in Nat
  OBVIOUS
<1>2. Max({0, m}) = m
  <2>1. {0, m} \subseteq -1..((m + 1) - 1) /\ {0, m} # {} /\ m + 1 \in Nat
    BY <1>1
  <2> HIDE DEF m
  <2>2. Max({0, m}) \in {0, m} /\ \A x \in {0, m} : x <= Max({0, m})
    BY <2>1, GreatestIs
  <2> QED
    BY <1>1, <2>2
<1>3. Resize(v, n) = w
  BY <1>2 DEF Resize
<1>4. pad \in Seq(Seq(S)) /\ Len(pad) = m /\ \A i \in 1..m : pad[i] = <<>>
  <2> HIDE DEF m
  <2>1. <<>> \in Seq(S)
    OBVIOUS
  <2> QED
    BY <1>1, <2>1
<1> HIDE DEF pad
<1>5. /\ w \in Seq(Seq(S)) /\ Len(w) = Len(v) + Len(pad)
      /\ \A j \in 1..Len(v) : w[j] = v[j]
      /\ \A j \in 1..Len(pad) : w[Len(v) + j] = pad[j]
  BY <1>4, Concatenated
<1> HIDE DEF w
<1>6. Len(w) = n
  BY <1>1, <1>4, <1>5
<1>7. ASSUME NEW i \in 1..n PROVE w[i] = IF i <= Len(v) THEN v[i] ELSE <<>>
  <2>1. CASE i <= Len(v)
    BY <1>1, <1>5, <2>1
  <2>2. CASE ~(i <= Len(v))
    <3>1. i - Len(v) \in 1..m /\ Len(v) + (i - Len(v)) = i
      BY <1>1, <2>2
    <3> HIDE DEF m
    <3>2. w[Len(v) + (i - Len(v))] = pad[i - Len(v)]
      BY <1>4, <1>5, <3>1
    <3> QED
      BY <1>4, <2>2, <3>1, <3>2
  <2> QED
    BY <2>1, <2>2
<1> DEFINE a == SubSeq(w, 1, n - 1)
           c == SubSeq(w, n, n)
           one == <<ids>>
<1>8. u = a \o one \o c
  BY <1>3, <1>6 DEF InsertAt
<1> HIDE DEF u
<1>9. a \in Seq(Seq(S)) /\ Len(a) = n - 1 /\ \A i \in 1..(n - 1) : a[i] = w[i]
  <2> DEFINE z == 0
             k == n - 1
  <2>1. z \in Nat /\ k \in Nat /\ z <= k /\ k <= Len(w) /\ w \in Seq(Seq(S))
    BY <1>5, <1>6
  <2> HIDE DEF z, k
  <2>2. SubSeq(w, z + 1, k) \in Seq(Seq(S)) /\ Len(SubSeq(w, z + 1, k)) = k - z
        /\ \A i \in 1..(k - z) : SubSeq(w, z + 1, k)[i] = w[z + i]
    BY <2>1, Cut
  <2>3. z + 1 = 1 /\ k - z = n - 1 /\ k = n - 1 /\ \A i \in 1..(n - 1) : z + i = i
    BY DEF z, k
  <2> QED
    BY <2>2, <2>3
<1>10. c \in Seq(Seq(S)) /\ Len(c) = 1 /\ c[1] = w[n]
  <2> DEFINE k == n - 1
  <2>1. k \in Nat /\ n \in Nat /\ k <= n /\ n <= Len(w) /\ w \in Seq(Seq(S))
    BY <1>5, <1>6
  <2> HIDE DEF k
  <2>2. SubSeq(w, k + 1, n) \in Seq(Seq(S)) /\ Len(SubSeq(w, k + 1, n)) = n - k
        /\ \A i \in 1..(n - k) : SubSeq(w, k + 1, n)[i] = w[k + i]
    BY <2>1, Cut
  <2>3. k + 1 = n /\ n - k = 1
    BY DEF k
  <2>4. 1 \in 1..(n - k)
    BY <2>3
  <2> QED
    BY <2>2, <2>3, <2>4
<1>11. one \in Seq(Seq(S)) /\ Len(one) = 1 /\ one[1] = ids
  OBVIOUS
<1> HIDE DEF a, c, one
<1> DEFINE b == a \o one
<1>12. /\ b \in Seq(Seq(S)) /\ Len(b) = Len(a) + Len(one)
       /\ \A j \in 1..Len(a) : b[j] = a[j]
       /\ \A j \in 1..Len(one) : b[Len(a) + j] = one[j]
  <2>1. a \in Seq(Seq(S)) /\ one \in Seq(Seq(S))
    BY <1>9, <1>11
  <2> QED
    BY <2>1, Concatenated
<1>13. Len(b) = n /\ b[n] = ids
  <2>1. 1 \in 1..Len(one) /\ Len(a) + 1 = n
    BY <1>9, <1>11
  <2> HIDE DEF b
  <2> QED
    BY <1>9, <1>11, <1>12, <2>1
<1> HIDE DEF b
<1>14. /\ u \in Seq(Seq(S)) /\ Len(u) = Len(b) + Len(c)
       /\ \A j \in 1..Len(b) : u[j] = b[j]
       /\ \A j \in 1..Len(c) : u[Len(b) + j] = c[j]
  <2>1. u = b \o c
    BY <1>8 DEF b
  <2>2. b \in Seq(Seq(S)) /\ c \in Seq(Seq(S))
    BY <1>10, <1>12
  <2> QED
    BY <2>1, <2>2, Concatenated
<1>15. Len(u) = n + 1 /\ u[n] = ids /\ u[n + 1] = w[n]
  <2>1. n \in 1..Len(b) /\ 1 \in 1..Len(c)
    BY <1>10, <1>13
  <2> QED
    BY <1>10, <1>13, <1>14, <2>1
<1>16. ASSUME NEW i \in 1..(n - 1) PROVE u[i] = w[i] /\ i \in 1..n
  <2>1. i \in 1..Len(b) /\ i \in 1..Len(a)
    BY <1>9, <1>13
  <2> QED
    BY <1>9, <1>12, <1>13, <1>14, <2>1
<1>17. u[n + 1] = IF Len(v) = n THEN v[n] ELSE <<>>
  <2>1. n \in 1..n /\ (n <= Len(v) <=> Len(v) = n)
    BY <1>1
  <2> QED
    BY <1>7, <1>15, <2>1
<1>18. u \in Seq(Seq(S)) /\ Len(u) = n + 1 /\ u[n] = ids
  BY <1>14, <1>15
<1>19. \A i \in 1..(n - 1) : u[i] = IF i <= Len(v) THEN v[i] ELSE <<>>
  BY <1>7, <1>16
<1> QED
  BY <1>17, <1>18, <1>19 DEF Puts, u

(* What DepthVector fills in, depth by depth. *)
Filling(pairs, tt, start, finish) ==
  CHOOSE filled : filled = [n \in 0..Size(Depths(pairs, tt, start, finish)) |->
    IF n = 0 THEN <<>>
    ELSE IF n - 1 \in Depths(pairs, tt, start, finish)
    THEN InsertAt(Resize(filled[n - 1], n), n, pairs[<<tt, start, finish, n - 1>>])
    ELSE filled[n - 1]]

(* What is filled in up to a depth is what its recursion describes. *)
LEMMA FillingRecursion ==
  ASSUME NEW pairs, NEW tt, NEW start, NEW finish,
         Size(Depths(pairs, tt, start, finish)) \in Nat
  PROVE  \A n \in 0..Size(Depths(pairs, tt, start, finish)) :
           Filling(pairs, tt, start, finish)[n] =
             IF n = 0 THEN <<>>
             ELSE IF n - 1 \in Depths(pairs, tt, start, finish)
             THEN InsertAt(Resize(Filling(pairs, tt, start, finish)[n - 1], n), n,
                           pairs[<<tt, start, finish, n - 1>>])
             ELSE Filling(pairs, tt, start, finish)[n - 1]
<1> DEFINE N == Size(Depths(pairs, tt, start, finish))
           D(f, i) == IF i = 0 THEN <<>>
                      ELSE IF i - 1 \in Depths(pairs, tt, start, finish)
                      THEN InsertAt(Resize(f[i - 1], i), i, pairs[<<tt, start, finish, i - 1>>])
                      ELSE f[i - 1]
           Is(f, n) == f = [i \in 0..n |-> D(f, i)]
           T == {n \in Nat : \E f : Is(f, n)}
<1>1. 0 \in T
  <2> DEFINE g == [i \in 0..0 |-> <<>>]
  <2>1. Is(g, 0)
    OBVIOUS
  <2> HIDE DEF Is, g
  <2> QED
    BY <2>1
<1>2. ASSUME NEW n \in Nat, n \in T PROVE n + 1 \in T
  <2>1. PICK f : Is(f, n)
    BY <1>2
  <2> DEFINE g == [i \in 0..(n + 1) |-> IF i = n + 1 THEN D(f, i) ELSE f[i]]
  <2>2. ASSUME NEW i \in 0..(n + 1) PROVE g[i] = D(g, i)
    <3>1. i # 0 => g[i - 1] = f[i - 1]
      OBVIOUS
    <3>2. D(g, i) = D(f, i)
      <4> HIDE DEF g
      <4> QED
        BY <3>1
    <3>3. i # n + 1 => f[i] = D(f, i)
      <4> HIDE DEF D
      <4> QED
        BY <2>1
    <3> HIDE DEF D
    <3> QED
      BY <3>2, <3>3
  <2>3. Is(g, n + 1)
    <3> HIDE DEF D
    <3>1. g = [i \in 0..(n + 1) |-> g[i]]
      OBVIOUS
    <3> HIDE DEF g
    <3> QED
      BY <2>2, <3>1
  <2> HIDE DEF Is, g
  <2> QED
    BY <2>3
<1> HIDE DEF T
<1>3. N \in T
  BY <1>1, <1>2, Inductive
<1>4. PICK f : Is(f, N)
  <2> HIDE DEF Is
  <2> QED
    BY <1>3 DEF T
<1> DEFINE s == Filling(pairs, tt, start, finish)
<1>5. s = [i \in 0..N |-> D(s, i)]
  BY <1>4, Zenon DEF Filling
<1> HIDE DEF s, D
<1>6. \A n \in 0..N : s[n] = D(s, n)
  BY <1>5
<1> QED
  BY <1>6 DEF s, D

(* The numbers of the pairs' keys. *)
LEMMA KeysOfPairs ==
  ASSUME NEW pairs, PairsOk(pairs), NEW tt, NEW start, NEW finish
  PROVE  /\ Starts(pairs, tt) \subseteq 0..((CountLimit - 1) - 1)
         /\ Finishes(pairs, tt, start) \subseteq 0..((CountLimit - 1) - 1)
         /\ Depths(pairs, tt, start, finish) \subseteq 0..(MaxDepth - 1)
         /\ \A d : d \in Depths(pairs, tt, start, finish) <=> <<tt, start, finish, d>> \in DOMAIN pairs
<1>1. CountLimit \in Nat /\ MaxDepth \in Nat
  BY FlatAssumption, TilePathsAssumption
<1>2. ASSUME NEW key \in DOMAIN pairs
      PROVE  /\ key = <<key[1], key[2], key[3], key[4]>>
             /\ key[2] \in 0..((CountLimit - 1) - 1) /\ key[3] \in 0..((CountLimit - 1) - 1)
             /\ key[4] \in 0..(MaxDepth - 1)
  <2>1. /\ key \in Nat \X Nat \X Nat \X Nat /\ key[2] < CountLimit - 1 /\ key[3] < CountLimit - 1
        /\ key[4] < MaxDepth
    BY DEF PairsOk, Keys
  <2>2. key[2] \in Nat /\ key[3] \in Nat /\ key[4] \in Nat /\ key = <<key[1], key[2], key[3], key[4]>>
    BY <2>1
  <2> QED
    BY <1>1, <2>1, <2>2
<1>3. Starts(pairs, tt) \subseteq 0..((CountLimit - 1) - 1)
  BY <1>2 DEF Starts
<1>4. Finishes(pairs, tt, start) \subseteq 0..((CountLimit - 1) - 1)
  BY <1>2 DEF Finishes
<1>5. Depths(pairs, tt, start, finish) \subseteq 0..(MaxDepth - 1)
  BY <1>2 DEF Depths
<1>6. ASSUME NEW d, d \in Depths(pairs, tt, start, finish)
      PROVE  <<tt, start, finish, d>> \in DOMAIN pairs
  <2>1. PICK key \in DOMAIN pairs : key[1] = tt /\ key[2] = start /\ key[3] = finish /\ d = key[4]
    BY <1>6 DEF Depths
  <2>2. key = <<tt, start, finish, d>>
    BY <1>2, <2>1
  <2> QED
    BY <2>2
<1>7. ASSUME NEW d, <<tt, start, finish, d>> \in DOMAIN pairs
      PROVE  d \in Depths(pairs, tt, start, finish)
  <2> DEFINE key == <<tt, start, finish, d>>
  <2>1. key \in DOMAIN pairs /\ key[1] = tt /\ key[2] = start /\ key[3] = finish /\ key[4] = d
    BY <1>7
  <2> HIDE DEF key
  <2> QED
    BY <2>1 DEF Depths
<1> QED
  BY <1>3, <1>4, <1>5, <1>6, <1>7

(* The vectors that the tree can have: some ids of every vector of depths are
   among its first MaxDepth. *)
IdsSet(pairs) == {<<>>} \cup {pairs[key] : key \in DOMAIN pairs}
DepthSet(pairs) ==
  {v \in Seq(IdsSet(pairs)) :
     /\ Len(v) <= MaxDepth + 1
     /\ v # <<>> => \E j \in 1..MaxDepth : j <= Len(v) /\ v[j] # <<>>}
FinishSet(pairs) == {u \in Seq(DepthSet(pairs)) : Len(u) < CountLimit}
StartSet(pairs) == {u \in Seq(FinishSet(pairs)) : Len(u) < CountLimit}

(* The vectors of ids. *)
LEMMA IdsAre ==
  ASSUME NEW pairs, PairsOk(pairs)
  PROVE  /\ IdsSet(pairs) \subseteq Seq(Nat)
         /\ \A key \in DOMAIN pairs : pairs[key] \in IdsSet(pairs) /\ pairs[key] # <<>>
<1>1. \A key \in DOMAIN pairs : pairs[key] \in Seq(Nat) /\ pairs[key] # <<>>
  BY DEF PairsOk
<1>2. <<>> \in Seq(Nat)
  OBVIOUS
<1> QED
  BY <1>1, <1>2 DEF IdsSet

(* The vector of depths of two ends has the ids of a depth at this depth. *)
LEMMA DepthVectorIs ==
  ASSUME NEW pairs, PairsOk(pairs), NEW tt, NEW start, NEW finish,
         NEW v, v = DepthVector(pairs, tt, start, finish)
  PROVE  /\ v \in DepthSet(pairs)
         /\ \A i \in 1..Len(v) : v[i] = IF i - 1 \in Depths(pairs, tt, start, finish)
                                        THEN pairs[<<tt, start, finish, i - 1>>] ELSE <<>>
         /\ \A d \in Depths(pairs, tt, start, finish) : d + 1 <= Len(v)
<1> DEFINE ds == Depths(pairs, tt, start, finish)
           N == Size(ds)
           f == Filling(pairs, tt, start, finish)
           P(d) == pairs[<<tt, start, finish, d>>]
           Right(u, n) ==
             /\ u \in Seq(Seq(Nat)) /\ Len(u) <= n + 1 /\ (n = 0 => Len(u) = 0)
             /\ \A i \in 1..Len(u) : u[i] = IF i - 1 \in ds /\ i <= n THEN P(i - 1) ELSE <<>>
             /\ \A d \in ds : d < n => d + 1 <= Len(u)
           T == {n \in Nat : n <= N => Right(f[n], n)}
<1>1. MaxDepth \in Nat /\ ds \subseteq 0..(MaxDepth - 1)
  BY KeysOfPairs, TilePathsAssumption
<1>2. N \in 0..MaxDepth /\ (\A d \in ds : d < N) /\ (N # 0 => N - 1 \in ds)
  <2> HIDE DEF ds
  <2> QED
    BY <1>1, SizeIs
<1>3. \A d \in ds : P(d) \in Seq(Nat) /\ P(d) # <<>> /\ P(d) \in IdsSet(pairs)
  <2>1. \A d \in ds : <<tt, start, finish, d>> \in DOMAIN pairs
    BY KeysOfPairs
  <2> QED
    BY <2>1, IdsAre
<1>4. \A n \in 0..N : f[n] = IF n = 0 THEN <<>>
                             ELSE IF n - 1 \in ds THEN InsertAt(Resize(f[n - 1], n), n, P(n - 1))
                             ELSE f[n - 1]
  <2>1. N \in Nat
    BY <1>1, <1>2
  <2> QED
    BY <2>1, FillingRecursion
<1>5. v = f[N]
  BY Zenon DEF DepthVector, Filling
<1> HIDE DEF f, N, ds, P
<1>6. 0 \in T
  <2>1. f[0] = <<>>
    BY <1>1, <1>2, <1>4
  <2> DEFINE u == f[0]
  <2>2. u \in Seq(Seq(Nat)) /\ Len(u) = 0
    BY <2>1
  <2> HIDE DEF u
  <2>3. ASSUME NEW d \in ds PROVE ~(d < 0)
    <3>1. d \in 0..(MaxDepth - 1)
      BY <1>1
    <3> QED
      BY <1>1, <3>1
  <2>4. Right(u, 0)
    BY <2>2, <2>3
  <2> HIDE DEF Right
  <2> QED
    BY <2>4 DEF u
<1>7. ASSUME NEW n \in Nat, n \in T PROVE n + 1 \in T
  <2> SUFFICES ASSUME n + 1 <= N PROVE Right(f[n + 1], n + 1)
    OBVIOUS
  <2> DEFINE m == n + 1
             w == f[n]
             u == f[m]
  <2>1. m \in 0..N /\ m # 0 /\ m - 1 = n /\ n <= N /\ m \in Nat \ {0} /\ N \in Nat
    BY <1>1, <1>2
  <2>2. Right(w, n)
    BY <1>7, <2>1
  <2>3. u = IF n \in ds THEN InsertAt(Resize(w, m), m, P(n)) ELSE w
    <3> HIDE DEF m
    <3> QED
      BY <1>4, <2>1
  <2> HIDE DEF u, w
  <2>4. /\ w \in Seq(Seq(Nat)) /\ Len(w) <= m /\ Len(w) \in Nat
        /\ \A i \in 1..Len(w) : w[i] = IF i - 1 \in ds /\ i <= n THEN P(i - 1) ELSE <<>>
        /\ \A d \in ds : d < n => d + 1 <= Len(w)
    BY <2>2
  <2>5. ASSUME n \notin ds PROVE Right(u, m)
    <3>1. u = w
      BY <2>3, <2>5
    <3>2. ASSUME NEW i \in 1..Len(u) PROVE u[i] = IF i - 1 \in ds /\ i <= m THEN P(i - 1) ELSE <<>>
      <4>1. i = m => i - 1 = n
        OBVIOUS
      <4>2. i <= m <=> i <= n \/ i = m
        OBVIOUS
      <4> QED
        BY <2>4, <2>5, <3>1, <4>1, <4>2
    <3>3. ASSUME NEW d \in ds, d < m PROVE d + 1 <= Len(u)
      <4>1. d \in Nat /\ d # n
        BY <1>1, <2>5
      <4>2. d < n
        BY <3>3, <4>1
      <4> QED
        BY <2>4, <3>1, <4>2
    <3>4. u \in Seq(Seq(Nat)) /\ Len(u) <= m + 1 /\ m # 0
      BY <2>1, <2>4, <3>1
    <3> HIDE DEF m
    <3> QED
      BY <3>2, <3>3, <3>4
  <2>6. ASSUME n \in ds PROVE Right(u, m)
    <3> DEFINE ids == P(n)
    <3>1. ids \in Seq(Nat) /\ u = InsertAt(Resize(w, m), m, ids)
      BY <1>3, <2>3, <2>6
    <3> HIDE DEF ids
    <3>2. /\ u \in Seq(Seq(Nat)) /\ Len(u) = m + 1 /\ u[m] = ids
          /\ \A i \in 1..(m - 1) : u[i] = IF i <= Len(w) THEN w[i] ELSE <<>>
          /\ u[m + 1] = IF Len(w) = m THEN w[m] ELSE <<>>
      <4>1. w \in Seq(Seq(Nat)) /\ m \in Nat \ {0} /\ Len(w) <= m
        BY <2>1, <2>4
      <4> HIDE DEF m
      <4>2. u \in Seq(Seq(Nat)) /\ Puts(w, m, ids, u)
        BY <3>1, <4>1, Inserted
      <4> QED
        BY <4>2 DEF Puts
    <3>3. ASSUME NEW i \in 1..Len(u) PROVE u[i] = IF i - 1 \in ds /\ i <= m THEN P(i - 1) ELSE <<>>
      <4>1. i \in 1..(m + 1)
        BY <3>2
      <4>2. CASE i = m
        <5>1. i - 1 = n /\ i <= m
          BY <4>2
        <5> QED
          BY <2>6, <3>2, <4>2, <5>1 DEF ids
      <4>3. CASE i = m + 1
        <5>1. ~(i <= m) /\ ~(m <= n)
          BY <4>3
        <5>2. Len(w) = m => w[m] = <<>>
          <6>1. Len(w) = m => m \in 1..Len(w)
            BY <2>1
          <6> QED
            BY <2>4, <5>1, <6>1
        <5> QED
          BY <3>2, <4>3, <5>1, <5>2
      <4>4. CASE i # m /\ i # m + 1
        <5>1. i \in 1..(m - 1) /\ i <= m /\ i <= n /\ i - 1 < n
          BY <4>1, <4>4
        <5>2. u[i] = IF i <= Len(w) THEN w[i] ELSE <<>>
          BY <3>2, <5>1
        <5>3. i <= Len(w) => i \in 1..Len(w)
          BY <2>4, <5>1
        <5>4. ~(i <= Len(w)) => i - 1 \notin ds
          <6>1. i - 1 \in ds => (i - 1) + 1 <= Len(w)
            BY <2>4, <5>1
          <6>2. (i - 1) + 1 = i
            OBVIOUS
          <6> QED
            BY <6>1, <6>2
        <5> QED
          BY <2>4, <5>1, <5>2, <5>3, <5>4
      <4> QED
        BY <4>2, <4>3, <4>4
    <3>4. ASSUME NEW d \in ds, d < m PROVE d + 1 <= Len(u)
      <4>1. d \in Nat
        BY <1>1
      <4> QED
        BY <3>2, <3>4, <4>1
    <3>5. u \in Seq(Seq(Nat)) /\ Len(u) <= m + 1 /\ m # 0
      BY <2>1, <3>2
    <3> HIDE DEF m
    <3> QED
      BY <3>3, <3>4, <3>5
  <2>7. Right(u, m)
    <3> HIDE DEF Right
    <3> QED
      BY <2>5, <2>6
  <2> QED
    BY <2>7 DEF u
<1>8. Right(v, N)
  <2>1. N \in Nat /\ N <= N
    BY <1>1, <1>2
  <2>2. N \in T
    <3> HIDE DEF T
    <3> QED
      BY <1>6, <1>7, <2>1, Inductive
  <2> HIDE DEF Right
  <2> QED
    BY <1>5, <2>1, <2>2
<1>9. ASSUME NEW i \in 1..Len(v) PROVE v[i] = IF i - 1 \in ds THEN P(i - 1) ELSE <<>>
  <2>1. i - 1 \in ds => i <= N
    <3>1. i - 1 \in ds => i - 1 < N
      BY <1>2
    <3> QED
      BY <1>1, <1>2, <3>1
  <2> QED
    BY <1>8, <2>1
<1>10. \A d \in ds : d + 1 <= Len(v)
  BY <1>2, <1>8
<1>11. v \in Seq(IdsSet(pairs)) /\ Len(v) <= MaxDepth + 1
  <2>1. v \in Seq(Seq(Nat)) /\ Len(v) <= N + 1 /\ Len(v) \in Nat
    BY <1>8
  <2>2. \A i \in 1..Len(v) : v[i] \in IdsSet(pairs)
    <3>1. <<>> \in IdsSet(pairs)
      BY DEF IdsSet
    <3> QED
      BY <1>3, <1>9, <3>1
  <2>3. v \in Seq(IdsSet(pairs))
    <3> DEFINE X == IdsSet(pairs)
               n == Len(v)
    <3>1. v = [i \in 1..n |-> v[i]] /\ n \in Nat /\ \A i \in 1..n : v[i] \in X
      BY <2>1, <2>2
    <3> HIDE DEF X, n
    <3>2. v \in Seq(X)
      BY <3>1
    <3> QED
      BY <3>2 DEF X
  <2> QED
    BY <1>1, <1>2, <2>1, <2>3
<1>12. ASSUME v # <<>> PROVE \E j \in 1..MaxDepth : j <= Len(v) /\ v[j] # <<>>
  <2>1. Len(v) # 0 /\ Len(v) \in Nat
    BY <1>8, <1>12
  <2>2. N # 0
    BY <1>8, <2>1
  <2>3. N - 1 \in ds /\ N \in 1..MaxDepth /\ (N - 1) + 1 = N
    BY <1>1, <1>2, <2>2
  <2>4. N <= Len(v)
    BY <1>10, <2>3
  <2>5. N \in 1..Len(v)
    BY <2>1, <2>3, <2>4
  <2>6. v[N] = P(N - 1)
    BY <1>9, <2>3, <2>5
  <2> QED
    BY <1>3, <2>3, <2>4, <2>6
<1>13. v \in DepthSet(pairs)
  BY <1>11, <1>12 DEF DepthSet
<1> QED
  BY <1>9, <1>10, <1>13 DEF ds, P

(* A vector that is given entry by entry. *)
LEMMA Listed ==
  ASSUME NEW S, NEW n \in Nat, NEW f, f = [i \in 1..n |-> f[i]], \A i \in 1..n : f[i] \in S
  PROVE  <<>> \o f = f /\ f \in Seq(S) /\ Len(f) = n
<1>1. f \in Seq(S) /\ Len(f) = n
  OBVIOUS
<1>2. <<>> \o f = f
  BY <1>1
<1> QED
  BY <1>1, <1>2

(* The vector of a start wire has the vectors of its finish wires. *)
LEMMA FinishVectorIs ==
  ASSUME NEW pairs, PairsOk(pairs), NEW tt, NEW start, NEW u, u = FinishVector(pairs, tt, start)
  PROVE  /\ u \in FinishSet(pairs)
         /\ \A i \in 1..Len(u) : u[i] = DepthVector(pairs, tt, start, i - 1)
         /\ \A k \in Finishes(pairs, tt, start) : k < Len(u)
<1> DEFINE n == Size(Finishes(pairs, tt, start))
           f == [i \in 1..n |-> DepthVector(pairs, tt, start, i - 1)]
           ks == Finishes(pairs, tt, start)
<1>1. CountLimit - 1 \in Nat /\ ks \subseteq 0..((CountLimit - 1) - 1)
  <2>1. CountLimit - 1 \in Nat
    BY FlatAssumption
  <2>2. ks \subseteq 0..((CountLimit - 1) - 1)
    BY KeysOfPairs
  <2> QED
    BY <2>1, <2>2
<1>2. n \in 0..(CountLimit - 1) /\ \A k \in ks : k < n
  <2> DEFINE B == CountLimit - 1
  <2> HIDE DEF B, ks
  <2>1. Size(ks) \in 0..B /\ \A k \in ks : k < Size(ks)
    BY <1>1, SizeIs DEF B
  <2> QED
    BY <2>1 DEF B, ks
<1>3. \A i \in 1..n : DepthVector(pairs, tt, start, i - 1) \in DepthSet(pairs)
  BY DepthVectorIs
<1>4. u = <<>> \o f
  BY DEF FinishVector
<1>5. n \in Nat /\ n < CountLimit
  <2> HIDE DEF n
  <2> QED
    BY <1>2, FlatAssumption
<1> HIDE DEF n
<1>6. f = [i \in 1..n |-> f[i]] /\ \A i \in 1..n : f[i] = DepthVector(pairs, tt, start, i - 1)
  OBVIOUS
<1> HIDE DEF f
<1>7. <<>> \o f = f /\ f \in Seq(DepthSet(pairs)) /\ Len(f) = n
  BY <1>3, <1>5, <1>6, Listed
<1> QED
  BY <1>2, <1>4, <1>5, <1>6, <1>7 DEF FinishSet

(* The vector of a tile type has those of its start wires. *)
LEMMA StartVectorIs ==
  ASSUME NEW pairs, PairsOk(pairs), NEW tt, NEW u, u = StartVector(pairs, tt)
  PROVE  /\ u \in StartSet(pairs)
         /\ \A i \in 1..Len(u) : u[i] = FinishVector(pairs, tt, i - 1)
         /\ \A k \in Starts(pairs, tt) : k < Len(u)
<1> DEFINE n == Size(Starts(pairs, tt))
           f == [i \in 1..n |-> FinishVector(pairs, tt, i - 1)]
           ks == Starts(pairs, tt)
<1>1. CountLimit - 1 \in Nat /\ ks \subseteq 0..((CountLimit - 1) - 1)
  <2>1. CountLimit - 1 \in Nat
    BY FlatAssumption
  <2>2. ks \subseteq 0..((CountLimit - 1) - 1)
    BY KeysOfPairs
  <2> QED
    BY <2>1, <2>2
<1>2. n \in 0..(CountLimit - 1) /\ \A k \in ks : k < n
  <2> DEFINE B == CountLimit - 1
  <2> HIDE DEF B, ks
  <2>1. Size(ks) \in 0..B /\ \A k \in ks : k < Size(ks)
    BY <1>1, SizeIs DEF B
  <2> QED
    BY <2>1 DEF B, ks
<1>3. \A i \in 1..n : FinishVector(pairs, tt, i - 1) \in FinishSet(pairs)
  BY FinishVectorIs
<1>4. u = <<>> \o f
  BY DEF StartVector
<1>5. n \in Nat /\ n < CountLimit
  <2> HIDE DEF n
  <2> QED
    BY <1>2, FlatAssumption
<1> HIDE DEF n
<1>6. f = [i \in 1..n |-> f[i]] /\ \A i \in 1..n : f[i] = FinishVector(pairs, tt, i - 1)
  OBVIOUS
<1> HIDE DEF f
<1>7. <<>> \o f = f /\ f \in Seq(FinishSet(pairs)) /\ Len(f) = n
  BY <1>3, <1>5, <1>6, Listed
<1> QED
  BY <1>2, <1>4, <1>5, <1>6, <1>7 DEF StartSet

(* The tree has the vectors of all tile types. *)
LEMMA TreeIs ==
  ASSUME NEW pairs, PairsOk(pairs)
  PROVE  /\ Tree(pairs) \in Seq(StartSet(pairs)) /\ Len(Tree(pairs)) = TileTypeCount
         /\ \A i \in 1..TileTypeCount : Tree(pairs)[i] = StartVector(pairs, i - 1)
<1> DEFINE n == TileTypeCount
           f == [i \in 1..n |-> StartVector(pairs, i - 1)]
<1>1. \A i \in 1..n : StartVector(pairs, i - 1) \in StartSet(pairs)
  BY StartVectorIs
<1>2. Tree(pairs) = <<>> \o f
  BY DEF Tree
<1>3. n \in Nat
  BY FlatAssumption
<1>4. f = [i \in 1..n |-> f[i]] /\ \A i \in 1..n : f[i] = StartVector(pairs, i - 1)
  OBVIOUS
<1> HIDE DEF f
<1>5. <<>> \o f = f /\ f \in Seq(StartSet(pairs)) /\ Len(f) = n
  BY <1>1, <1>3, <1>4, Listed
<1> QED
  BY <1>2, <1>4, <1>5

(* The vectors of all four levels. *)
Tiles(pairs) == FlattenSeq(Tree(pairs))
Fans(pairs) == FlattenSeq(Tiles(pairs))
Ladders(pairs) == FlattenSeq(Fans(pairs))

(* The vectors of every level. *)
LEMMA LevelsAre ==
  ASSUME NEW pairs, PairsOk(pairs)
  PROVE  /\ Tree(pairs) \in Seq(Seq(FinishSet(pairs))) /\ Small(Tree(pairs))
         /\ Tiles(pairs) \in Seq(Seq(DepthSet(pairs))) /\ Small(Tiles(pairs))
         /\ Fans(pairs) \in Seq(DepthSet(pairs)) /\ Fans(pairs) \in Seq(Seq(IdsSet(pairs)))
         /\ Small(Fans(pairs))
         /\ Ladders(pairs) \in Seq(IdsSet(pairs)) /\ Ladders(pairs) \in Seq(Seq(Nat))
<1> DEFINE I == IdsSet(pairs)
           D == DepthSet(pairs)
           F == FinishSet(pairs)
           U == StartSet(pairs)
           a == Tree(pairs)
           b == Tiles(pairs)
           c == Fans(pairs)
           d == Ladders(pairs)
<1>1. /\ U \subseteq Seq(F) /\ \A u \in U : Len(u) < CountLimit
  BY DEF StartSet
<1>2. /\ F \subseteq Seq(D) /\ \A u \in F : Len(u) < CountLimit
  BY DEF FinishSet
<1>3. /\ D \subseteq Seq(I) /\ \A u \in D : Len(u) < CountLimit
  <2>1. D \subseteq Seq(I)
    BY DEF DepthSet
  <2>2. ASSUME NEW u \in D PROVE Len(u) < CountLimit
    <3>1. /\ u \in Seq(I) /\ Len(u) <= MaxDepth + 1
          /\ u # <<>> => \E j \in 1..MaxDepth : j <= Len(u) /\ u[j] # <<>>
      BY DEF DepthSet
    <3>2. CASE u = <<>>
      BY <3>2, FlatAssumption
    <3>3. CASE u # <<>>
      <4>1. MaxDepth \in Nat /\ 2 * MaxDepth < CountLimit /\ CountLimit \in Nat
        BY TilePathsAssumption, FlatAssumption
      <4>2. MaxDepth >= 1
        BY <3>1, <3>3, <4>1
      <4>3. Len(u) \in Nat
        BY <3>1
      <4> QED
        BY <3>1, <4>1, <4>2, <4>3
    <3> QED
      BY <3>2, <3>3
  <2> QED
    BY <2>1, <2>2
<1>4. I \subseteq Seq(Nat)
  BY IdsAre
<1>5. a \in Seq(U)
  BY TreeIs
<1>6. b = FlattenSeq(a) /\ c = FlattenSeq(b) /\ d = FlattenSeq(c)
  BY DEF Tiles, Fans, Ladders
<1> HIDE DEF I, D, F, U, a, b, c, d
<1>7. a \in Seq(Seq(F))
  BY <1>1, <1>5, Widened
<1>8. b \in Seq(F)
  BY <1>6, <1>7, Flattened
<1>9. b \in Seq(Seq(D))
  BY <1>2, <1>8, Widened
<1>10. c \in Seq(D)
  BY <1>6, <1>9, Flattened
<1>11. c \in Seq(Seq(I))
  BY <1>3, <1>10, Widened
<1>12. d \in Seq(I)
  BY <1>6, <1>11, Flattened
<1>13. d \in Seq(Seq(Nat))
  BY <1>4, <1>12, Widened
<1>14. Small(a)
  <2>1. \A i \in 1..Len(a) : a[i] \in U
    BY <1>5
  <2> QED
    BY <1>1, <2>1 DEF Small
<1>15. Small(b)
  <2>1. \A i \in 1..Len(b) : b[i] \in F
    BY <1>8
  <2> QED
    BY <1>2, <2>1 DEF Small
<1>16. Small(c)
  <2>1. \A i \in 1..Len(c) : c[i] \in D
    BY <1>10
  <2> QED
    BY <1>3, <2>1 DEF Small
<1> QED
  BY <1>7, <1>9, <1>10, <1>11, <1>12, <1>13, <1>14, <1>15, <1>16 DEF I, D, F, U, a, b, c, d

(* The flat arrays stand for the vectors of the levels. *)
LEMMA FlatIs ==
  ASSUME NEW pairs, PairsOk(pairs), NEW flat, NEW names, flat = Flat(pairs, names)
  PROVE  /\ flat.tree = skippable(Spans(Tree(pairs)))
         /\ flat.tile = skippable(Spans(Tiles(pairs)))
         /\ flat.start = skippable(Spans(Fans(pairs)))
         /\ flat.finish = skippable(Spans(Ladders(pairs)))
         /\ flat.depth = FlattenSeq(Ladders(pairs))
         /\ flat.tree \in Seq(Entries) /\ Len(flat.tree) = Len(Tree(pairs))
         /\ flat.tile \in Seq(Entries) /\ Len(flat.tile) = Len(Tiles(pairs))
         /\ flat.start \in Seq(Entries) /\ Len(flat.start) = Len(Fans(pairs))
         /\ flat.finish \in Seq(Entries) /\ Len(flat.finish) = Len(Ladders(pairs))
<1>1. /\ flat.tree = skippable(Spans(Tree(pairs)))
      /\ flat.tile = skippable(Spans(Tiles(pairs)))
      /\ flat.start = skippable(Spans(Fans(pairs)))
      /\ flat.finish = skippable(Spans(Ladders(pairs)))
      /\ flat.depth = FlattenSeq(Ladders(pairs))
  BY DEF Flat, Tiles, Fans, Ladders
<1>2. flat.tree \in Seq(Entries) /\ Len(flat.tree) = Len(Tree(pairs))
  BY <1>1, LevelsAre, LevelIs
<1>3. flat.tile \in Seq(Entries) /\ Len(flat.tile) = Len(Tiles(pairs))
  BY <1>1, LevelsAre, LevelIs
<1>4. flat.start \in Seq(Entries) /\ Len(flat.start) = Len(Fans(pairs))
  BY <1>1, LevelsAre, LevelIs
<1>5. flat.finish \in Seq(Entries) /\ Len(flat.finish) = Len(Ladders(pairs))
  BY <1>1, LevelsAre, LevelIs
<1> QED
  BY <1>1, <1>2, <1>3, <1>4, <1>5

(* The first subscript finds the vector of a tile type. *)
LEMMA TileSubscript ==
  ASSUME NEW pairs, PairsOk(pairs), NEW flat, NEW names, flat = Flat(pairs, names),
         NEW tt \in 0..(TileTypeCount - 1), NEW i, i = tt + 1
  PROVE  /\ i \in 1..Len(Tree(pairs)) /\ Tree(pairs)[i] = StartVector(pairs, tt)
         /\ subscript1(flat, tt) = flat.tree[i]
         /\ subscript1(flat, tt).count = Len(StartVector(pairs, tt))
         /\ Len(Tree(pairs)[i]) \in Nat /\ Len(Tree(pairs)[i]) < CountLimit
<1> DEFINE a == Tree(pairs)
           v == StartVector(pairs, tt)
<1>1. flat.tree = skippable(Spans(a)) /\ flat.tree \in Seq(Entries) /\ Len(flat.tree) = Len(a)
  BY FlatIs
<1>2. a \in Seq(Seq(FinishSet(pairs))) /\ Small(a)
  BY LevelsAre
<1>3. i \in 1..Len(a) /\ a[i] = v
  <2>1. i \in 1..TileTypeCount /\ i - 1 = tt
    BY FlatAssumption
  <2>2. Len(a) = TileTypeCount /\ a[i] = StartVector(pairs, i - 1)
    BY <2>1, TreeIs
  <2> QED
    BY <2>1, <2>2
<1> HIDE DEF a, v
<1>4. subscript1(flat, tt) = flat.tree[i]
  BY <1>1, <1>3 DEF subscript1, At
<1>5. Len(a[i]) < CountLimit /\ Len(a[i]) \in Nat
  BY <1>2, <1>3 DEF Small
<1>6. subscript1(flat, tt).count = Len(v)
  <2>1. flat.tree[i].count = Len(a[i]) % CountLimit
    BY <1>1, <1>2, <1>3, LevelIs
  <2> QED
    BY <1>3, <1>4, <1>5, <2>1, Fits
<1> QED
  BY <1>3, <1>4, <1>5, <1>6 DEF a, v

(* The second subscript finds the vector of a start wire. *)
LEMMA StartSubscript ==
  ASSUME NEW pairs, PairsOk(pairs), NEW flat, NEW names, flat = Flat(pairs, names),
         NEW tt \in 0..(TileTypeCount - 1), NEW start \in 0..(Len(StartVector(pairs, tt)) - 1)
  PROVE  \E q \in 1..Len(Tiles(pairs)) :
           /\ Tiles(pairs)[q] = FinishVector(pairs, tt, start)
           /\ subscript2(flat, tt, start) = flat.tile[q]
           /\ subscript2(flat, tt, start).count = Len(FinishVector(pairs, tt, start))
<1> DEFINE a == Tree(pairs)
           b == Tiles(pairs)
           i == tt + 1
           v == StartVector(pairs, tt)
           w == FinishVector(pairs, tt, start)
           q == Before(a)[i] + start + 1
           F == FinishSet(pairs)
           lv == flat.tree
           bl == flat.tile
<1>1. /\ flat.tree = skippable(Spans(a)) /\ flat.tile = skippable(Spans(b))
      /\ flat.tile \in Seq(Entries) /\ Len(flat.tile) = Len(b)
  BY FlatIs
<1>2. /\ a \in Seq(Seq(FinishSet(pairs)))
      /\ b \in Seq(Seq(DepthSet(pairs))) /\ Small(b)
  BY LevelsAre
<1>3. b = FlattenSeq(a)
  BY DEF Tiles
<1>4. \A k \in 1..Len(v) : v[k] = FinishVector(pairs, tt, k - 1)
  BY StartVectorIs
<1>5. /\ i \in 1..Len(a) /\ a[i] = v /\ subscript1(flat, tt) = flat.tree[i]
      /\ Len(a[i]) \in Nat /\ Len(a[i]) < CountLimit
  <2>1. i = tt + 1
    OBVIOUS
  <2> HIDE DEF i
  <2> QED
    BY <2>1, TileSubscript
<1> HIDE DEF a, b, i
<1>6. /\ q \in 1..Len(flat.tile) /\ FlattenSeq(a)[q] = a[i][start + 1]
      /\ At(flat.tile, flat.tree[i].index + start) = flat.tile[q]
  <2>1. start \in 0..(Len(a[i]) - 1) /\ i \in 1..Len(a) /\ Len(a[i]) < CountLimit
    BY <1>5
  <2>2. a \in Seq(Seq(F)) /\ bl \in Seq(Entries) /\ lv = skippable(Spans(a))
        /\ Len(bl) = Len(FlattenSeq(a))
    BY <1>1, <1>2, <1>3
  <2>3. q = Before(a)[i] + start + 1
    OBVIOUS
  <2> HIDE DEF q, F, lv, bl
  <2> HIDE <1>1, <1>2, <1>3, <1>4, <1>5
  <2>4. /\ q \in 1..Len(bl) /\ FlattenSeq(a)[q] = a[i][start + 1]
        /\ At(bl, lv[i].index + start) = bl[q]
    BY <2>1, <2>2, <2>3, Descends, SMTT(60)
  <2> QED
    BY <2>4 DEF lv, bl
<1> HIDE DEF q
<1>7. q \in 1..Len(b) /\ b[q] = w
  <2>1. start + 1 \in 1..Len(v) /\ (start + 1) - 1 = start
    BY <1>5
  <2>2. v[start + 1] = FinishVector(pairs, tt, (start + 1) - 1)
    BY <1>4, <2>1
  <2> QED
    BY <1>1, <1>3, <1>5, <1>6, <2>1, <2>2
<1>8. subscript2(flat, tt, start) = flat.tile[q]
  BY <1>5, <1>6 DEF subscript2
<1>9. Len(b[q]) < CountLimit /\ Len(b[q]) \in Nat
  BY <1>2, <1>7 DEF Small
<1>10. flat.tile[q].count = Len(b[q])
  <2>1. flat.tile[q].count = Len(b[q]) % CountLimit
    BY <1>1, <1>2, <1>7, LevelIs
  <2> QED
    BY <1>9, <2>1, Fits
<1> QED
  BY <1>7, <1>8, <1>10 DEF b

(* The third subscript finds the vector of the depths of two ends. *)
LEMMA FinishSubscript ==
  ASSUME NEW pairs, PairsOk(pairs), NEW flat, NEW names, flat = Flat(pairs, names),
         NEW tt \in 0..(TileTypeCount - 1), NEW start \in 0..(Len(StartVector(pairs, tt)) - 1),
         NEW finish \in 0..(Len(FinishVector(pairs, tt, start)) - 1)
  PROVE  \E p \in 1..Len(Fans(pairs)) :
           /\ Fans(pairs)[p] = DepthVector(pairs, tt, start, finish)
           /\ subscript3(flat, subscript2(flat, tt, start), finish) = flat.start[p]
<1> DEFINE b == Tiles(pairs)
           c == Fans(pairs)
           w == FinishVector(pairs, tt, start)
           D == DepthSet(pairs)
           lv == flat.tile
           bl == flat.start
<1>1. /\ lv = skippable(Spans(b)) /\ bl \in Seq(Entries) /\ Len(bl) = Len(c)
  BY FlatIs
<1>2. b \in Seq(Seq(D)) /\ Small(b)
  BY LevelsAre
<1>3. c = FlattenSeq(b)
  BY DEF Fans
<1>4. PICK q \in 1..Len(b) : b[q] = w /\ subscript2(flat, tt, start) = lv[q]
  BY StartSubscript
<1> DEFINE p == Before(b)[q] + finish + 1
<1>5. p = Before(b)[q] + finish + 1 /\ finish \in 0..(Len(b[q]) - 1)
  BY <1>4
<1> HIDE DEF p, b, c, D, lv, bl
<1>6. Len(b[q]) < CountLimit /\ Len(b[q]) \in Nat /\ Len(bl) = Len(FlattenSeq(b))
  BY <1>1, <1>2, <1>3, <1>4 DEF Small
<1>7. /\ p \in 1..Len(bl) /\ FlattenSeq(b)[p] = b[q][finish + 1]
      /\ At(bl, lv[q].index + finish) = bl[p]
  <2>1. b \in Seq(Seq(D)) /\ bl \in Seq(Entries) /\ lv = skippable(Spans(b))
        /\ Len(bl) = Len(FlattenSeq(b))
    BY <1>1, <1>2, <1>6
  <2>2. finish \in 0..(Len(b[q]) - 1) /\ q \in 1..Len(b) /\ Len(b[q]) < CountLimit
    BY <1>4, <1>5, <1>6
  <2>3. p = Before(b)[q] + finish + 1
    BY <1>5
  <2> HIDE <1>1, <1>2, <1>4, <1>5, <1>6
  <2> QED
    BY <2>1, <2>2, <2>3, Descends, SMTT(60)
<1>8. p \in 1..Len(c) /\ c[p] = DepthVector(pairs, tt, start, finish)
  <2>1. finish + 1 \in 1..Len(w) /\ (finish + 1) - 1 = finish
    BY <1>4, <1>6
  <2>2. w[finish + 1] = DepthVector(pairs, tt, start, (finish + 1) - 1)
    BY <2>1, FinishVectorIs
  <2> QED
    BY <1>1, <1>3, <1>4, <1>7, <2>1, <2>2
<1>9. subscript3(flat, subscript2(flat, tt, start), finish) = bl[p]
  BY <1>4, <1>7 DEF subscript3, bl
<1> QED
  BY <1>8, <1>9 DEF c, bl

(* The entry of a depth, and the ids that are read through it. *)

(* The depths of the vector at a place. *)
DepthsOf(pairs, p) == 0..(Len(Fans(pairs)[p]) - 1)

(* The scan's subscript at a depth of the vector at p is the entry of its ids. *)
ReadAt(pairs, flat, p, d, r) ==
  /\ r = Before(Fans(pairs))[p] + d + 1
  /\ r \in 1..Len(Ladders(pairs))
  /\ Ladders(pairs)[r] = Fans(pairs)[p][d + 1]
  /\ subscript4(flat, flat.start[p], d) = flat.finish[r]

(* Every depth of a vector is read at the entry that its ids have. *)
LEMMA DepthEntry ==
  ASSUME NEW pairs, PairsOk(pairs), NEW flat, NEW names, flat = Flat(pairs, names),
         NEW p \in 1..Len(Fans(pairs)), NEW d \in DepthsOf(pairs, p)
  PROVE  \E r : ReadAt(pairs, flat, p, d, r)
<1> DEFINE r == Before(Fans(pairs))[p] + d + 1
<1> HIDE DEF r
<1> DEFINE c == Fans(pairs)
           I == IdsSet(pairs)
           lv == flat.start
           bl == flat.finish
<1>1. /\ lv = skippable(Spans(c)) /\ bl \in Seq(Entries) /\ Len(bl) = Len(Ladders(pairs))
  BY FlatIs
<1>2. c \in Seq(Seq(I)) /\ Small(c)
  BY LevelsAre
<1>3. Ladders(pairs) = FlattenSeq(c)
  BY DEF Ladders
<1> HIDE DEF c, I, lv, bl
<1>4. /\ p \in 1..Len(c) /\ d \in 0..(Len(c[p]) - 1) /\ r = Before(c)[p] + d + 1
      /\ Len(c[p]) < CountLimit
  BY <1>2 DEF Small, c, r, DepthsOf
<1>5. Len(bl) = Len(FlattenSeq(c))
  BY <1>1, <1>3
<1>6. /\ r \in 1..Len(bl) /\ FlattenSeq(c)[r] = c[p][d + 1]
      /\ At(bl, lv[p].index + d) = bl[r]
  <2>1. c \in Seq(Seq(I)) /\ bl \in Seq(Entries) /\ lv = skippable(Spans(c))
    BY <1>1, <1>2
  <2>2. p \in 1..Len(c)
    BY <1>4
  <2>3. d \in 0..(Len(c[p]) - 1) /\ Len(c[p]) < CountLimit
    BY <1>4
  <2>4. r = Before(c)[p] + d + 1
    BY <1>4
  <2> DEFINE X == Seq(I)
  <2> HIDE DEF X
  <2>5. c \in Seq(X)
    BY <2>1 DEF X
  <2> QED
    BY <1>5, <2>1, <2>2, <2>3, <2>4, Descends, SMTT(60)
<1>7. /\ r \in 1..Len(Ladders(pairs)) /\ Ladders(pairs)[r] = Fans(pairs)[p][d + 1]
      /\ subscript4(flat, flat.start[p], d) = flat.finish[r]
  BY <1>1, <1>3, <1>6 DEF subscript4, c, lv, bl
<1>8. ReadAt(pairs, flat, p, d, r)
  BY <1>7 DEF ReadAt, r
<1> QED
  BY <1>8

(* The entry of a vector of depths counts them. *)
LEMMA CountOfDepths ==
  ASSUME NEW pairs, PairsOk(pairs), NEW flat, NEW names, flat = Flat(pairs, names),
         NEW p \in 1..Len(Fans(pairs))
  PROVE  /\ flat.start[p].count = Len(Fans(pairs)[p])
         /\ Fans(pairs)[p] \in DepthSet(pairs) /\ Len(Fans(pairs)[p]) \in Nat
<1> DEFINE c == Fans(pairs)
<1>1. flat.start = skippable(Spans(c)) /\ c \in Seq(Seq(IdsSet(pairs))) /\ Small(c)
      /\ c \in Seq(DepthSet(pairs))
  BY FlatIs, LevelsAre
<1>2. p \in 1..Len(c)
  OBVIOUS
<1> HIDE DEF c
<1>3. flat.start[p].count = Len(c[p]) % CountLimit
  BY <1>1, <1>2, LevelIs
<1>4. Len(c[p]) < CountLimit
  BY <1>1, <1>2 DEF Small
<1>5. Len(c[p]) \in Nat
  BY <1>1, <1>2
<1>6. c[p] \in DepthSet(pairs)
  BY <1>1, <1>2
<1> QED
  BY <1>3, <1>4, <1>5, <1>6, Fits DEF c

(* The entry of the ids of a depth, or the distance it has in place of ids. *)
LEMMA LadderEntry ==
  ASSUME NEW pairs, PairsOk(pairs), NEW flat, NEW names, flat = Flat(pairs, names),
         NEW r \in 1..Len(Ladders(pairs))
  PROVE  /\ flat.finish[r].count = Len(Ladders(pairs)[r]) % CountLimit
         /\ flat.finish[r].count \in Nat /\ flat.finish[r].count < CountLimit
         /\ flat.finish[r].index \in Int
         /\ flat.finish[r].count # 0 => flat.finish[r].index = Before(Ladders(pairs))[r]
         /\ flat.finish[r].count = 0 =>
              \E next : Onward(flat.finish, r, next) /\ flat.finish[r].index = r - next
<1> DEFINE d == Ladders(pairs)
           bl == flat.finish
<1>1. bl = skippable(Spans(d)) /\ bl \in Seq(Entries) /\ Len(bl) = Len(d)
  BY FlatIs
<1>2. d \in Seq(Seq(Nat))
  BY LevelsAre
<1> HIDE DEF d, bl
<1>3. r \in 1..Len(d)
  BY DEF d
<1>4. /\ bl[r].count = Len(d[r]) % CountLimit
      /\ bl[r].count # 0 => bl[r].index = Before(d)[r]
      /\ bl[r].count = 0 => \E next : Onward(bl, r, next) /\ bl[r].index = r - next
  BY <1>1, <1>2, <1>3, LevelIs
<1>5. bl[r] \in Entries
  BY <1>1, <1>3
<1>6. bl[r].count \in 0..(CountLimit - 1) /\ bl[r].index \in Int
  BY <1>5 DEF Entries
<1>7. bl[r].count \in Nat /\ bl[r].count < CountLimit
  BY <1>6, FlatAssumption
<1> QED
  BY <1>4, <1>6, <1>7 DEF d, bl

(* Ids that can be counted are read as they were laid out. *)
LEMMA IdsRead ==
  ASSUME NEW pairs, PairsOk(pairs), NEW flat, NEW names, flat = Flat(pairs, names),
         NEW r \in 1..Len(Ladders(pairs)), Len(Ladders(pairs)[r]) < CountLimit,
         Ladders(pairs)[r] # <<>>
  PROVE  path_ids(flat, flat.finish[r]) = Ladders(pairs)[r]
<1> DEFINE d == Ladders(pairs)
           n == Len(d[r])
<1>1. flat.depth = FlattenSeq(d)
  BY FlatIs
<1>2. d \in Seq(Seq(Nat))
  BY LevelsAre
<1>3. r \in 1..Len(d) /\ d[r] \in Seq(Nat) /\ n \in Nat /\ n # 0
  <2>1. d[r] \in Seq(Nat) /\ d[r] # <<>>
    BY <1>2
  <2> QED
    BY <2>1
<1>4. flat.finish[r].count = n
  <2>1. flat.finish[r].count = n % CountLimit
    BY LadderEntry
  <2> QED
    BY <1>3, <2>1, Fits
<1>5. flat.finish[r].index = Before(d)[r]
  BY <1>3, <1>4, LadderEntry
<1> HIDE DEF d
<1>6. SubSeq(FlattenSeq(d), Before(d)[r] + 1, Before(d)[r] + Len(d[r])) = d[r]
  BY <1>2, <1>3, Part
<1> QED
  BY <1>1, <1>4, <1>5, <1>6 DEF path_ids, d

(* A pair's own ids are behind its own subscripts. *)
LEMMA PairEntry ==
  ASSUME NEW pairs, PairsOk(pairs), NEW flat, NEW names, flat = Flat(pairs, names),
         NEW key \in DOMAIN pairs
  PROVE  \E r \in 1..Len(Ladders(pairs)) :
           /\ Ladders(pairs)[r] = pairs[key]
           /\ subscript4(flat, subscript3(flat, subscript2(flat, key[1], key[2]), key[3]), key[4])
                = flat.finish[r]
<1> DEFINE tt == key[1]
           start == key[2]
           finish == key[3]
           d == key[4]
<1>1. /\ key \in Nat \X Nat \X Nat \X Nat /\ tt < TileTypeCount
  BY DEF PairsOk, Keys
<1>2. /\ tt \in 0..(TileTypeCount - 1) /\ start \in Nat /\ finish \in Nat /\ d \in Nat
      /\ key = <<tt, start, finish, d>>
  <2>1. tt \in Nat /\ start \in Nat /\ finish \in Nat /\ d \in Nat /\ key = <<tt, start, finish, d>>
    BY <1>1
  <2> QED
    BY <1>1, <2>1, FlatAssumption
<1>3. start \in 0..(Len(StartVector(pairs, tt)) - 1)
  <2>1. start \in Starts(pairs, tt)
    BY DEF Starts
  <2>2. start < Len(StartVector(pairs, tt))
    BY <2>1, StartVectorIs
  <2>3. Len(StartVector(pairs, tt)) \in Nat
    <3>1. StartVector(pairs, tt) \in Seq(FinishSet(pairs))
      BY StartVectorIs DEF StartSet
    <3> QED
      BY <3>1
  <2> QED
    BY <1>2, <2>2, <2>3
<1>4. finish \in 0..(Len(FinishVector(pairs, tt, start)) - 1)
  <2>1. finish \in Finishes(pairs, tt, start)
    BY DEF Finishes
  <2>2. finish < Len(FinishVector(pairs, tt, start))
    BY <2>1, FinishVectorIs
  <2>3. Len(FinishVector(pairs, tt, start)) \in Nat
    <3>1. FinishVector(pairs, tt, start) \in Seq(DepthSet(pairs))
      BY FinishVectorIs DEF FinishSet
    <3> QED
      BY <3>1
  <2> QED
    BY <1>2, <2>2, <2>3
<1>5. PICK p \in 1..Len(Fans(pairs)) :
        /\ Fans(pairs)[p] = DepthVector(pairs, tt, start, finish)
        /\ subscript3(flat, subscript2(flat, tt, start), finish) = flat.start[p]
  <2> HIDE DEF tt, start, finish
  <2> QED
    BY <1>2, <1>3, <1>4, FinishSubscript
<1> DEFINE v == DepthVector(pairs, tt, start, finish)
<1>6. d \in Depths(pairs, tt, start, finish)
  BY <1>2, KeysOfPairs
<1>7. d + 1 <= Len(v) /\ Len(v) \in Nat
  BY <1>5, <1>6, CountOfDepths, DepthVectorIs
<1>8. d + 1 \in 1..Len(v) /\ (d + 1) - 1 = d /\ d \in 0..(Len(v) - 1)
  <2> HIDE DEF v, d
  <2> QED
    BY <1>2, <1>7
<1>9. v[d + 1] = pairs[key]
  <2>1. v[d + 1] = IF (d + 1) - 1 \in Depths(pairs, tt, start, finish)
                   THEN pairs[<<tt, start, finish, (d + 1) - 1>>] ELSE <<>>
    BY <1>8, DepthVectorIs
  <2>2. v[d + 1] = pairs[<<tt, start, finish, d>>]
    BY <1>6, <1>8, <2>1
  <2> QED
    BY <1>2, <2>2
<1>10. PICK r : ReadAt(pairs, flat, p, d, r)
  <2>1. d \in DepthsOf(pairs, p)
    BY <1>5, <1>8 DEF DepthsOf
  <2> HIDE DEF d
  <2> QED
    BY <2>1, DepthEntry
<1>11. /\ r \in 1..Len(Ladders(pairs)) /\ Ladders(pairs)[r] = Fans(pairs)[p][d + 1]
       /\ subscript4(flat, flat.start[p], d) = flat.finish[r]
  <2> HIDE DEF d
  <2> QED
    BY <1>10 DEF ReadAt
<1> QED
  BY <1>5, <1>9, <1>11

(* A part is as long as it was asked to be. *)
LEMMA CutLength ==
  ASSUME NEW s, NEW a \in Int, NEW n \in Nat
  PROVE  Len(SubSeq(s, a + 1, a + n)) = n
<1> DEFINE f == [i \in 1..n |-> s[(i + (a + 1)) - 1]]
           S == {f[i] : i \in 1..n}
<1>1. SubSeq(s, a + 1, a + n) = f
  <2>1. SubSeq(s, a + 1, a + n) = [i \in 1..((1 + (a + n)) - (a + 1)) |-> s[(i + (a + 1)) - 1]]
    BY DEF SubSeq
  <2>2. (1 + (a + n)) - (a + 1) = n
    OBVIOUS
  <2> QED
    BY <2>1, <2>2
<1>2. \A i \in 1..n : f[i] \in S
  OBVIOUS
<1>3. f = [i \in 1..n |-> f[i]]
  OBVIOUS
<1> HIDE DEF f, S
<1>4. Len(f) = n
  BY <1>2, <1>3, Listed
<1> QED
  BY <1>1, <1>4

(* The checks of store_in_file pass if and only if every pair's ids can be counted. *)
LEMMA VerifiedIsFits ==
  ASSUME NEW pairs, PairsOk(pairs), NEW flat, NEW names, flat = Flat(pairs, names)
  PROVE  Verified(pairs, flat) <=> \A key \in DOMAIN pairs : Len(pairs[key]) < CountLimit
<1>1. ASSUME Verified(pairs, flat), NEW key \in DOMAIN pairs
      PROVE  Len(pairs[key]) < CountLimit
  <2>1. PICK r \in 1..Len(Ladders(pairs)) :
          subscript4(flat, subscript3(flat, subscript2(flat, key[1], key[2]), key[3]), key[4])
            = flat.finish[r]
    BY PairEntry
  <2>2. pairs[key] = path_ids(flat, flat.finish[r])
    BY <1>1, <2>1 DEF Verified
  <2>3. /\ flat.finish[r].count \in Nat /\ flat.finish[r].count < CountLimit
        /\ flat.finish[r].index \in Int
    BY LadderEntry
  <2>4. Len(path_ids(flat, flat.finish[r])) = flat.finish[r].count
    BY <2>3, CutLength DEF path_ids
  <2> QED
    BY <2>2, <2>3, <2>4
<1>2. ASSUME \A key \in DOMAIN pairs : Len(pairs[key]) < CountLimit
      PROVE  Verified(pairs, flat)
  <2>1. Small(Ladders(pairs))
    <3>1. Ladders(pairs) \in Seq(IdsSet(pairs))
      BY LevelsAre
    <3>2. Len(<<>>) < CountLimit
      BY FlatAssumption
    <3>3. \A u \in IdsSet(pairs) : Len(u) < CountLimit
      BY <1>2, <3>2 DEF IdsSet
    <3>4. \A i \in 1..Len(Ladders(pairs)) : Ladders(pairs)[i] \in IdsSet(pairs)
      BY <3>1
    <3> QED
      BY <3>3, <3>4 DEF Small
  <2>2. Skips(Spans(Tree(pairs)))
    BY LevelsAre, SmallSkips
  <2>3. Skips(Spans(Tiles(pairs)))
    BY LevelsAre, SmallSkips
  <2>4. Skips(Spans(Fans(pairs)))
    BY LevelsAre, SmallSkips
  <2>5. Skips(Spans(Ladders(pairs)))
    BY <2>1, LevelsAre, SmallSkips
  <2>6. ASSUME NEW i \in 1..TileTypeCount PROVE flat.tree[i].count = Len(Tree(pairs)[i])
    <3> DEFINE a == Tree(pairs)
    <3>1. a \in Seq(Seq(FinishSet(pairs))) /\ Small(a) /\ Len(a) = TileTypeCount
          /\ flat.tree = skippable(Spans(a))
      BY LevelsAre, TreeIs, FlatIs
    <3> HIDE DEF a
    <3>2. i \in 1..Len(a) /\ Len(a[i]) \in Nat /\ Len(a[i]) < CountLimit
      BY <3>1 DEF Small
    <3>3. flat.tree[i].count = Len(a[i]) % CountLimit
      BY <3>1, <3>2, LevelIs
    <3> QED
      BY <3>2, <3>3, Fits DEF a
  <2>7. ASSUME NEW key \in DOMAIN pairs
        PROVE  pairs[key] =
                 path_ids(flat, subscript4(flat, subscript3(flat,
                                  subscript2(flat, key[1], key[2]), key[3]), key[4]))
    <3>1. PICK r \in 1..Len(Ladders(pairs)) :
            /\ Ladders(pairs)[r] = pairs[key]
            /\ subscript4(flat, subscript3(flat, subscript2(flat, key[1], key[2]), key[3]), key[4])
                 = flat.finish[r]
      BY PairEntry
    <3>2. pairs[key] # <<>>
      BY DEF PairsOk
    <3>3. path_ids(flat, flat.finish[r]) = Ladders(pairs)[r]
      BY <1>2, <3>1, <3>2, IdsRead
    <3> QED
      BY <3>1, <3>3
  <2> QED
    BY <2>2, <2>3, <2>4, <2>5, <2>6, <2>7 DEF Verified, Tiles, Fans, Ladders
<1> QED
  BY <1>1, <1>2

(* What the scan finds at a depth below n, the number of depths, when the ids of
   the depths lie in w between the cuts of c: the ids of this depth, or a further
   depth with no ids before it. *)
ScanStep(flat, depths, w, c, n, d) ==
  \/ /\ subscript4(flat, depths, d).count # 0
     /\ path_ids(flat, subscript4(flat, depths, d)) = SubSeq(w, c[d] + 1, c[d + 1])
  \/ /\ subscript4(flat, depths, d).count = 0
     /\ \E e \in Nat : /\ e > d /\ e < CountLimit /\ d - subscript4(flat, depths, d).index = e
                       /\ IF e <= n THEN c[e] = c[d] ELSE c[n] = c[d]

(* What the scan reads from a depth on, as the code goes on from it. *)
Scanned(f, flat, depths, d) ==
  IF d >= depths.count THEN <<>>
  ELSE IF subscript4(flat, depths, d).count = 0
  THEN f[(d - subscript4(flat, depths, d).index) % CountLimit]
  ELSE path_ids(flat, subscript4(flat, depths, d)) \o f[d + 1]
Scanning(flat, depths) == CHOOSE f : f = [d \in Nat |-> Scanned(f, flat, depths, d)]

(* The scan reads everything from the first cut to the last. *)
LEMMA ScanReads ==
  ASSUME NEW flat, NEW depths, NEW n \in Nat, depths.count = n, NEW S, NEW w \in Seq(S),
         NEW c \in [0..n -> Nat], \A i, j \in 0..n : i <= j => c[i] <= c[j], c[n] <= Len(w),
         \A d \in 0..(n - 1) : ScanStep(flat, depths, w, c, n, d)
  PROVE  scan(flat, depths) = SubSeq(w, c[0] + 1, c[n])
<1> DEFINE E(d) == subscript4(flat, depths, d)
           D(f, d) == Scanned(f, flat, depths, d)
           g == [d \in Nat |-> IF d >= n THEN <<>> ELSE SubSeq(w, c[d] + 1, c[n])]
           f == Scanning(flat, depths)
<1>1. \A h : \A d \in Nat : D(h, d) = IF d >= n THEN <<>>
                                      ELSE IF E(d).count = 0 THEN h[(d - E(d).index) % CountLimit]
                                      ELSE path_ids(flat, E(d)) \o h[d + 1]
  BY DEF Scanned
<1>2. n \in 0..n /\ 0 \in 0..n /\ c[n] \in Nat
  OBVIOUS
<1>3. SubSeq(w, c[n] + 1, c[n]) = <<>>
  <2> DEFINE k == c[n]
  <2> HIDE DEF k
  <2>1. k \in Nat /\ k <= Len(w)
    BY <1>2 DEF k
  <2>2. SubSeq(w, k + 1, k) \in Seq(S) /\ Len(SubSeq(w, k + 1, k)) = k - k
    BY <2>1, Cut
  <2>3. SubSeq(w, k + 1, k) = <<>>
    BY <2>1, <2>2
  <2> QED
    BY <2>3 DEF k
<1>4. \A d \in 0..n : g[d] = SubSeq(w, c[d] + 1, c[n])
  <2> TAKE d \in 0..n
  <2>1. d \in Nat /\ (d >= n => d = n)
    OBVIOUS
  <2>2. g[d] = IF d >= n THEN <<>> ELSE SubSeq(w, c[d] + 1, c[n])
    BY <2>1
  <2> HIDE DEF g
  <2>3. CASE d >= n
    <3>1. d = n /\ g[d] = <<>>
      BY <2>1, <2>2, <2>3
    <3> QED
      BY <1>3, <3>1
  <2> QED
    BY <2>2, <2>3
<1>5. \A d \in Nat : d >= n => g[d] = <<>>
  OBVIOUS
<1>6. g = [d \in Nat |-> g[d]]
  OBVIOUS
<1> HIDE DEF g
<1>7. ASSUME NEW d \in 0..(n - 1)
      PROVE  IF E(d).count = 0
             THEN \E e \in Nat : e > d /\ (d - E(d).index) % CountLimit = e /\ g[e] = g[d]
             ELSE path_ids(flat, E(d)) \o g[d + 1] = g[d]
  <2>1. d \in 0..n /\ d + 1 \in 0..n /\ d <= d + 1 /\ d + 1 <= n /\ d \in Nat
    OBVIOUS
  <2>2. c[d] \in Nat /\ c[d + 1] \in Nat /\ c[d] <= c[d + 1] /\ c[d + 1] <= c[n]
    BY <1>2, <2>1
  <2>3. ScanStep(flat, depths, w, c, n, d)
    OBVIOUS
  <2>4. ASSUME E(d).count = 0
        PROVE  \E e \in Nat : e > d /\ (d - E(d).index) % CountLimit = e /\ g[e] = g[d]
    <3>1. PICK e \in Nat : /\ e > d /\ e < CountLimit /\ d - E(d).index = e
                           /\ IF e <= n THEN c[e] = c[d] ELSE c[n] = c[d]
      BY <2>3, <2>4 DEF ScanStep
    <3>2. e % CountLimit = e
      BY <3>1, Fits
    <3>3. CASE e <= n
      <4>1. e \in 0..n
        BY <3>3
      <4>2. g[e] = SubSeq(w, c[e] + 1, c[n]) /\ g[d] = SubSeq(w, c[d] + 1, c[n])
        BY <1>4, <2>1, <4>1
      <4>3. g[e] = g[d]
        BY <3>1, <3>3, <4>2
      <4> QED
        BY <3>1, <3>2, <4>3
    <3>4. CASE ~(e <= n)
      <4>1. e >= n
        BY <3>4
      <4>2. g[e] = <<>>
        BY <1>5, <4>1
      <4>3. g[d] = SubSeq(w, c[n] + 1, c[n])
        BY <1>4, <2>1, <3>1, <3>4
      <4>4. g[e] = g[d]
        BY <1>3, <4>2, <4>3
      <4> QED
        BY <3>1, <3>2, <4>4
    <3> QED
      BY <3>3, <3>4
  <2>5. ASSUME E(d).count # 0 PROVE path_ids(flat, E(d)) \o g[d + 1] = g[d]
    <3>1. path_ids(flat, E(d)) = SubSeq(w, c[d] + 1, c[d + 1])
      BY <2>3, <2>5 DEF ScanStep
    <3>2. g[d + 1] = SubSeq(w, c[d + 1] + 1, c[n]) /\ g[d] = SubSeq(w, c[d] + 1, c[n])
      BY <1>4, <2>1
    <3> DEFINE a == c[d]
               b == c[d + 1]
               k == c[n]
    <3> HIDE DEF a, b, k
    <3>3. a \in Nat /\ b \in Nat /\ k \in Nat /\ a <= b /\ b <= k /\ k <= Len(w)
      BY <1>2, <2>2 DEF a, b, k
    <3>4. SubSeq(w, a + 1, b) \o SubSeq(w, b + 1, k) = SubSeq(w, a + 1, k)
      BY <3>3, Joins
    <3> QED
      BY <3>1, <3>2, <3>4 DEF a, b, k
  <2> HIDE DEF E
  <2> QED
    BY <2>4, <2>5
<1>8. ASSUME NEW d \in Nat PROVE g[d] = D(g, d)
  <2>1. CASE d >= n
    <3> HIDE DEF D, E
    <3> QED
      BY <1>1, <1>5, <2>1
  <2>2. CASE ~(d >= n)
    <3>1. d \in 0..(n - 1)
      BY <2>2
    <3>2. D(g, d) = IF E(d).count = 0 THEN g[(d - E(d).index) % CountLimit]
                    ELSE path_ids(flat, E(d)) \o g[d + 1]
      <4> HIDE DEF D, E
      <4> QED
        BY <1>1, <2>2
    <3> HIDE DEF D, E
    <3> QED
      BY <1>7, <3>1, <3>2
  <2> QED
    BY <2>1, <2>2
<1>9. f = [d \in Nat |-> D(f, d)]
  <2>1. g = [d \in Nat |-> D(g, d)]
    <3> HIDE DEF D
    <3> QED
      BY <1>6, <1>8
  <2> QED
    BY <2>1, Zenon DEF Scanning
<1>10. scan(flat, depths) = f[0]
  BY Zenon DEF scan, Scanning, Scanned
<1> HIDE DEF f, D, E
<1>11. \A d \in Nat : f[d] = IF d >= n THEN <<>>
                             ELSE IF E(d).count = 0 THEN f[(d - E(d).index) % CountLimit]
                             ELSE path_ids(flat, E(d)) \o f[d + 1]
  <2>1. \A d \in Nat : f[d] = D(f, d)
    BY <1>9
  <2> QED
    BY <1>1, <2>1
<1> DEFINE T == {k \in Nat : \A d \in Nat : d + k >= n => f[d] = g[d]}
<1>12. 0 \in T
  <2>1. \A d \in Nat : d + 0 = d
    OBVIOUS
  <2> QED
    BY <1>5, <1>11, <2>1
<1>13. ASSUME NEW k \in Nat, k \in T PROVE k + 1 \in T
  <2> SUFFICES ASSUME NEW d \in Nat, d + (k + 1) >= n PROVE f[d] = g[d]
    OBVIOUS
  <2>1. CASE d >= n
    BY <1>5, <1>11, <2>1
  <2>2. CASE ~(d >= n)
    <3>1. d \in 0..(n - 1) /\ d + 1 \in Nat /\ (d + 1) + k >= n
      BY <2>2
    <3>2. CASE E(d).count = 0
      <4>1. PICK e \in Nat : e > d /\ (d - E(d).index) % CountLimit = e /\ g[e] = g[d]
        BY <1>7, <3>1, <3>2
      <4>2. e + k >= n
        BY <3>1, <4>1
      <4>3. f[e] = g[e]
        BY <1>13, <4>2
      <4>4. f[d] = f[e]
        BY <1>11, <2>2, <3>2, <4>1
      <4> QED
        BY <4>1, <4>3, <4>4
    <3>3. CASE E(d).count # 0
      <4>1. f[d + 1] = g[d + 1]
        BY <1>13, <3>1
      <4>2. f[d] = path_ids(flat, E(d)) \o f[d + 1]
        BY <1>11, <2>2, <3>3
      <4> QED
        BY <1>7, <3>1, <3>3, <4>1, <4>2
    <3> QED
      BY <3>2, <3>3
  <2> QED
    BY <2>1, <2>2
<1>14. f[0] = g[0]
  <2>1. n \in T
    <3> HIDE DEF T
    <3> QED
      BY <1>12, <1>13, Inductive
  <2>2. 0 + n >= n
    OBVIOUS
  <2> QED
    BY <2>1, <2>2
<1> QED
  BY <1>2, <1>4, <1>10, <1>14

(* The ids of every pair can be counted. *)
Counted(pairs) == \A key \in DOMAIN pairs : Len(pairs[key]) < CountLimit

(* When all ids can be counted, an entry has count 0 for no ids, and for nothing else. *)
LEMMA LadderCount ==
  ASSUME NEW pairs, PairsOk(pairs), Counted(pairs), NEW flat, NEW names, flat = Flat(pairs, names),
         NEW r \in 1..Len(Ladders(pairs))
  PROVE  /\ Len(Ladders(pairs)[r]) < CountLimit
         /\ flat.finish[r].count = 0 <=> Ladders(pairs)[r] = <<>>
<1> DEFINE u == Ladders(pairs)[r]
<1>1. u \in IdsSet(pairs) /\ u \in Seq(Nat)
  <2> DEFINE L == Ladders(pairs)
             I == IdsSet(pairs)
  <2>1. L \in Seq(I) /\ L \in Seq(Seq(Nat))
    BY LevelsAre
  <2> HIDE DEF L, I
  <2>2. r \in 1..Len(L)
    BY DEF L
  <2>3. L[r] \in I /\ L[r] \in Seq(Nat)
    BY <2>1, <2>2
  <2> QED
    BY <2>3 DEF L, I
<1>2. Len(u) < CountLimit /\ Len(u) \in Nat
  <2>1. Len(<<>>) < CountLimit
    BY FlatAssumption
  <2> HIDE DEF u
  <2>2. Len(u) < CountLimit
    BY <1>1, <2>1 DEF IdsSet, Counted
  <2> QED
    BY <1>1, <2>2
<1>3. flat.finish[r].count = Len(u)
  <2>1. flat.finish[r].count = Len(u) % CountLimit
    BY LadderEntry
  <2> HIDE DEF u
  <2> QED
    BY <1>2, <2>1, Fits
<1>4. Len(u) = 0 <=> u = <<>>
  <2> HIDE DEF u
  <2> QED
    BY <1>1
<1> QED
  BY <1>2, <1>3, <1>4

(* The entries of a vector of depths are side by side in their level. *)
LEMMA Side ==
  ASSUME NEW pairs, PairsOk(pairs), NEW p \in 1..Len(Fans(pairs))
  PROVE  /\ Before(Fans(pairs))[p] \in Nat
         /\ Before(Fans(pairs))[p + 1] = Before(Fans(pairs))[p] + Len(Fans(pairs)[p])
         /\ Before(Fans(pairs))[p] + Len(Fans(pairs)[p]) <= Len(Ladders(pairs))
         /\ Before(Fans(pairs))[Len(Fans(pairs)) + 1] = Len(Ladders(pairs))
         /\ Len(Fans(pairs)) \in Nat /\ Len(Fans(pairs)[p]) \in Nat /\ Len(Ladders(pairs)) \in Nat
         /\ \A j \in 1..Len(Fans(pairs)[p]) :
              Ladders(pairs)[Before(Fans(pairs))[p] + j] = Fans(pairs)[p][j]
<1> DEFINE c == Fans(pairs)
           S == IdsSet(pairs)
           B == Before(c)
           L == Ladders(pairs)
<1>1. c \in Seq(Seq(S)) /\ p \in 1..Len(c)
  BY LevelsAre
<1>2. L = FlattenSeq(c)
  BY DEF Ladders
<1> HIDE DEF c, S
<1>3. /\ B \in [1..(Len(c) + 1) -> Nat] /\ \A i \in 1..Len(c) : B[i + 1] = B[i] + Len(c[i])
  BY <1>1, BeforeSums
<1>4. /\ L \in Seq(S) /\ Len(L) = B[Len(c) + 1]
      /\ \A i \in 1..Len(c) : \A j \in 1..Len(c[i]) : L[B[i] + j] = c[i][j]
  BY <1>1, <1>2, Flattened
<1>5. B[p + 1] <= B[Len(c) + 1]
  <2>1. p + 1 \in 1..(Len(c) + 1) /\ Len(c) + 1 \in 1..(Len(c) + 1) /\ p + 1 <= Len(c) + 1
    BY <1>1
  <2> QED
    BY <1>1, <2>1, BeforeGrows
<1> HIDE DEF B, L
<1>6. p \in 1..(Len(c) + 1) /\ Len(c) \in Nat /\ Len(c[p]) \in Nat
  BY <1>1
<1>7. B[p] \in Nat /\ B[p + 1] = B[p] + Len(c[p]) /\ B[p] + Len(c[p]) <= Len(L)
  BY <1>1, <1>3, <1>4, <1>5, <1>6
<1>8. Len(L) \in Nat /\ B[Len(c) + 1] = Len(L) /\ \A j \in 1..Len(c[p]) : L[B[p] + j] = c[p][j]
  BY <1>1, <1>4
<1> QED
  BY <1>6, <1>7, <1>8 DEF B, L, c

(* Two depths are below the limit. *)
LEMMA NearSum ==
  ASSUME NEW b \in Nat, NEW n \in Nat, NEW j \in Nat, NEW next \in Nat, NEW m \in Nat,
         NEW most \in Nat, 2 * m < most, n <= m + 1
  PROVE  /\ j <= m /\ next <= b + n + j => next - b - 1 < most
         /\ next <= b + n + 1 /\ n < most => next - b - 1 < most
OBVIOUS

(* The entry of the next vector would be passed over. *)
LEMMA NearBetween ==
  ASSUME NEW b \in Nat, NEW n \in Nat, NEW j \in Nat, j >= 1, NEW next \in Nat, NEW d \in Nat, d < n,
         NEW q, q = b + n + j, ~(next <= q)
  PROVE  q \in (b + d + 1 + 1)..(next - 1)
OBVIOUS

(* An empty entry leads no further than two searches are deep: the next vector
   with entries has one with ids among its first MaxDepth. *)
LEMMA NextIsNear ==
  ASSUME NEW pairs, PairsOk(pairs), Counted(pairs), NEW flat, NEW names, flat = Flat(pairs, names),
         NEW p \in 1..Len(Fans(pairs)), NEW d \in 0..(Len(Fans(pairs)[p]) - 1),
         NEW b, b = Before(Fans(pairs))[p], NEW next, Onward(flat.finish, b + d + 1, next)
  PROVE  next - b - 1 < CountLimit
<1> DEFINE c == Fans(pairs)
           n == Len(c[p])
           L == Ladders(pairs)
           bl == flat.finish
           B == Before(c)
           Later == {k \in (p + 1)..Len(c) : c[k] # <<>>}
<1>1. /\ b \in Nat /\ B[p + 1] = b + n /\ b + n <= Len(L) /\ B[Len(c) + 1] = Len(L)
      /\ n \in Nat /\ Len(L) \in Nat /\ Len(c) \in Nat
  BY Side
<1>2. /\ c \in Seq(DepthSet(pairs)) /\ c \in Seq(Seq(IdsSet(pairs))) /\ Small(c)
      /\ Len(bl) = Len(L)
  BY LevelsAre, FlatIs
<1>3. n < CountLimit
  BY <1>2 DEF Small
<1>4. n <= MaxDepth + 1
  <2>1. c[p] \in DepthSet(pairs)
    BY <1>2
  <2> QED
    BY <2>1 DEF DepthSet
<1>5. MaxDepth \in Nat /\ 2 * MaxDepth < CountLimit /\ CountLimit \in Nat
  BY TilePathsAssumption, FlatAssumption
<1>6. /\ next \in (b + d + 1 + 1)..(Len(L) + 1)
      /\ \A j \in (b + d + 1 + 1)..(next - 1) : bl[j].count = 0
  BY <1>2 DEF Onward
<1>7. d \in Nat /\ d < n /\ next \in Nat /\ p \in 1..Len(c) /\ p \in Nat /\ next <= Len(L) + 1
  <2> DEFINE m == Len(L)
             k == Len(c)
  <2>1. d \in 0..(n - 1) /\ next \in (b + d + 1 + 1)..(m + 1) /\ p \in 1..k
    BY <1>6
  <2>2. n \in Nat /\ m \in Nat /\ k \in Nat /\ b \in Nat
    BY <1>1
  <2> HIDE DEF n, m, k
  <2>3. d \in Nat /\ d < n /\ next \in Nat /\ p \in 1..k /\ p \in Nat /\ next <= m + 1
    BY <2>1, <2>2
  <2> QED
    BY <2>3 DEF m, k
<1>8. \A k \in (p + 1)..Len(c) : k \in 1..Len(c)
  BY <1>7
<1>9. CASE Later = {}
  <2>1. B[p + 1] = B[Len(c) + 1]
    <3> DEFINE i == p + 1
               m == Len(c) + 1
               S == IdsSet(pairs)
    <3>1. i \in 1..(Len(c) + 1) /\ m \in 1..(Len(c) + 1) /\ i <= m /\ m - 1 = Len(c)
      BY <1>1, <1>7
    <3>2. \A k \in i..(m - 1) : c[k] = <<>>
      BY <1>9, <3>1
    <3> HIDE DEF i, m, c, S
    <3>3. Before(c)[i] = Before(c)[m]
      <4>1. c \in Seq(Seq(S))
        BY <1>2 DEF c, S
      <4> QED
        BY <3>1, <3>2, <4>1, EmptyRun
    <3> QED
      BY <3>3 DEF i, m, c
  <2>2. Len(L) = b + n
    BY <1>1, <2>1
  <2> DEFINE m == Len(L)
  <2>3. b \in Nat /\ n \in Nat /\ m = b + n /\ next \in Nat /\ next <= m + 1 /\ n < CountLimit
    BY <1>1, <1>3, <1>7, <2>2
  <2> HIDE DEF n, m
  <2> QED
    BY <1>4, <1>5, <2>3, NearSum
<1>10. CASE Later # {}
  <2>1. PICK k \in Later : \A i \in Later : k <= i
    <3>1. Later \subseteq Nat
      BY <1>8
    <3> HIDE DEF Later
    <3> QED
      BY <1>10, <3>1, LeastNat
  <2>2. k \in 1..Len(c) /\ k >= p + 1 /\ c[k] # <<>>
    BY <1>8, <2>1
  <2>3. B[p + 1] = B[k]
    <3> DEFINE i == p + 1
               S == IdsSet(pairs)
    <3>1. i \in 1..(Len(c) + 1) /\ k \in 1..(Len(c) + 1) /\ i <= k
      BY <1>1, <1>7, <2>2
    <3>2. \A x \in i..(k - 1) : c[x] = <<>>
      <4> TAKE x \in i..(k - 1)
      <4>1. x \in (p + 1)..Len(c) /\ ~(k <= x)
        BY <1>1, <1>7, <2>2
      <4> QED
        BY <2>1, <4>1
    <3> HIDE DEF i, c, S
    <3>3. Before(c)[i] = Before(c)[k]
      <4>1. c \in Seq(Seq(S))
        BY <1>2 DEF c, S
      <4> QED
        BY <3>1, <3>2, <4>1, EmptyRun
    <3> QED
      BY <3>3 DEF i, c
  <2>4. PICK j \in 1..MaxDepth : j <= Len(c[k]) /\ c[k][j] # <<>>
    <3>1. c[k] \in DepthSet(pairs)
      BY <1>2, <2>2
    <3> QED
      BY <2>2, <3>1 DEF DepthSet
  <2> DEFINE q == b + n + j
  <2>5. q = B[k] + j /\ q \in 1..Len(L) /\ L[q] = c[k][j] /\ j \in Nat
    <3>1. k \in 1..Len(Fans(pairs))
      BY <2>2
    <3>2. /\ B[k] \in Nat /\ B[k] + Len(c[k]) <= Len(L) /\ Len(c[k]) \in Nat
          /\ \A i \in 1..Len(c[k]) : L[B[k] + i] = c[k][i]
      BY <3>1, Side
    <3>3. j \in 1..Len(c[k]) /\ j \in Nat
      BY <2>4, <3>2
    <3>4. q = B[k] + j
      BY <1>1, <2>3
    <3>5. q \in 1..Len(L)
      <4> DEFINE x == B[k]
                 y == Len(c[k])
                 z == Len(L)
      <4>1. x \in Nat /\ x + y <= z /\ y \in Nat /\ z \in Nat /\ j \in 1..y /\ q = x + j
        BY <1>1, <3>2, <3>3, <3>4
      <4> HIDE DEF x, y, z, q
      <4>2. q \in 1..z
        BY <4>1
      <4> QED
        BY <4>2 DEF z
    <3> HIDE DEF q
    <3> QED
      BY <3>2, <3>3, <3>4, <3>5
  <2>6. bl[q].count # 0
    BY <2>4, <2>5, LadderCount
  <2>7. next <= q
    <3> SUFFICES ASSUME ~(next <= q) PROVE FALSE
      OBVIOUS
    <3>1. q \in (b + d + 1 + 1)..(next - 1)
      <4>1. d \in Nat /\ d < n /\ next \in Nat /\ b \in Nat /\ n \in Nat /\ j \in Nat /\ j >= 1
            /\ q = b + n + j /\ ~(next <= q)
        BY <1>1, <1>7, <2>4, <2>5
      <4> HIDE DEF n, q
      <4> QED
        BY <4>1, NearBetween
    <3> QED
      BY <1>6, <2>6, <3>1
  <2>8. /\ q = b + n + j /\ b \in Nat /\ n \in Nat /\ j \in Nat /\ j <= MaxDepth /\ next <= q
        /\ next \in Nat /\ n <= MaxDepth + 1
    BY <1>1, <1>4, <1>5, <1>7, <2>4, <2>5, <2>7
  <2> HIDE DEF n, q
  <2> QED
    BY <1>5, <2>8, NearSum
<1> QED
  BY <1>9, <1>10

(* Where the ids of the depths of a vector are cut. *)
Cuts(pairs, p) ==
  [d \in 0..Len(Fans(pairs)[p]) |-> Before(Ladders(pairs))[Before(Fans(pairs))[p] + d + 1]]

(* A run of vectors of numbers is concatenated where they are in the concatenation of all. *)
LEMMA SliceWhole ==
  ASSUME NEW L \in Seq(Seq(Nat)), NEW v \in Seq(Seq(Nat)), NEW b \in Nat,
         b + Len(v) <= Len(L), \A i \in 1..Len(v) : v[i] = L[b + i]
  PROVE  FlattenSeq(v) = SubSeq(FlattenSeq(L), Before(L)[b + 1] + 1, Before(L)[b + Len(v) + 1])
<1> DEFINE S == Nat
<1>1. L \in Seq(Seq(S)) /\ v \in Seq(Seq(S))
  OBVIOUS
<1> HIDE DEF S
<1> QED
  BY ONLY <1>1, b \in Nat, b + Len(v) <= Len(L), \A i \in 1..Len(v) : v[i] = L[b + i], Slice

(* The cuts are in order, and what is between the first and the last is the vector. *)
LEMMA CutsAre ==
  ASSUME NEW pairs, PairsOk(pairs), NEW p \in 1..Len(Fans(pairs)),
         NEW n, n = Len(Fans(pairs)[p]), NEW c, c = Cuts(pairs, p),
         NEW w, w = FlattenSeq(Ladders(pairs))
  PROVE  /\ c \in [0..n -> Nat] /\ n \in Nat /\ \A i, j \in 0..n : i <= j => c[i] <= c[j]
         /\ w \in Seq(Nat) /\ c[n] <= Len(w)
         /\ FlattenSeq(Fans(pairs)[p]) = SubSeq(w, c[0] + 1, c[n])
<1> DEFINE L == Ladders(pairs)
           v == Fans(pairs)[p]
           b == Before(Fans(pairs))[p]
           B == Before(L)
<1>1. /\ b \in Nat /\ n \in Nat /\ b + n <= Len(L) /\ Len(L) \in Nat
      /\ \A j \in 1..n : L[b + j] = v[j]
  BY Side
<1>2. L \in Seq(Seq(Nat))
  BY LevelsAre
<1>3. v \in Seq(Seq(Nat)) /\ Len(v) = n
  <2> DEFINE f == Fans(pairs)
             I == IdsSet(pairs)
  <2>1. f \in Seq(Seq(I)) /\ I \subseteq Seq(Nat) /\ p \in 1..Len(f)
    BY LevelsAre, IdsAre
  <2> HIDE DEF f, I
  <2>2. f[p] \in Seq(I)
    BY <2>1
  <2>3. f[p] \in Seq(Seq(Nat))
    BY <2>1, <2>2, Widened
  <2> QED
    BY <2>3 DEF f
<1>4. c = [d \in 0..n |-> B[b + d + 1]]
  BY DEF Cuts
<1>5. w = FlattenSeq(L)
  OBVIOUS
<1> HIDE DEF L, v, b
<1>6. B \in [1..(Len(L) + 1) -> Nat]
  BY <1>2, BeforeSums
<1>7. \A i \in 1..(Len(L) + 1) : \A k \in 1..(Len(L) + 1) : i <= k => B[i] <= B[k]
  BY <1>2, BeforeGrows
<1>8. w \in Seq(Nat) /\ Len(w) = B[Len(L) + 1]
  BY <1>2, <1>5, Flattened
<1> HIDE DEF B
<1>9. ASSUME NEW d \in 0..n
      PROVE  c[d] = B[b + d + 1] /\ b + d + 1 \in 1..(Len(L) + 1) /\ b + d + 1 <= Len(L) + 1
             /\ Len(L) + 1 \in 1..(Len(L) + 1)
  <2>1. c[d] = B[b + d + 1]
    BY <1>4
  <2> DEFINE m == Len(L)
  <2>2. m \in Nat /\ b + n <= m
    BY <1>1
  <2> HIDE DEF m
  <2>3. b + d + 1 \in 1..(m + 1) /\ b + d + 1 <= m + 1 /\ m + 1 \in 1..(m + 1)
    BY <1>1, <2>2
  <2> QED
    BY <2>1, <2>3 DEF m
<1>10. \A d \in 0..n : c[d] \in Nat
  BY <1>6, <1>9
<1>11. c \in [0..n -> Nat]
  <2>1. c = [d \in 0..n |-> c[d]]
    BY <1>4
  <2> QED
    BY <1>10, <2>1
<1>12. ASSUME NEW i \in 0..n, NEW j \in 0..n, i <= j PROVE c[i] <= c[j]
  <2>1. b + i + 1 <= b + j + 1
    BY <1>1, <1>12
  <2> QED
    BY <1>7, <1>9, <2>1
<1>13. n \in 0..n /\ 0 \in 0..n
  BY <1>1
<1>14. c[n] <= Len(w)
  BY <1>7, <1>8, <1>9, <1>13
<1>15. FlattenSeq(v) = SubSeq(w, c[0] + 1, c[n])
  <2>1. b + Len(v) <= Len(L) /\ \A i \in 1..Len(v) : v[i] = L[b + i]
    BY <1>1, <1>3
  <2>2. FlattenSeq(v) = SubSeq(FlattenSeq(L), Before(L)[b + 1] + 1, Before(L)[b + Len(v) + 1])
    <3>1. L \in Seq(Seq(Nat)) /\ v \in Seq(Seq(Nat)) /\ b \in Nat
      BY <1>1, <1>2, <1>3
    <3> QED
      BY ONLY <2>1, <3>1, SliceWhole
  <2>3. c[0] = Before(L)[b + 1] /\ c[n] = Before(L)[b + Len(v) + 1]
    <3>1. b + 0 + 1 = b + 1 /\ b + n + 1 = b + Len(v) + 1
      BY <1>1, <1>3
    <3> QED
      BY <1>9, <1>13, <3>1 DEF B
  <2> QED
    BY <1>5, <2>2, <2>3
<1> QED
  BY <1>1, <1>8, <1>11, <1>12, <1>14, <1>15 DEF v

(* At every depth of a vector the scan finds the ids of this depth, or goes on to
   a depth with nothing before it. *)
LEMMA ScanSteps ==
  ASSUME NEW pairs, PairsOk(pairs), Counted(pairs), NEW flat, NEW names, flat = Flat(pairs, names),
         NEW p \in 1..Len(Fans(pairs)), NEW n, n = Len(Fans(pairs)[p]),
         NEW d \in 0..(n - 1)
  PROVE  ScanStep(flat, flat.start[p], flat.depth, Cuts(pairs, p), n, d)
<1>0. PICK entry : ReadAt(pairs, flat, p, d, entry)
  <2>1. d \in DepthsOf(pairs, p)
    BY DEF DepthsOf
  <2> QED
    BY <2>1, DepthEntry
<1> DEFINE L == Ladders(pairs)
           v == Fans(pairs)[p]
           b == Before(Fans(pairs))[p]
           B == Before(L)
           r == b + d + 1
           c == Cuts(pairs, p)
           ids == flat.finish[r]
<1>1. /\ b \in Nat /\ n \in Nat /\ b + n <= Len(L) /\ Len(L) \in Nat
      /\ \A j \in 1..n : L[b + j] = v[j]
  BY Side
<1>2. r \in 1..Len(L) /\ L[r] = v[d + 1] /\ subscript4(flat, flat.start[p], d) = ids
  BY <1>0 DEF ReadAt
<1>3. L \in Seq(Seq(Nat))
  BY LevelsAre
<1>4. d \in Nat /\ d < n /\ d + 1 \in 0..n /\ d \in 0..n /\ r + 1 = b + (d + 1) + 1
  <2> HIDE DEF b
  <2> QED
    BY <1>1
<1>5. \A i \in 0..n : c[i] = B[b + i + 1]
  BY DEF Cuts
<1>6. CASE ids.count # 0
  <2>1. L[r] # <<>> /\ Len(L[r]) < CountLimit
    BY <1>2, <1>6, LadderCount
  <2>2. path_ids(flat, ids) = L[r]
    BY <1>2, <2>1, IdsRead
  <2>3. flat.depth = FlattenSeq(L)
    BY FlatIs
  <2>4. SubSeq(FlattenSeq(L), B[r] + 1, B[r] + Len(L[r])) = L[r]
    <3> HIDE DEF L, r
    <3> QED
      BY <1>2, <1>3, Part
  <2>5. B[r + 1] = B[r] + Len(L[r])
    <3> HIDE DEF L, r
    <3> QED
      BY <1>2, <1>3, BeforeSums
  <2>6. c[d] = B[r] /\ c[d + 1] = B[r + 1]
    <3> HIDE DEF c, B, b
    <3> QED
      BY <1>4, <1>5
  <2>7. path_ids(flat, ids) = SubSeq(flat.depth, c[d] + 1, c[d + 1])
    BY <2>2, <2>3, <2>4, <2>5, <2>6
  <2> HIDE DEF c, ids
  <2>8. ScanStep(flat, flat.start[p], flat.depth, c, n, d)
    BY <1>2, <1>6, <2>7 DEF ScanStep
  <2> QED
    BY <2>8 DEF c
<1>7. CASE ids.count = 0
  <2>1. PICK next : Onward(flat.finish, r, next) /\ ids.index = r - next
    <3>1. r \in 1..Len(Ladders(pairs)) /\ flat.finish[r].count = 0
      BY <1>2, <1>7
    <3> HIDE DEF r
    <3>2. \E next : Onward(flat.finish, r, next) /\ flat.finish[r].index = r - next
      BY <3>1, LadderEntry
    <3> QED
      BY <3>2
  <2> DEFINE e == next - b - 1
  <2>2. e < CountLimit
    BY <2>1, NextIsNear
  <2>3. /\ next \in (r + 1)..(Len(L) + 1) /\ \A j \in (r + 1)..(next - 1) : flat.finish[j].count = 0
    <3>1. Len(flat.finish) = Len(L)
      BY FlatIs
    <3> HIDE DEF r
    <3> QED
      BY <2>1, <3>1 DEF Onward
  <2>4. next \in Nat /\ next >= r + 1 /\ next <= Len(L) + 1 /\ r \in Nat
    <3> DEFINE m == Len(L)
    <3> HIDE DEF m, b
    <3>1. m \in Nat /\ b \in Nat /\ d \in Nat /\ next \in (r + 1)..(m + 1)
      BY <1>1, <1>4, <2>3 DEF m
    <3>2. next \in Nat /\ next >= r + 1 /\ next <= m + 1 /\ r \in Nat
      BY <3>1
    <3> QED
      BY <3>2 DEF m
  <2>5. e \in Nat /\ e > d /\ d - ids.index = e
    <3> DEFINE x == ids.index
    <3>1. x = r - next
      BY <2>1
    <3> HIDE DEF x, b
    <3>2. b \in Nat /\ next \in Nat /\ next >= b + d + 1 + 1 /\ d \in Nat /\ x = b + d + 1 - next
      BY <1>1, <1>4, <2>4, <3>1
    <3>3. e \in Nat /\ e > d /\ d - x = e
      BY <3>2
    <3> QED
      BY <3>3 DEF x
  <2>6. ASSUME NEW k \in 0..n, k >= d, k <= e PROVE c[k] = c[d]
    <3> DEFINE i == b + k + 1
    <3>1. i \in 1..(Len(L) + 1) /\ r \in 1..(Len(L) + 1) /\ r <= i /\ i <= next
      <4> DEFINE m == Len(L)
      <4> HIDE DEF m, b
      <4>3. m \in Nat /\ b \in Nat /\ b + n <= m /\ n \in Nat
        BY <1>1 DEF m
      <4>4. d \in Nat /\ d < n
        BY <1>4
      <4>5. next \in Nat
        BY <2>4
      <4>6. k \in Nat /\ k <= n /\ k >= d /\ k <= next - b - 1
        BY <2>6, <4>3
      <4>1. m \in Nat /\ b \in Nat /\ b + n <= m /\ d \in Nat /\ k \in Nat /\ k <= n /\ n \in Nat
            /\ next \in Nat /\ d < n /\ k >= d /\ k <= next - b - 1
        BY <4>3, <4>4, <4>5, <4>6
      <4>2. i \in 1..(m + 1) /\ r \in 1..(m + 1) /\ r <= i /\ i <= next
        BY <4>1
      <4> QED
        BY <4>2 DEF m
    <3>2. \A j \in r..(i - 1) : L[j] = <<>>
      <4> TAKE j \in r..(i - 1)
      <4>1. j \in 1..Len(L) /\ (j = r \/ j \in (r + 1)..(next - 1))
        <5> DEFINE m == Len(L)
        <5>1. r \in Nat /\ r >= 1 /\ i \in Nat /\ i <= m + 1 /\ i <= next /\ m \in Nat /\ next \in Nat
          BY <1>1, <2>4, <3>1
        <5> HIDE DEF m, r, i
        <5>2. j \in 1..m /\ (j = r \/ j \in (r + 1)..(next - 1))
          BY <5>1
        <5> QED
          BY <5>2 DEF m
      <4>2. flat.finish[j].count = 0
        BY <1>7, <2>3, <4>1
      <4> QED
        BY <4>1, <4>2, LadderCount
    <3>3. B[r] = B[i]
      <4> HIDE DEF L, r, i
      <4> QED
        BY <1>3, <3>1, <3>2, EmptyRun
    <3>4. c[d] = B[r] /\ c[k] = B[i]
      <4> HIDE DEF c, B, b
      <4> QED
        BY <1>4, <1>5
    <3> QED
      BY <3>3, <3>4
  <2>7. IF e <= n THEN c[e] = c[d] ELSE c[n] = c[d]
    <3> HIDE DEF c, e
    <3>1. CASE e <= n
      <4>1. e \in 0..n /\ e >= d /\ e <= e
        BY <1>1, <1>4, <2>5, <3>1
      <4> QED
        BY <2>6, <3>1, <4>1
    <3>2. CASE ~(e <= n)
      <4>1. n \in 0..n /\ n >= d /\ n <= e
        BY <1>1, <1>4, <2>5, <3>2
      <4> QED
        BY <2>6, <3>2, <4>1
    <3> QED
      BY <3>1, <3>2
  <2> HIDE DEF c, ids, e
  <2>8. ScanStep(flat, flat.start[p], flat.depth, c, n, d)
    BY <1>2, <1>7, <2>2, <2>5, <2>7 DEF ScanStep
  <2> QED
    BY <2>8 DEF c
<1> QED
  BY <1>6, <1>7

(* The scan from a vector of depths gives its ids, depth after depth. *)
LEMMA LadderScan ==
  ASSUME NEW pairs, PairsOk(pairs), Counted(pairs), NEW flat, NEW names, flat = Flat(pairs, names),
         NEW p \in 1..Len(Fans(pairs))
  PROVE  scan(flat, flat.start[p]) = FlattenSeq(Fans(pairs)[p])
<1> DEFINE n == Len(Fans(pairs)[p])
           c == Cuts(pairs, p)
           w == flat.depth
           depths == flat.start[p]
<1>1. w = FlattenSeq(Ladders(pairs))
  BY FlatIs
<1>2. /\ c \in [0..n -> Nat] /\ n \in Nat /\ \A i, j \in 0..n : i <= j => c[i] <= c[j]
      /\ w \in Seq(Nat) /\ c[n] <= Len(w)
      /\ FlattenSeq(Fans(pairs)[p]) = SubSeq(w, c[0] + 1, c[n])
  BY <1>1, CutsAre
<1>3. depths.count = n
  BY CountOfDepths
<1>4. \A d \in 0..(n - 1) : ScanStep(flat, depths, w, c, n, d)
  BY ScanSteps
<1> HIDE DEF n, c, w, depths
<1>5. scan(flat, depths) = SubSeq(w, c[0] + 1, c[n])
  <2> DEFINE S == Nat
  <2>1. w \in Seq(S) /\ c \in [0..n -> Nat] /\ n \in Nat /\ c[n] <= Len(w)
    BY <1>2
  <2>2. \A i, j \in 0..n : i <= j => c[i] <= c[j]
    BY <1>2
  <2> HIDE DEF S
  <2> QED
    BY <1>3, <1>4, <2>1, <2>2, ScanReads
<1> QED
  BY <1>2, <1>5 DEF depths

(* The ids of two ends, from the shortest paths to the longest. *)
IdsOf(pairs, tt, start, finish) ==
  [d \in 1..MaxDepth |->
    LET key == <<tt, start, finish, d - 1>>
    IN IF key \in DOMAIN pairs THEN pairs[key] ELSE <<>>]

(* The vector of depths of two ends holds their ids, and what else it has is empty. *)
LEMMA DepthsConcatenate ==
  ASSUME NEW pairs, PairsOk(pairs), NEW tt, NEW start, NEW finish,
         NEW v, v = DepthVector(pairs, tt, start, finish),
         NEW s, s = IdsOf(pairs, tt, start, finish)
  PROVE  FlattenSeq(v) = FlattenSeq(s) /\ s \in Seq(Seq(Nat))
<1> DEFINE ds == Depths(pairs, tt, start, finish)
           P(d) == pairs[<<tt, start, finish, d>>]
<1>1. /\ v \in DepthSet(pairs)
      /\ \A i \in 1..Len(v) : v[i] = IF i - 1 \in ds THEN P(i - 1) ELSE <<>>
      /\ \A d \in ds : d + 1 <= Len(v)
  BY DepthVectorIs
<1>2. /\ ds \subseteq 0..(MaxDepth - 1) /\ \A d : d \in ds <=> <<tt, start, finish, d>> \in DOMAIN pairs
  BY KeysOfPairs
<1>3. \A d \in ds : P(d) \in Seq(Nat)
  BY <1>2, IdsAre
<1>4. v \in Seq(Seq(Nat)) /\ Len(v) <= MaxDepth + 1 /\ Len(v) \in Nat
  <2> DEFINE I == IdsSet(pairs)
  <2>1. v \in Seq(I) /\ Len(v) <= MaxDepth + 1 /\ I \subseteq Seq(Nat)
    BY <1>1, IdsAre DEF DepthSet
  <2> HIDE DEF I
  <2> QED
    BY <2>1, Widened
<1>5. s = [i \in 1..MaxDepth |-> IF i - 1 \in ds THEN P(i - 1) ELSE <<>>]
  <2>1. \A i \in 1..MaxDepth : i - 1 \in ds <=> <<tt, start, finish, i - 1>> \in DOMAIN pairs
    BY <1>2
  <2> HIDE DEF ds
  <2> QED
    BY <2>1 DEF IdsOf
<1>6. MaxDepth \in Nat
  BY TilePathsAssumption
<1> HIDE DEF ds, P
<1>7. \A i \in 1..MaxDepth : s[i] = IF i - 1 \in ds THEN P(i - 1) ELSE <<>>
  BY <1>5
<1>8. s \in Seq(Seq(Nat)) /\ Len(s) = MaxDepth
  <2> DEFINE X == Seq(Nat)
  <2>1. <<>> \in X
    OBVIOUS
  <2>2. \A i \in 1..MaxDepth : s[i] \in X
    BY <1>3, <1>7, <2>1
  <2>3. s = [i \in 1..MaxDepth |-> s[i]]
    BY <1>5
  <2> HIDE DEF X
  <2>4. s \in Seq(X) /\ Len(s) = MaxDepth
    BY <1>6, <2>2, <2>3, Listed
  <2> QED
    BY <2>4 DEF X
<1>9. CASE Len(v) <= MaxDepth
  <2>1. \A i \in 1..Len(v) : v[i] = s[i]
    BY <1>1, <1>4, <1>6, <1>7, <1>9
  <2>2. \A i \in (Len(v) + 1)..Len(s) : s[i] = <<>>
    <3> TAKE i \in (Len(v) + 1)..Len(s)
    <3>1. i \in 1..MaxDepth /\ (i - 1) + 1 = i /\ ~(i <= Len(v))
      BY <1>4, <1>6, <1>8
    <3>2. i - 1 \notin ds
      BY <1>1, <3>1
    <3> QED
      BY <1>7, <3>1, <3>2
  <2>3. Len(v) <= Len(s)
    BY <1>8, <1>9
  <2> DEFINE S == Nat
  <2>4. v \in Seq(Seq(S)) /\ s \in Seq(Seq(S))
    BY <1>4, <1>8
  <2> HIDE DEF S
  <2>5. FlattenSeq(v) = FlattenSeq(s)
    BY <2>1, <2>2, <2>3, <2>4, Padded
  <2> QED
    BY <1>8, <2>5
<1>10. CASE ~(Len(v) <= MaxDepth)
  <2>1. \A i \in 1..Len(s) : s[i] = v[i]
    <3> TAKE i \in 1..Len(s)
    <3>1. i \in 1..MaxDepth /\ i \in 1..Len(v)
      BY <1>4, <1>6, <1>8, <1>10
    <3> QED
      BY <1>1, <1>7, <3>1
  <2>2. \A i \in (Len(s) + 1)..Len(v) : v[i] = <<>>
    <3> TAKE i \in (Len(s) + 1)..Len(v)
    <3>1. i \in 1..Len(v) /\ i - 1 >= MaxDepth /\ i \in Nat
      BY <1>4, <1>6, <1>8
    <3>2. i - 1 \notin ds
      BY <1>2, <1>6, <3>1
    <3> QED
      BY <1>1, <3>1, <3>2
  <2>3. Len(s) <= Len(v)
    BY <1>4, <1>6, <1>8, <1>10
  <2> DEFINE S == Nat
  <2>4. v \in Seq(Seq(S)) /\ s \in Seq(Seq(S))
    BY <1>4, <1>8
  <2> HIDE DEF S
  <2>5. FlattenSeq(s) = FlattenSeq(v)
    BY <2>1, <2>2, <2>3, <2>4, Padded
  <2> QED
    BY <1>8, <2>5
<1> QED
  BY <1>9, <1>10

(* The scan of two ends gives their ids. *)
LEMMA ScanGivesIds ==
  ASSUME NEW pairs, PairsOk(pairs), Counted(pairs), NEW flat, NEW names, flat = Flat(pairs, names),
         NEW tt \in 0..(TileTypeCount - 1),
         NEW start \in 0..(subscript1(flat, tt).count - 1),
         NEW finish \in 0..(subscript2(flat, tt, start).count - 1)
  PROVE  scan(flat, subscript3(flat, subscript2(flat, tt, start), finish))
           = FlattenSeq(IdsOf(pairs, tt, start, finish))
<1>1. start \in 0..(Len(StartVector(pairs, tt)) - 1)
  <2> DEFINE i == tt + 1
  <2>1. i = tt + 1
    OBVIOUS
  <2> HIDE DEF i
  <2> QED
    BY <2>1, TileSubscript
<1>2. finish \in 0..(Len(FinishVector(pairs, tt, start)) - 1)
  BY <1>1, StartSubscript
<1>3. PICK p \in 1..Len(Fans(pairs)) :
        /\ Fans(pairs)[p] = DepthVector(pairs, tt, start, finish)
        /\ subscript3(flat, subscript2(flat, tt, start), finish) = flat.start[p]
  BY <1>1, <1>2, FinishSubscript
<1>4. scan(flat, flat.start[p]) = FlattenSeq(Fans(pairs)[p])
  BY LadderScan
<1>5. FlattenSeq(DepthVector(pairs, tt, start, finish)) = FlattenSeq(IdsOf(pairs, tt, start, finish))
  BY DepthsConcatenate
<1> QED
  BY <1>3, <1>4, <1>5

(* A path without wires is read as such. *)
LEMMA NothingCut ==
  ASSUME NEW s
  PROVE  SubSeq(s, -1 + 1, -1 + 0) = <<>>
<1>1. SubSeq(s, -1 + 1, -1 + 0) = [i \in 1..((1 + (-1 + 0)) - (-1 + 1)) |-> s[(i + (-1 + 1)) - 1]]
  BY DEF SubSeq
<1>2. (1 + (-1 + 0)) - (-1 + 1) = 0
  OBVIOUS
<1>3. SubSeq(s, -1 + 1, -1 + 0) = [i \in 1..0 |-> s[(i + (-1 + 1)) - 1]]
  BY <1>1, <1>2
<1> QED
  BY <1>3

(* The wires of a path that its count can count are read as they were laid out. *)
LEMMA WiresRead ==
  ASSUME NEW pairs, NEW names \in Seq(Seq(Nat)), NEW flat, flat = Flat(pairs, names),
         NEW id \in 1..Len(names), Len(names[id]) < CountLimit
  PROVE  path_wires(flat, id) = names[id]
<1> DEFINE S == Nat
           n == Len(names[id])
           span == Spans(names)[id]
<1>1. names \in Seq(Seq(S)) /\ n \in Nat
  OBVIOUS
<1>2. flat.path = Spans(names) /\ flat.wires = FlattenSeq(names)
  BY DEF Flat
<1> HIDE DEF S
<1>3. span.count = n % CountLimit /\ span.index = IF names[id] = <<>> THEN -1 ELSE Before(names)[id]
  BY <1>1, SpansAre
<1>4. SubSeq(FlattenSeq(names), Before(names)[id] + 1, Before(names)[id] + n) = names[id]
  BY <1>1, Part
<1>5. span.count = n
  <2>1. n < CountLimit
    OBVIOUS
  <2> HIDE DEF n, span
  <2> QED
    BY <1>1, <1>3, <2>1, Fits DEF n
<1>6. path_wires(flat, id) = SubSeq(FlattenSeq(names), span.index + 1, span.index + span.count)
  BY <1>2 DEF path_wires
<1>7. CASE names[id] = <<>>
  <2>1. n = 0
    BY <1>7
  <2>2. path_wires(flat, id) = SubSeq(FlattenSeq(names), -1 + 1, -1 + 0)
    <3> HIDE DEF span, n
    <3> QED
      BY <1>3, <1>5, <1>6, <1>7, <2>1
  <2> QED
    BY <1>7, <2>2, NothingCut
<1>8. CASE names[id] # <<>>
  <2> HIDE DEF span, n
  <2> QED
    BY <1>3, <1>4, <1>5, <1>6, <1>8
<1> QED
  BY <1>7, <1>8

(* What the searches store can be laid out. *)
LEMMA StoredFits ==
  ASSUME SearchInv
  PROVE  /\ PairsOk(wire_pairs) /\ paths \in Seq(Seq(Nat))
         /\ \A key \in DOMAIN wire_pairs : wire_pairs[key] \in Seq(1..Len(paths))
              /\ \A i \in 1..Len(wire_pairs[key]) :
                   wire_pairs[key][i] \in 1..Len(paths) /\ Len(paths[wire_pairs[key][i]]) < CountLimit
<1>1. Counters /\ Kept(Current) /\ Contents
  BY DEF SearchInv
<1>2. Current.paths = paths /\ Current.wire_pairs = wire_pairs
  BY DEF Current
<1>3. /\ paths \in Seq(Seq(Nat))
      /\ \A key \in DOMAIN wire_pairs :
           /\ key \in Keys /\ wire_pairs[key] \in Seq(1..Len(paths)) /\ wire_pairs[key] # <<>>
           /\ \A i \in 1..Len(wire_pairs[key]) : Len(paths[wire_pairs[key][i]]) = key[4]
  BY <1>1, <1>2 DEF Kept
<1>4. tileTypes \in TileTypeLists
  BY <1>1 DEF Counters
<1>5. MaxDepth \in Nat /\ 2 * MaxDepth < CountLimit /\ CountLimit \in Nat /\ TileTypeCount \in Nat
  BY FlatAssumption, TilePathsAssumption
<1>6. ASSUME NEW key \in DOMAIN wire_pairs
      PROVE  /\ key[1] < TileTypeCount /\ key[2] < CountLimit - 1 /\ key[3] < CountLimit - 1
             /\ key[4] < MaxDepth /\ wire_pairs[key] \in Seq(Nat)
             /\ \A i \in 1..Len(wire_pairs[key]) :
                  wire_pairs[key][i] \in 1..Len(paths) /\ Len(paths[wire_pairs[key][i]]) < CountLimit
  <2> DEFINE ids == wire_pairs[key]
  <2>1. ids \in Seq(1..Len(paths)) /\ ids # <<>> /\ \A i \in 1..Len(ids) : Len(paths[ids[i]]) = key[4]
    BY <1>3
  <2>2. key \in DOMAIN Current.wire_pairs /\ ids = Current.wire_pairs[key]
    BY <1>2
  <2> HIDE DEF ids
  <2>3. 1 \in 1..Len(ids)
    BY <2>1
  <2>4. Has(Current, key, Current.paths[ids[1]])
    BY <2>2, <2>3 DEF Has
  <2>5. PICK tt, start, n : Entry(tt, start, n, key, Current.paths[ids[1]])
    BY <1>1, <2>4 DEF Contents
  <2>6. /\ key[1] = tt - 1 /\ key[2] = start /\ key[4] = n - 2
        /\ tt \in 1..Len(tileTypes) /\ start \in Wires(tileTypes[tt])
        /\ key[3] \in Wires(tileTypes[tt]) /\ n \in Nat /\ n >= 2 /\ n - 2 < MaxDepth
    BY <1>4, <2>5, EntryKey
  <2>7. /\ Len(tileTypes) \in Nat /\ Len(tileTypes) <= TileTypeCount
        /\ tileTypes[tt].wires \in Nat /\ tileTypes[tt].wires < CountLimit
    BY <1>4, <2>6, TypesAreOk
  <2> DEFINE m == tileTypes[tt].wires
             k == Len(tileTypes)
  <2>8. start \in 0..(m - 1) /\ key[3] \in 0..(m - 1) /\ m \in Nat /\ m < CountLimit
        /\ k \in Nat /\ k <= TileTypeCount /\ tt \in 1..k
    BY <2>6, <2>7 DEF Wires
  <2> HIDE DEF m, k
  <2>9. start < CountLimit - 1 /\ key[3] < CountLimit - 1 /\ tt - 1 < TileTypeCount
    BY <1>5, <2>8
  <2>10. key[4] < CountLimit /\ key[4] < MaxDepth
    BY <1>5, <2>6
  <2>11. Len(paths) \in Nat
    BY <1>3
  <2>12. ids \in Seq(Nat)
    BY <2>1, <2>11, Widened
  <2>13. \A i \in 1..Len(ids) : ids[i] \in 1..Len(paths)
    BY <2>1
  <2> QED
    BY <2>1, <2>6, <2>9, <2>10, <2>12, <2>13 DEF ids
<1> QED
  BY <1>3, <1>6 DEF PairsOk

(* The checks of store_in_file pass if and only if every pair's ids can be counted. *)
LEMMA OutcomeIs ==
  ASSUME SearchInv
  PROVE  Verified(wire_pairs, Flat(wire_pairs, paths)) <=> Counted(wire_pairs)
<1>1. PairsOk(wire_pairs)
  BY StoredFits
<1> DEFINE flat == Flat(wire_pairs, paths)
<1>2. flat = Flat(wire_pairs, paths)
  OBVIOUS
<1> HIDE DEF flat
<1>3. Verified(wire_pairs, flat) <=> Counted(wire_pairs)
  BY <1>1, <1>2, VerifiedIsFits DEF Counted
<1> QED
  BY <1>3 DEF flat

(* Concatenated vectors are empty if and only if each of them is. *)
LEMMA FlattenedEmpty ==
  ASSUME NEW S, NEW seqs \in Seq(Seq(S))
  PROVE  FlattenSeq(seqs) = <<>> <=> \A i \in 1..Len(seqs) : seqs[i] = <<>>
<1> DEFINE F == FlattenSeq(seqs)
<1>1. F \in Seq(S) /\ Range(F) = UNION {Range(seqs[i]) : i \in 1..Len(seqs)}
  BY Flattened, FlattenedRange
<1>2. ASSUME NEW w \in Seq(S) PROVE w = <<>> <=> Range(w) = {}
  <2>1. CASE w = <<>>
    BY <2>1 DEF Range
  <2>2. CASE w # <<>>
    <3>1. 1 \in DOMAIN w
      BY <2>2
    <3> QED
      BY <2>2, <3>1 DEF Range
  <2> QED
    BY <2>1, <2>2
<1>3. \A i \in 1..Len(seqs) : seqs[i] \in Seq(S)
  OBVIOUS
<1> HIDE DEF F
<1>4. F = <<>> <=> UNION {Range(seqs[i]) : i \in 1..Len(seqs)} = {}
  BY <1>1, <1>2
<1>5. UNION {Range(seqs[i]) : i \in 1..Len(seqs)} = {} <=>
        \A i \in 1..Len(seqs) : Range(seqs[i]) = {}
  OBVIOUS
<1> QED
  BY <1>2, <1>3, <1>4, <1>5 DEF F

(* Below an entry that is not empty no level of the table is empty. *)
LEMMA LevelsFilled ==
  ASSUME NEW pairs, PairsOk(pairs), NEW r \in 1..Len(Ladders(pairs)),
         Ladders(pairs)[r] # <<>>
  PROVE  /\ FlattenSeq(Ladders(pairs)) # <<>> /\ Ladders(pairs) # <<>>
         /\ Fans(pairs) # <<>> /\ Tiles(pairs) # <<>> /\ Tree(pairs) # <<>>
<1>1. /\ Tree(pairs) \in Seq(Seq(FinishSet(pairs)))
      /\ Tiles(pairs) \in Seq(Seq(DepthSet(pairs)))
      /\ Fans(pairs) \in Seq(Seq(IdsSet(pairs)))
      /\ Ladders(pairs) \in Seq(Seq(Nat))
  BY LevelsAre
<1>2. ASSUME NEW S, NEW seqs \in Seq(Seq(S)), FlattenSeq(seqs) # <<>>
      PROVE  seqs # <<>>
  <2>1. PICK i \in 1..Len(seqs) : seqs[i] # <<>>
    BY <1>2, FlattenedEmpty
  <2> QED
    BY <2>1
<1>3. FlattenSeq(Ladders(pairs)) # <<>>
  BY <1>1, FlattenedEmpty
<1>4. Ladders(pairs) # <<>>
  BY <1>1, <1>2, <1>3
<1>5. Fans(pairs) # <<>>
  BY <1>1, <1>2, <1>4 DEF Ladders
<1>6. Tiles(pairs) # <<>>
  BY <1>1, <1>2, <1>5 DEF Fans
<1>7. Tree(pairs) # <<>>
  BY <1>1, <1>2, <1>6 DEF Tiles
<1> QED
  BY <1>3, <1>4, <1>5, <1>6, <1>7

Inner(names) == \E id \in DOMAIN names : names[id] # <<>>

(* The files of the table can be made if and only if some path has an inner wire. *)
LEMMA StorableIs ==
  ASSUME SearchInv
  PROVE  Storable(Flat(wire_pairs, paths)) <=> Inner(paths)
<1> DEFINE flat == Flat(wire_pairs, paths)
<1>1. PairsOk(wire_pairs) /\ paths \in Seq(Seq(Nat))
  BY StoredFits
<1>2. flat = Flat(wire_pairs, paths)
  OBVIOUS
<1>3. /\ DOMAIN flat = {"tree", "tile", "start", "finish", "depth", "path", "wires"}
      /\ flat.path = Spans(paths) /\ flat.wires = FlattenSeq(paths)
  BY DEF Flat
<1> HIDE DEF flat
<1>4. FlattenSeq(paths) = <<>> <=> ~Inner(paths)
  <2>1. FlattenSeq(paths) = <<>> <=> \A i \in 1..Len(paths) : paths[i] = <<>>
    BY <1>1, FlattenedEmpty
  <2>2. DOMAIN paths = 1..Len(paths)
    BY <1>1
  <2> QED
    BY <2>1, <2>2 DEF Inner
<1>5. ASSUME Storable(flat) PROVE Inner(paths)
  BY <1>3, <1>4, <1>5 DEF Storable
<1>6. ASSUME Inner(paths) PROVE Storable(flat)
  <2>1. PICK id \in DOMAIN paths : paths[id] # <<>>
    BY <1>6 DEF Inner
  <2>2. id \in 1..Len(paths) /\ Len(paths) \in Nat
    BY <1>1
  <2>3. Kept(Current) /\ Current.paths = paths /\ Current.wire_pairs = wire_pairs
    BY DEF SearchInv, Current
  <2>4. PICK key \in DOMAIN wire_pairs : wire_pairs[key] # <<>>
    BY <2>2, <2>3 DEF Kept
  <2>5. PICK r \in 1..Len(Ladders(wire_pairs)) : Ladders(wire_pairs)[r] = wire_pairs[key]
    BY <1>1, <1>2, PairEntry
  <2>6. /\ FlattenSeq(Ladders(wire_pairs)) # <<>> /\ Ladders(wire_pairs) # <<>>
        /\ Fans(wire_pairs) # <<>> /\ Tiles(wire_pairs) # <<>> /\ Tree(wire_pairs) # <<>>
    BY <1>1, <2>4, <2>5, LevelsFilled
  <2>7. /\ flat.depth = FlattenSeq(Ladders(wire_pairs))
        /\ flat.tree \in Seq(Entries) /\ Len(flat.tree) = Len(Tree(wire_pairs))
        /\ flat.tile \in Seq(Entries) /\ Len(flat.tile) = Len(Tiles(wire_pairs))
        /\ flat.start \in Seq(Entries) /\ Len(flat.start) = Len(Fans(wire_pairs))
        /\ flat.finish \in Seq(Entries) /\ Len(flat.finish) = Len(Ladders(wire_pairs))
    BY <1>1, <1>2, FlatIs
  <2>8. \A S : \A v \in Seq(S) : v # <<>> => Len(v) > 0
    OBVIOUS
  <2>9. /\ Len(Tree(wire_pairs)) > 0 /\ Len(Tiles(wire_pairs)) > 0
        /\ Len(Fans(wire_pairs)) > 0 /\ Len(Ladders(wire_pairs)) > 0
    BY <1>1, <2>6, <2>8, LevelsAre
  <2>10. flat.tree # <<>> /\ flat.tile # <<>> /\ flat.start # <<>> /\ flat.finish # <<>>
    BY <2>7, <2>9
  <2>11. flat.path # <<>>
    BY <1>1, <1>3, <2>2, SpansAre
  <2> QED
    BY <1>3, <1>4, <1>6, <2>6, <2>7, <2>10, <2>11 DEF Storable
<1> QED
  BY <1>5, <1>6 DEF flat

(* The process aborts for a pair with too many ids or for want of an inner wire, and for
   nothing else. *)
LEMMA AbortsKept ==
  ASSUME SearchInv, SearchInv', AbortsIfCutOrEmpty, [Next]_vars
  PROVE  AbortsIfCutOrEmpty'
<1>1. Counters' /\ Searching /\ Counters
  BY DEF SearchInv
<1>2. AbortsIfCutOrEmpty <=>
        /\ pc = "aborted" => ~MoreTypes /\ ~(Counted(wire_pairs) /\ Inner(paths))
        /\ pc = "done" => Counted(wire_pairs) /\ Inner(paths)
  BY DEF AbortsIfCutOrEmpty, Counted, Inner
<1>3. AbortsIfCutOrEmpty' <=>
        /\ pc' = "aborted" => ~MoreTypes' /\ ~(Counted(wire_pairs') /\ Inner(paths'))
        /\ pc' = "done" => Counted(wire_pairs') /\ Inner(paths')
  BY DEF AbortsIfCutOrEmpty, Counted, Inner
<1>4. ASSUME pc' \notin {"aborted", "done"} PROVE AbortsIfCutOrEmpty'
  BY <1>3, <1>4
<1>5. CASE NextType
  BY <1>4, <1>5 DEF NextType
<1>6. CASE SkipWire
  BY <1>4, <1>6 DEF SkipWire, Enumerable
<1>7. CASE StartWire
  BY <1>4, <1>7 DEF StartWire, Enumerable, StartThreads
<1>8. CASE Join
  BY <1>4, <1>8 DEF Join
<1>9. CASE StoreInFile
  <2>1. /\ ~MoreTypes /\ tileTypes' = tileTypes /\ tile_type_idx' = tile_type_idx
        /\ wire_pairs' = wire_pairs /\ paths' = paths
        /\ pc' = IF Verified(wire_pairs, Flat(wire_pairs, paths))
                      /\ Storable(Flat(wire_pairs, paths)) THEN "done" ELSE "aborted"
    BY <1>9 DEF StoreInFile
  <2>2. ~MoreTypes'
    BY <2>1 DEF MoreTypes
  <2>3. pc' = IF Counted(wire_pairs) /\ Inner(paths) THEN "done" ELSE "aborted"
    BY <2>1, OutcomeIs, StorableIs
  <2> QED
    BY <1>3, <2>1, <2>2, <2>3
<1>10. CASE \E i \in 1..Concurrency : Grow(i)
  <2>1. pc = "grow" /\ tileTypes' = tileTypes /\ tile_type_idx' = tile_type_idx
    BY <1>10 DEF Grow
  <2>2. MoreTypes /\ (MoreTypes' <=> MoreTypes)
    BY <1>1, <2>1 DEF Searching, MoreTypes
  <2> QED
    BY <1>1, <1>4, <2>2 DEF Counters
<1>11. CASE Ended \/ UNCHANGED vars
  <2>1. /\ pc' = pc /\ wire_pairs' = wire_pairs /\ paths' = paths
        /\ tileTypes' = tileTypes /\ tile_type_idx' = tile_type_idx
    BY <1>11 DEF Ended, vars, search
  <2>2. MoreTypes' <=> MoreTypes
    BY <2>1 DEF MoreTypes
  <2> QED
    BY <1>2, <1>3, <2>1, <2>2
<1> QED
  BY <1>5, <1>6, <1>7, <1>8, <1>9, <1>10, <1>11 DEF Next

OutcomeInv == SearchInv /\ AbortsIfCutOrEmpty

(* The invariant of the search and its outcome is inductive. *)
LEMMA OutcomeKept ==
  /\ Init => OutcomeInv
  /\ OutcomeInv /\ [Next]_vars => OutcomeInv'
<1>1. Init => OutcomeInv
  BY SearchStarts DEF OutcomeInv, AbortsIfCutOrEmpty, Init
<1>2. OutcomeInv /\ [Next]_vars => OutcomeInv'
  BY SearchGoesOn, AbortsKept DEF OutcomeInv
<1> QED
  BY <1>1, <1>2

(* The process aborts only when everything was enumerated, and then only for a pair with
   more ids than 16 bits can count or because no stored path has an inner wire; it is done
   only when neither is so. None of the calls of abort() under grow_head is ever reached,
   the checks of store_in_file fail for no other reason, and no other file is empty. *)
THEOREM SearchAbortsIfCutOrEmpty == Spec => []AbortsIfCutOrEmpty
<1>1. OutcomeInv => AbortsIfCutOrEmpty
  BY DEF OutcomeInv
<1> QED
  BY <1>1, OutcomeKept, PTL DEF Spec

(* What the scan of two ends gives is what is stored for them. *)
LEMMA ScanOfStored ==
  ASSUME OutcomeInv, pc = "done"
  PROVE  ScanIsStored
<1>1. SearchInv /\ Counted(wire_pairs)
  BY DEF OutcomeInv, AbortsIfCutOrEmpty, Counted
<1>2. /\ PairsOk(wire_pairs) /\ paths \in Seq(Seq(Nat))
      /\ \A key \in DOMAIN wire_pairs : wire_pairs[key] \in Seq(1..Len(paths))
           /\ \A i \in 1..Len(wire_pairs[key]) :
                wire_pairs[key][i] \in 1..Len(paths) /\ Len(paths[wire_pairs[key][i]]) < CountLimit
  BY <1>1, StoredFits
<1>3. Len(tileTypes) \in Nat /\ Len(tileTypes) <= TileTypeCount /\ TileTypeCount \in Nat
  BY <1>1, TypesAreOk, FlatAssumption DEF SearchInv, Counters
<1> DEFINE flat == Flat(wire_pairs, paths)
<1>4. flat = Flat(wire_pairs, paths)
  OBVIOUS
<1> HIDE DEF flat
<1>5. ASSUME NEW tt \in 1..Len(tileTypes),
             NEW start \in 0..(subscript1(flat, tt - 1).count - 1),
             NEW finish \in 0..(subscript2(flat, tt - 1, start).count - 1)
      PROVE  /\ scan(flat, subscript3(flat, subscript2(flat, tt - 1, start), finish))
                  = StoredIds(tt - 1, start, finish)
             /\ \A id \in ToSet(StoredIds(tt - 1, start, finish)) : path_wires(flat, id) = paths[id]
  <2> DEFINE n == tt - 1
             s == IdsOf(wire_pairs, n, start, finish)
             v == DepthVector(wire_pairs, n, start, finish)
  <2>1. n \in 0..(TileTypeCount - 1)
    BY <1>3
  <2>2. StoredIds(n, start, finish) = FlattenSeq(s)
    BY DEF StoredIds, IdsOf
  <2>3. s \in Seq(Seq(Nat))
    BY <1>2, DepthsConcatenate
  <2>4. ASSUME NEW i \in 1..Len(s), NEW j \in 1..Len(s[i])
        PROVE  s[i][j] \in 1..Len(paths) /\ Len(paths[s[i][j]]) < CountLimit
    <3> DEFINE key == <<n, start, finish, i - 1>>
    <3>1. s[i] = IF key \in DOMAIN wire_pairs THEN wire_pairs[key] ELSE <<>>
      <4>1. i \in 1..MaxDepth
        <5> DEFINE m == MaxDepth
        <5>1. s = [d \in 1..m |-> s[d]] /\ m \in Nat /\ s \in Seq(Seq(Nat))
          BY <2>3, TilePathsAssumption DEF IdsOf
        <5>2. i \in 1..Len(s)
          OBVIOUS
        <5> HIDE DEF m, s
        <5>3. Len(s) = m
          BY <5>1
        <5> QED
          BY <5>2, <5>3 DEF m
      <4> QED
        BY <4>1 DEF IdsOf
    <3> HIDE DEF key, s
    <3>2. key \in DOMAIN wire_pairs /\ s[i] = wire_pairs[key]
      BY <3>1
    <3> QED
      BY <1>2, <3>2
  <2> HIDE DEF n, s
  <2>5. scan(flat, subscript3(flat, subscript2(flat, n, start), finish)) = FlattenSeq(s)
    BY <1>1, <1>2, <1>4, <2>1, ScanGivesIds DEF n, s
  <2>6. ASSUME NEW id \in ToSet(FlattenSeq(s)) PROVE path_wires(flat, id) = paths[id]
    <3>1. ToSet(FlattenSeq(s)) = UNION {Range(s[i]) : i \in 1..Len(s)}
      BY <2>3, FlattenedRange DEF ToSet, Range
    <3>2. PICK i \in 1..Len(s) : id \in Range(s[i])
      BY <3>1
    <3>3. DOMAIN s[i] = 1..Len(s[i])
      BY <2>3
    <3>4. PICK j \in 1..Len(s[i]) : id = s[i][j]
      BY <3>2, <3>3 DEF Range
    <3>5. id \in 1..Len(paths) /\ Len(paths[id]) < CountLimit
      BY <2>4, <3>4
    <3> QED
      BY <1>2, <1>4, <3>5, WiresRead
  <2> QED
    BY <2>2, <2>5, <2>6 DEF n
<1> QED
  BY <1>5 DEF ScanIsStored, flat

(* When the process is done, the scan of route_step over the table it laid out gives, for
   every tile type and any two ends its subscripts lead to, exactly the ids that were
   stored for them, the shortest paths first, and every id the wires of its path; the
   distances behind the entries without ids never lead it into the next vector. *)
THEOREM SearchScansStored == Spec => []ScanIsStored
<1>1. OutcomeInv => ScanIsStored
  BY ScanOfStored DEF ScanIsStored
<1> QED
  BY <1>1, OutcomeKept, PTL DEF Spec

-----------------------------------------------------------------------------
(***************************************************************************)
(* The files that the table is kept in (TableCache) are whole when they    *)
(* are read, unless the process was once stopped between the moment the    *)
(* marker had a size and the last write: for any files, any order in which *)
(* they are made and any number of stops.                                  *)
(*                                                                         *)
(* While the tables are made, a file that is not written has a step left;  *)
(* between two runs, files that seem made are whole or the process was     *)
(* stopped at the wrong moment; and then they are never made again.        *)
(***************************************************************************)

Phases == {"start", "make", "load", "use", "aborted"}

(* What is not written yet will be. *)
StepsLeft ==
  \A f \in table.files :
    disk[f] # "written" => \E i \in DOMAIN table.steps : table.steps[i].file = f /\ step <= i

(* Files that are read are whole. *)
ReadWhole ==
  /\ phase = "start" /\ Trusted => hurt \/ Whole
  /\ phase \in {"load", "use"} => hurt \/ Whole
  /\ phase = "aborted" => hurt

CacheInv ==
  /\ table \in Tables /\ phase \in Phases /\ step \in Nat /\ hurt \in BOOLEAN
  /\ DOMAIN disk = table.files
  /\ loaded # NotLoaded => loaded = disk /\ phase = "use"
  /\ hurt => Trusted /\ ~Whole /\ phase # "make"
  /\ phase = "make" => StepsLeft
  /\ ReadWhole

LEMMA CacheInitInv == CacheInit => CacheInv
<1> SUFFICES ASSUME CacheInit PROVE CacheInv
  OBVIOUS
<1>1. /\ table \in Tables /\ phase = "start" /\ step = 1 /\ loaded = NotLoaded
      /\ hurt = FALSE /\ disk = [f \in table.files |-> "absent"]
  BY DEF CacheInit
<1>2. ~Trusted
  <2>1. table.marker \in table.files
    BY <1>1, TablesAssumption
  <2> QED
    BY <1>1, <2>1 DEF Trusted, HasSize
<1>3. ReadWhole
  BY <1>1, <1>2 DEF ReadWhole
<1> QED
  BY <1>1, <1>3 DEF CacheInv, Phases

(* A step that leaves the files alone. *)
LEMMA FilesUnchanged ==
  ASSUME UNCHANGED <<table, disk>>
  PROVE  /\ Trusted' = Trusted /\ Whole' = Whole
         /\ SizesAgree' = SizesAgree
BY DEF Trusted, Whole, SizesAgree, HasSize

LEMMA MakeStepsLeft ==
  ASSUME CacheInv, Make
  PROVE  StepsLeft' /\ DOMAIN disk' = table.files
<1>1. /\ table \in Tables /\ step \in Nat /\ step <= Len(table.steps)
      /\ table' = table /\ step' = step + 1 /\ DOMAIN disk = table.files
      /\ StepsLeft
  BY DEF CacheInv, Make
<1>2. PICK files : files = table.files
  OBVIOUS
<1>3. PICK steps \in Seq([op : Operations, file : files]) : steps = table.steps
  BY <1>1, <1>2, TablesAssumption
<1>4. /\ disk' = [disk EXCEPT ![steps[step].file] = Effect(steps[step].op)]
      /\ DOMAIN disk' = files
  BY <1>1, <1>2, <1>3 DEF Make
<1>5. ASSUME NEW f \in files, disk'[f] # "written"
      PROVE  \E i \in DOMAIN steps : steps[i].file = f /\ step + 1 <= i
  <2>1. PICK i \in DOMAIN steps :
          /\ steps[i] = [op |-> "write", file |-> f]
          /\ \A j \in DOMAIN steps : steps[j].file = f => j <= i
    BY <1>1, <1>2, <1>3, TablesAssumption
  <2>2. steps[i].file = f /\ steps[i].op = "write"
    BY <2>1
  <2>3. step # i
    <3>1. ASSUME step = i PROVE disk'[f] = "written"
      BY <1>1, <1>2, <1>4, <2>2, <3>1 DEF Effect
    <3> QED
      BY <1>5, <3>1
  <2>4. step <= i
    <3>1. CASE step \in DOMAIN steps /\ steps[step].file = f
      BY <2>1, <3>1
    <3>2. CASE step \in DOMAIN steps /\ steps[step].file # f
      <4>1. disk'[f] = disk[f]
        BY <1>1, <1>2, <1>4, <3>2
      <4>2. PICK k \in DOMAIN steps : steps[k].file = f /\ step <= k
        BY <1>1, <1>2, <1>3, <1>5, <4>1 DEF StepsLeft
      <4>3. k <= i
        BY <2>1, <4>2
      <4> QED
        BY <1>1, <4>2, <4>3
    <3>3. CASE step \notin DOMAIN steps
      BY <1>1, <1>3, <3>3
    <3> QED
      BY <3>1, <3>2, <3>3
  <2> QED
    BY <1>1, <2>2, <2>3, <2>4
<1> QED
  BY <1>1, <1>2, <1>3, <1>4, <1>5 DEF StepsLeft

LEMMA CacheNextInv == CacheInv /\ [CacheNext]_cacheVars => CacheInv'
<1> SUFFICES ASSUME CacheInv, [CacheNext]_cacheVars PROVE CacheInv'
  OBVIOUS
<1>0. /\ table \in Tables /\ phase \in Phases /\ step \in Nat /\ hurt \in BOOLEAN
      /\ DOMAIN disk = table.files
      /\ loaded # NotLoaded => loaded = disk /\ phase = "use"
      /\ hurt => Trusted /\ ~Whole /\ phase # "make"
      /\ phase = "make" => StepsLeft
      /\ ReadWhole
  BY DEF CacheInv
<1>1. CASE Start
  <2>1. /\ phase = "start" /\ phase' = (IF Trusted THEN "load" ELSE "make") /\ step' = 1
        /\ UNCHANGED <<table, disk, loaded, stops, hurt>>
    BY <1>1 DEF Start
  <2>2. Trusted' = Trusted /\ Whole' = Whole
    BY <2>1, FilesUnchanged
  <2>3. StepsLeft'
    <3>1. ASSUME NEW f \in table.files
          PROVE  \E i \in DOMAIN table.steps : table.steps[i].file = f /\ 1 <= i
      <4>1. PICK steps \in Seq([op : Operations, file : table.files]) : steps = table.steps
        BY <1>0, TablesAssumption
      <4>2. PICK i \in DOMAIN steps : steps[i] = [op |-> "write", file |-> f]
        BY <1>0, <4>1, TablesAssumption
      <4>3. steps[i].file = f /\ 1 <= i
        BY <4>1, <4>2
      <4> QED
        BY <4>1, <4>3
    <3> QED
      BY <2>1, <3>1 DEF StepsLeft
  <2>4. ReadWhole'
    BY <1>0, <2>1, <2>2 DEF ReadWhole
  <2> QED
    BY <1>0, <2>1, <2>2, <2>3, <2>4 DEF CacheInv, Phases
<1>2. CASE Make
  <2>1. /\ phase = "make" /\ step' = step + 1 /\ UNCHANGED <<table, phase, loaded, stops, hurt>>
    BY <1>2 DEF Make
  <2>2. StepsLeft' /\ DOMAIN disk' = table.files
    BY <1>2, MakeStepsLeft
  <2>3. ReadWhole'
    BY <2>1 DEF ReadWhole
  <2> QED
    BY <1>0, <2>1, <2>2, <2>3 DEF CacheInv, Phases
<1>3. CASE Made
  <2>1. /\ phase = "make" /\ step = Len(table.steps) + 1 /\ phase' = "load"
        /\ UNCHANGED <<table, step, disk, loaded, stops, hurt>>
    BY <1>3 DEF Made
  <2>2. Trusted' = Trusted /\ Whole' = Whole
    BY <2>1, FilesUnchanged
  <2>3. Whole
    <3>1. PICK steps \in Seq([op : Operations, file : table.files]) : steps = table.steps
      BY <1>0, TablesAssumption
    <3>2. \A i \in DOMAIN steps : ~(step <= i)
      BY <2>1, <3>1
    <3> QED
      BY <1>0, <2>1, <3>1, <3>2 DEF StepsLeft, Whole
  <2>4. ReadWhole'
    BY <2>1, <2>2, <2>3 DEF ReadWhole
  <2> QED
    BY <1>0, <2>1, <2>2, <2>4 DEF CacheInv, Phases
<1>4. CASE Load
  <2>1. /\ phase = "load" /\ UNCHANGED <<table, step, disk, stops, hurt>>
        /\ \/ SizesAgree /\ phase' = "use" /\ loaded' = disk
           \/ ~SizesAgree /\ phase' = "aborted" /\ loaded' = loaded
    BY <1>4 DEF Load
  <2>2. Trusted' = Trusted /\ Whole' = Whole
    BY <2>1, FilesUnchanged
  <2>3. Whole => SizesAgree
    <3>1. table.paired \subseteq table.files \X table.files
      BY <1>0, TablesAssumption
    <3> QED
      BY <3>1 DEF Whole, SizesAgree, HasSize
  <2>4. ReadWhole'
    BY <1>0, <2>1, <2>2, <2>3 DEF ReadWhole
  <2>5. loaded' # NotLoaded => loaded' = disk' /\ phase' = "use"
    BY <1>0, <2>1
  <2> QED
    BY <1>0, <2>1, <2>2, <2>4, <2>5 DEF CacheInv, Phases
<1>5. CASE Exit
  <2>1. /\ phase \in {"use", "aborted"} /\ phase' = "start" /\ loaded' = NotLoaded
        /\ UNCHANGED <<table, step, disk, hurt>>
    BY <1>5 DEF Exit
  <2>2. Trusted' = Trusted /\ Whole' = Whole
    BY <2>1, FilesUnchanged
  <2>3. ReadWhole'
    BY <1>0, <2>1, <2>2 DEF ReadWhole
  <2> QED
    BY <1>0, <2>1, <2>2, <2>3 DEF CacheInv, Phases
<1>6. CASE Stop
  <2>1. /\ phase' = "start" /\ loaded' = NotLoaded /\ UNCHANGED <<table, step, disk>>
        /\ hurt' = (hurt \/ (Trusted /\ ~Whole))
    BY <1>6 DEF Stop, Trusted
  <2>2. Trusted' = Trusted /\ Whole' = Whole
    BY <2>1, FilesUnchanged
  <2>3. hurt' <=> Trusted /\ ~Whole
    BY <1>0, <2>1
  <2>4. ReadWhole'
    BY <2>1, <2>2, <2>3 DEF ReadWhole
  <2> QED
    BY <1>0, <2>1, <2>2, <2>3, <2>4 DEF CacheInv, Phases
<1>7. CASE Finished \/ UNCHANGED cacheVars
  <2>1. UNCHANGED <<table, phase, step, disk, loaded, stops, hurt>>
    BY <1>7 DEF Finished, cacheVars
  <2>2. Trusted' = Trusted /\ Whole' = Whole
    BY <2>1, FilesUnchanged
  <2>3. ReadWhole' /\ (StepsLeft' <=> StepsLeft)
    BY <1>0, <2>1, <2>2 DEF ReadWhole, StepsLeft
  <2> QED
    BY <1>0, <2>1, <2>2, <2>3 DEF CacheInv
<1> QED
  BY <1>1, <1>2, <1>3, <1>4, <1>5, <1>6, <1>7 DEF CacheNext

THEOREM CacheInvariant == CacheSpec => []CacheInv
BY CacheInitInv, CacheNextInv, PTL DEF CacheSpec

(* The router reads whole tables exactly when the process was never        *)
(* stopped between the size of the marker and the last write, and aborts   *)
(* over its tables only after such a stop.                                 *)
THEOREM DamageHasOneCause == CacheSpec => []DamageIsForGood
<1>1. CacheInv => DamageIsForGood
  <2> SUFFICES ASSUME CacheInv PROVE DamageIsForGood
    OBVIOUS
  <2>1. phase = "aborted" => hurt
    BY DEF CacheInv, ReadWhole
  <2>2. ASSUME loaded # NotLoaded
        PROVE  (\A f \in table.files : loaded[f] = "written") <=> ~hurt
    <3>1. loaded = disk /\ phase = "use"
      BY <2>2 DEF CacheInv
    <3>2. hurt \/ Whole
      BY <3>1 DEF CacheInv, ReadWhole
    <3>3. hurt => ~Whole
      BY DEF CacheInv
    <3> QED
      BY <3>1, <3>2, <3>3 DEF Whole
  <2> QED
    BY <2>1, <2>2 DEF DamageIsForGood
<1> QED
  BY <1>1, CacheInvariant, PTL

(* Once damaged, the tables are damaged in every later run: they are not   *)
(* made again. *)
THEOREM DamageStays == CacheSpec => [][hurt => hurt' /\ phase' # "make" /\ UNCHANGED <<table, disk>>]_cacheVars
<1>1. CacheInv /\ [CacheNext]_cacheVars
        => [hurt => hurt' /\ phase' # "make" /\ UNCHANGED <<table, disk>>]_cacheVars
  <2> SUFFICES ASSUME CacheInv, CacheNext, hurt
               PROVE  hurt' /\ phase' # "make" /\ UNCHANGED <<table, disk>>
    OBVIOUS
  <2>1. Trusted /\ phase # "make"
    BY DEF CacheInv
  <2>2. CASE Start
    BY <2>1, <2>2 DEF Start
  <2>3. CASE Make \/ Made
    BY <2>1, <2>3 DEF Make, Made
  <2>4. CASE Load
    BY <2>4 DEF Load
  <2>5. CASE Exit \/ Stop
    BY <2>5 DEF Exit, Stop
  <2>6. CASE Finished
    BY <2>1, <2>6 DEF Finished, cacheVars
  <2> QED
    BY <2>2, <2>3, <2>4, <2>5, <2>6 DEF CacheNext
<1> QED
  BY <1>1, CacheInvariant, PTL DEF CacheSpec
=============================================================================
