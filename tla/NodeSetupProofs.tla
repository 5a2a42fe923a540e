--------------------------- MODULE NodeSetupProofs ---------------------------
(***************************************************************************)
(* That the OpenCL node router is made as NodeSetup.tla promises, for any  *)
(* netlist, any number of threads, devices and slots of the beam, and any  *)
(* sizes of groups, histories and buffers.                                 *)
(*                                                                         *)
(* Counts of stubs are numbers of pairs of net and stub: those the threads *)
(* have counted, and those they have reserved an index for.  Each index    *)
(* below global_stub_index has its pair or is still ahead of one thread.   *)
(***************************************************************************)
EXTENDS NodeSetup, FiniteSetTheorems, WellFoundedInduction, TLAPS

USE DEF sizes, vecs, owners, vars

-----------------------------------------------------------------------------
(* Numbers. *)

LEMMA Quotient ==
  ASSUME NEW a \in Nat, NEW b \in Nat \ {0}
  PROVE  /\ a \div b \in Nat
         /\ (a \div b) * b <= a /\ a < (a \div b) * b + b
         /\ a % b \in 0..(b - 1) /\ a = b * (a \div b) + (a % b)
<1>1. /\ a \div b \in Nat /\ a % b \in 0..(b - 1)
      /\ a = b * (a \div b) + (a % b)
  OBVIOUS
<1> DEFINE c == a \div b
           r == a % b
<1> HIDE DEF c, r
<1>2. c \in Nat /\ r \in 0..(b - 1) /\ a = b * c + r
  BY <1>1 DEF c, r
<1>3. b * c = c * b /\ c * b \in Nat
  BY <1>2, SMTT(30)
<1>4. a = c * b + r
  BY <1>2, <1>3
<1>5. c * b <= a /\ a < c * b + b
  BY <1>2, <1>3, <1>4
<1>6. (a \div b) * b <= a /\ a < (a \div b) * b + b
  BY <1>5, Zenon DEF c
<1> QED
  BY <1>1, <1>6

LEMMA Product ==
  ASSUME NEW a \in Nat, NEW b \in Nat
  PROVE  a * b \in Nat
BY SMTT(30)

LEMMA ProductGrows ==
  ASSUME NEW a \in Nat, NEW b \in Nat, NEW c \in Nat, a <= b
  PROVE  a * c <= b * c /\ c * a <= c * b
BY SMTT(30)

(* Quotients are told by their bounds. *)
LEMMA QuotientIs ==
  ASSUME NEW a \in Nat, NEW b \in Nat \ {0}, NEW c \in Nat, c * b <= a, a < c * b + b
  PROVE  a \div b = c
<1> DEFINE d == a \div b
<1>1. d \in Nat /\ d * b <= a /\ a < d * b + b
  BY Quotient
<1> HIDE DEF d
<1>2. ~(d < c)
  <2> SUFFICES ASSUME d + 1 <= c PROVE FALSE
    BY <1>1
  <2>1. (d + 1) * b <= c * b
    BY <1>1, ProductGrows
  <2>2. (d + 1) * b = d * b + b
    BY <1>1, SMTT(30)
  <2>3. d * b \in Nat /\ c * b \in Nat
    BY <1>1, Product
  <2> QED
    BY <1>1, <2>1, <2>2, <2>3
<1>3. ~(c < d)
  <2> SUFFICES ASSUME c + 1 <= d PROVE FALSE
    BY <1>1
  <2>1. (c + 1) * b <= d * b
    BY <1>1, ProductGrows
  <2>2. (c + 1) * b = c * b + b
    BY SMTT(30)
  <2>3. d * b \in Nat /\ c * b \in Nat
    BY <1>1, Product
  <2> QED
    BY <1>1, <2>1, <2>2, <2>3
<1> QED
  BY <1>1, <1>2, <1>3 DEF d

(* Two numbers of one remainder are the same if they are near. *)
LEMMA SameRemainder ==
  ASSUME NEW a \in Nat, NEW b \in Nat, NEW k \in Nat \ {0}, a % k = b % k,
         a <= b, b < a + k
  PROVE  a = b
<1> DEFINE c == a \div k
           d == b \div k
           r == a % k
<1>1. c \in Nat /\ d \in Nat /\ r \in 0..(k - 1) /\ a = k * c + r
  BY Quotient
<1>2. b = k * d + (b % k)
  BY Quotient
<1>3. b = k * d + r
  BY <1>2
<1> HIDE DEF c, d, r
<1>4. c * k \in Nat /\ d * k \in Nat /\ k * c = c * k /\ k * d = d * k
  BY <1>1, SMTT(30)
<1>5. ~(c < d)
  <2> SUFFICES ASSUME c + 1 <= d PROVE FALSE
    BY <1>1
  <2>1. (c + 1) * k <= d * k
    BY <1>1, ProductGrows
  <2>2. (c + 1) * k = c * k + k
    BY <1>1, SMTT(30)
  <2> QED
    BY <1>1, <1>3, <1>4, <2>1, <2>2
<1>6. ~(d < c)
  <2> SUFFICES ASSUME d + 1 <= c PROVE FALSE
    BY <1>1
  <2>1. (d + 1) * k <= c * k
    BY <1>1, ProductGrows
  <2>2. (d + 1) * k = d * k + k
    BY <1>1, SMTT(30)
  <2> QED
    BY <1>1, <1>3, <1>4, <2>1, <2>2
<1>7. c = d
  BY <1>1, <1>5, <1>6
<1> QED
  BY <1>1, <1>3, <1>7

LEMMA RemainderSteps ==
  ASSUME NEW a \in Nat, NEW k \in Nat \ {0}
  PROVE  (a + k) % k = a % k
<1> DEFINE c == a \div k
           r == a % k
           d == (a + k) \div k
           s == (a + k) % k
<1>1. c \in Nat /\ r \in 0..(k - 1) /\ a = k * c + r
  BY Quotient
<1>2. a + k \in Nat
  OBVIOUS
<1>3. d \in Nat /\ s \in 0..(k - 1) /\ a + k = k * d + s
  BY <1>2, Quotient
<1> HIDE DEF c, d, r, s
<1>4. c * k \in Nat /\ d * k \in Nat /\ (c + 1) * k = c * k + k
      /\ k * c = c * k /\ k * d = d * k
  BY <1>1, <1>3, SMTT(30)
<1>5. (c + 1) * k + r = d * k + s
  BY <1>1, <1>3, <1>4
<1>6. ~(c + 1 < d)
  <2> SUFFICES ASSUME (c + 1) + 1 <= d PROVE FALSE
    BY <1>1, <1>3
  <2>1. ((c + 1) + 1) * k <= d * k
    BY <1>1, <1>3, ProductGrows
  <2>2. ((c + 1) + 1) * k = (c + 1) * k + k
    BY <1>1, SMTT(30)
  <2> QED
    BY <1>1, <1>3, <1>4, <1>5, <2>1, <2>2
<1>7. ~(d < c + 1)
  <2> SUFFICES ASSUME d + 1 <= c + 1 PROVE FALSE
    BY <1>1, <1>3
  <2>1. (d + 1) * k <= (c + 1) * k
    BY <1>1, <1>3, ProductGrows
  <2>2. (d + 1) * k = d * k + k
    BY <1>3, SMTT(30)
  <2> QED
    BY <1>1, <1>3, <1>4, <1>5, <2>1, <2>2
<1>8. d = c + 1
  BY <1>1, <1>3, <1>6, <1>7
<1>9. r = s
  BY <1>1, <1>3, <1>4, <1>5, <1>8
<1> QED
  BY <1>9 DEF r, s

LEMMA LeastNat ==
  ASSUME NEW T, T \subseteq Nat, T # {}
  PROVE  \E x \in T : \A y \in T : x <= y
<1>1. \E x \in T : \A y \in T : ~(<<y, x>> \in OpToRel(<, Nat))
  BY NatLessThanWellFounded, WFMin, Zenon
<1>2. PICK x \in T : \A y \in T : ~(<<y, x>> \in OpToRel(<, Nat))
  BY <1>1
<1>3. ASSUME NEW y \in T PROVE x <= y
  <2>1. <<y, x>> \in Nat \X Nat
    OBVIOUS
  <2>2. ~(y < x)
    BY <1>2, <2>1 DEF OpToRel
  <2> QED
    BY <2>2
<1> QED
  BY <1>3


-----------------------------------------------------------------------------
(* The nets of a thread. *)

TurnOf(n) == (n - 1) % Threads

(* The threads have gone past net n. *)
Passed(n) == n < at[TurnOf(n)]

Turns ==
  /\ at = [t \in ThreadIds |-> at[t]]
  /\ \A t \in ThreadIds : at[t] \in Nat \ {0} /\ TurnOf(at[t]) = t

LEMMA TurnIsThread ==
  ASSUME NEW n \in Nat \ {0}
  PROVE  TurnOf(n) \in ThreadIds /\ TurnOf(n) < n
<1>1. n - 1 \in Nat /\ Threads \in Nat \ {0}
  BY NodeSetupAssumption
<1> DEFINE a == n - 1
           d == a \div Threads
           r == a % Threads
<1>2. d \in Nat /\ r \in 0..(Threads - 1) /\ d * Threads <= a /\ a = Threads * d + r
  BY <1>1, Quotient
<1>3. r = TurnOf(n)
  BY DEF TurnOf
<1> HIDE DEF d, r
<1>4. Threads * d \in Nat
  BY <1>1, <1>2, SMTT(30)
<1>5. r <= a
  BY <1>1, <1>2, <1>4
<1> QED
  BY <1>1, <1>2, <1>3, <1>5 DEF ThreadIds

LEMMA StartTurns ==
  /\ Starts = [t \in ThreadIds |-> Starts[t]]
  /\ \A t \in ThreadIds : Starts[t] \in Nat \ {0} /\ TurnOf(Starts[t]) = t
  /\ \A n \in Nat \ {0} : ~(n < Starts[TurnOf(n)])
<1>1. ASSUME NEW t \in ThreadIds
      PROVE  Starts[t] \in Nat \ {0} /\ TurnOf(Starts[t]) = t
  <2>1. Starts[t] = t + 1 /\ t \in Nat /\ t < Threads /\ Threads \in Nat \ {0}
    BY NodeSetupAssumption DEF Starts, ThreadIds
  <2>2. (t + 1) - 1 = t
    BY <2>1
  <2>3. t % Threads = t
    <3> DEFINE d == t \div Threads
               r == t % Threads
    <3>1. d \in Nat /\ r \in 0..(Threads - 1) /\ t = Threads * d + r /\ d * Threads <= t
      BY <2>1, Quotient
    <3> HIDE DEF d, r
    <3>2. d = 0
      <4> SUFFICES ASSUME 1 <= d PROVE FALSE
        BY <3>1
      <4>1. 1 * Threads <= d * Threads
        BY <2>1, <3>1, ProductGrows
      <4>2. d * Threads \in Nat
        BY <2>1, <3>1, Product
      <4> QED
        BY <2>1, <3>1, <4>1, <4>2
    <3>3. Threads * d = 0
      BY <2>1, <3>2
    <3>4. t = r
      BY <2>1, <3>1, <3>3
    <3> QED
      BY <3>4 DEF r
  <2> QED
    BY <2>1, <2>2, <2>3 DEF TurnOf
<1>2. Starts = [t \in ThreadIds |-> Starts[t]]
  BY DEF Starts
<1>3. ASSUME NEW n \in Nat \ {0} PROVE ~(n < Starts[TurnOf(n)])
  <2>1. TurnOf(n) \in ThreadIds /\ TurnOf(n) < n
    BY TurnIsThread
  <2>2. Starts[TurnOf(n)] = TurnOf(n) + 1 /\ TurnOf(n) \in Nat
    BY <2>1, NodeSetupAssumption DEF Starts, ThreadIds
  <2> QED
    BY <2>1, <2>2
<1> QED
  BY <1>1, <1>2, <1>3

(* Going further a thread passes the net it is at, and no other. *)
LEMMA FurtherPasses ==
  ASSUME Turns, NEW t \in ThreadIds, Further(t)
  PROVE  /\ Turns'
         /\ at'[t] # at[t]
         /\ \A u \in ThreadIds \ {t} : at'[u] = at[u]
         /\ \A n \in Nat \ {0} : Passed(n)' <=> Passed(n) \/ n = at[t]
<1>1. Threads \in Nat \ {0} /\ at[t] \in Nat \ {0} /\ TurnOf(at[t]) = t
  BY NodeSetupAssumption DEF Turns
<1>2. /\ at'[t] = at[t] + Threads
      /\ \A u \in ThreadIds \ {t} : at'[u] = at[u]
      /\ at' = [u \in ThreadIds |-> at'[u]]
  BY DEF Turns, Further
<1>3. TurnOf(at[t] + Threads) = t
  <2>1. at[t] - 1 \in Nat /\ (at[t] + Threads) - 1 = (at[t] - 1) + Threads
    BY <1>1
  <2>2. ((at[t] - 1) + Threads) % Threads = (at[t] - 1) % Threads
    BY <1>1, <2>1, RemainderSteps
  <2> QED
    BY <1>1, <2>1, <2>2 DEF TurnOf
<1>4. Turns'
  <2>1. ASSUME NEW u \in ThreadIds
        PROVE  at'[u] \in Nat \ {0} /\ TurnOf(at'[u]) = u
    <3>1. CASE u = t
      BY <1>1, <1>2, <1>3, <3>1
    <3>2. CASE u # t
      BY <1>2, <3>2 DEF Turns
    <3> QED
      BY <3>1, <3>2
  <2> QED
    BY <1>2, <2>1 DEF Turns, TurnOf
<1>5. ASSUME NEW n \in Nat \ {0}
      PROVE  Passed(n)' <=> Passed(n) \/ n = at[t]
  <2>1. TurnOf(n) \in ThreadIds
    BY TurnIsThread
  <2>2. CASE TurnOf(n) # t
    BY <1>1, <1>2, <2>1, <2>2 DEF Passed, TurnOf
  <2>3. CASE TurnOf(n) = t
    <3>1. (Passed(n)' <=> n < at[t] + Threads) /\ (Passed(n) <=> n < at[t])
      BY <1>2, <2>3 DEF Passed, TurnOf
    <3>2. at[t] <= n /\ n < at[t] + Threads => n = at[t]
      <4> SUFFICES ASSUME at[t] <= n, n < at[t] + Threads PROVE n = at[t]
        OBVIOUS
      <4>1. /\ at[t] - 1 \in Nat /\ n - 1 \in Nat /\ at[t] - 1 <= n - 1
            /\ n - 1 < (at[t] - 1) + Threads
        BY <1>1
      <4>2. (at[t] - 1) % Threads = (n - 1) % Threads
        BY <1>1, <2>3 DEF TurnOf
      <4>3. at[t] - 1 = n - 1
        BY <1>1, <4>1, <4>2, SameRemainder
      <4> QED
        BY <1>1, <4>3
    <3> QED
      BY <1>1, <3>1, <3>2
  <2> QED
    BY <2>2, <2>3
<1> QED
  BY <1>1, <1>2, <1>4, <1>5

LEMMA AllPassed ==
  ASSUME Turns, AllEnded, Len(nets) \in Nat, NEW n \in 1..Len(nets)
  PROVE  Passed(n)
<1>1. TurnOf(n) \in ThreadIds
  BY TurnIsThread
<1>2. ~(at[TurnOf(n)] <= Len(nets)) /\ at[TurnOf(n)] \in Nat
  BY <1>1 DEF AllEnded, HasNet, Turns
<1> QED
  BY <1>2 DEF Passed

-----------------------------------------------------------------------------
(* The netlist. *)

LEMMA NetTypes ==
  ASSUME nets \in Netlists
  PROVE  /\ Len(nets) \in Nat /\ DOMAIN nets = 1..Len(nets)
         /\ \A n \in DOMAIN nets :
              /\ nets[n].sources \in Seq(Branches) /\ nets[n].stubs \in Seq(Branches)
              /\ Len(nets[n].stubs) \in Nat
              /\ DOMAIN nets[n].stubs = 1..Len(nets[n].stubs)
              /\ DOMAIN nets[n].sources = 1..Len(nets[n].sources)
<1> DEFINE R == [signal : BOOLEAN, sources : Seq(Branches), stubs : Seq(Branches)]
<1>1. nets \in Seq(R)
  BY NetlistsAssumption
<1> HIDE DEF R
<1>2. Len(nets) \in Nat /\ DOMAIN nets = 1..Len(nets) /\ \A n \in DOMAIN nets : nets[n] \in R
  BY <1>1
<1>3. ASSUME NEW n \in DOMAIN nets
      PROVE  nets[n].sources \in Seq(Branches) /\ nets[n].stubs \in Seq(Branches)
  BY <1>2 DEF R
<1> QED
  BY <1>2, <1>3

LEMMA PinsAreNodes ==
  ASSUME nets \in Netlists, NEW n \in DOMAIN nets,
         NEW branches \in {nets[n].sources, nets[n].stubs}, NEW b \in DOMAIN branches
  PROVE  Pins(branches[b]) \subseteq Nodes
BY NetlistsAssumption DEF Pins

(* What is placed for one net. *)
PairsOf(n) == {n} \X DOMAIN nets[n].stubs

LEMMA WantedPairs ==
  ASSUME nets \in Netlists
  PROVE  /\ \A p \in Wanted : /\ p[1] \in DOMAIN nets /\ Counted(nets[p[1]])
                              /\ p[2] \in DOMAIN nets[p[1]].stubs /\ p = <<p[1], p[2]>>
                              /\ p[1] \in Nat \ {0} /\ p[2] \in Nat \ {0}
         /\ \A n \in DOMAIN nets : Counted(nets[n]) =>
              \A k \in DOMAIN nets[n].stubs : <<n, k>> \in Wanted
         /\ \A n \in DOMAIN nets : Counted(nets[n]) => PairsOf(n) \subseteq Wanted
         /\ IsFiniteSet(Wanted)
<1>1. /\ DOMAIN nets = 1..Len(nets) /\ Len(nets) \in Nat
      /\ \A n \in DOMAIN nets :
           DOMAIN nets[n].stubs = 1..Len(nets[n].stubs) /\ Len(nets[n].stubs) \in Nat
  BY NetTypes
<1> DEFINE counted == {m \in DOMAIN nets : Counted(nets[m])}
<1>2. Wanted = UNION {PairsOf(n) : n \in counted}
  BY DEF Wanted, PairsOf
<1>3. ASSUME NEW p \in Wanted
      PROVE  /\ p[1] \in DOMAIN nets /\ Counted(nets[p[1]])
             /\ p[2] \in DOMAIN nets[p[1]].stubs /\ p = <<p[1], p[2]>>
  <2>1. PICK n \in counted : p \in PairsOf(n)
    BY <1>2
  <2>2. p[1] = n /\ p[2] \in DOMAIN nets[n].stubs /\ p = <<p[1], p[2]>>
    BY <2>1 DEF PairsOf
  <2> QED
    BY <2>1, <2>2
<1>4. ASSUME NEW p \in Wanted
      PROVE  p[1] \in Nat \ {0} /\ p[2] \in Nat \ {0}
  BY <1>1, <1>3
<1>5. ASSUME NEW n \in DOMAIN nets, Counted(nets[n])
      PROVE  PairsOf(n) \subseteq Wanted
  BY <1>2, <1>5
<1>6. ASSUME NEW n \in DOMAIN nets, Counted(nets[n]), NEW k \in DOMAIN nets[n].stubs
      PROVE  <<n, k>> \in Wanted
  BY <1>5, <1>6 DEF PairsOf
<1>7. IsFiniteSet(Wanted)
  <2>1. IsFiniteSet(DOMAIN nets)
    BY <1>1, FS_Interval
  <2>2. IsFiniteSet(counted)
    BY <2>1, FS_Subset
  <2>3. IsFiniteSet({PairsOf(n) : n \in counted})
    <3> DEFINE T == {PairsOf(n) : n \in counted}
               f == [n \in counted |-> PairsOf(n)]
    <3> HIDE DEF counted
    <3>1. f \in Surjection(counted, T)
      <4>1. f \in [counted -> T]
        OBVIOUS
      <4>2. \A x \in T : \E n \in counted : f[n] = x
        OBVIOUS
      <4> HIDE DEF T, f
      <4> QED
        BY <4>1, <4>2 DEF Surjection
    <3> HIDE DEF T, f
    <3>2. IsFiniteSet(T)
      BY <2>2, <3>1, FS_Surjection
    <3> QED
      BY <3>2 DEF T
  <2>4. ASSUME NEW n \in counted PROVE IsFiniteSet(PairsOf(n))
    <3>1. IsFiniteSet({n})
      BY FS_Singleton
    <3>2. Len(nets[n].stubs) \in Nat /\ DOMAIN nets[n].stubs = 1..Len(nets[n].stubs)
      BY <1>1
    <3>3. IsFiniteSet(DOMAIN nets[n].stubs)
      BY <3>2, FS_Interval
    <3> QED
      BY <3>1, <3>3, FS_Product DEF PairsOf
  <2> QED
    BY <1>2, <2>3, <2>4, FS_UNION
<1> QED
  BY <1>3, <1>4, <1>5, <1>6, <1>7

(* A net adds as many pairs as it has stubs. *)
LEMMA PairsAdded ==
  ASSUME nets \in Netlists, NEW n \in DOMAIN nets, NEW S \in SUBSET Wanted,
         \A p \in S : p[1] # n
  PROVE  /\ IsFiniteSet(S)
         /\ Cardinality(S) \in Nat
         /\ Cardinality(S \cup PairsOf(n)) = Cardinality(S) + Len(nets[n].stubs)
<1>1. Len(nets[n].stubs) \in Nat /\ DOMAIN nets[n].stubs = 1..Len(nets[n].stubs)
  BY NetTypes
<1>2. IsFiniteSet(S) /\ Cardinality(S) \in Nat
  BY WantedPairs, FS_Subset, FS_CardinalityType
<1>3. IsFiniteSet({n}) /\ Cardinality({n}) = 1
  BY FS_Singleton
<1>4. IsFiniteSet(DOMAIN nets[n].stubs) /\ Cardinality(DOMAIN nets[n].stubs) = Len(nets[n].stubs)
  BY <1>1, FS_Interval
<1>5. /\ IsFiniteSet(PairsOf(n))
      /\ Cardinality(PairsOf(n)) = 1 * Len(nets[n].stubs)
  BY <1>3, <1>4, FS_Product DEF PairsOf
<1>6. S \cap PairsOf(n) = {}
  <2> SUFFICES ASSUME NEW p \in S, p \in PairsOf(n) PROVE FALSE
    OBVIOUS
  <2>1. p[1] = n
    BY DEF PairsOf
  <2> QED
    BY <2>1
<1>7. Cardinality(S \cap PairsOf(n)) = 0
  BY <1>6, FS_EmptySet
<1>8. Cardinality(S \cup PairsOf(n))
        = Cardinality(S) + Cardinality(PairsOf(n)) - Cardinality(S \cap PairsOf(n))
  BY <1>2, <1>5, FS_Union
<1> QED
  BY <1>1, <1>2, <1>5, <1>7, <1>8

-----------------------------------------------------------------------------
(* The invariants. *)

Phases == {"count", "vecs", "block", "buffers", "done", "aborted"}

Types ==
  /\ nets \in Netlists /\ context \in Contexts /\ pc \in Phases
  /\ Turns
  /\ netCount \in Nat /\ global_stub_index \in Nat
  /\ base \in [ThreadIds -> Nat \cup {None}] /\ stub_offset \in [ThreadIds -> Nat]
  /\ node_nets = [x \in Nodes |-> node_nets[x]]
  /\ blocked = [t \in ThreadIds |-> blocked[t]]

\* The count is of the pairs of the nets counted.
CountInv ==
  /\ pc = "count" =>
       /\ netCount = Cardinality({p \in Wanted : Passed(p[1])})
       /\ global_stub_index = 0 /\ \A t \in ThreadIds : base[t] = None
  /\ pc \notin {"count", "aborted"} => netCount = Cardinality(Wanted) /\ netCount # 0

\* The net of a pair is at work, with a range of indices.
Here(p) == at[TurnOf(p[1])] = p[1] /\ base[TurnOf(p[1])] # None
Reserved(p) == Passed(p[1]) \/ Here(p)
Placed(p) == Passed(p[1]) \/ (Here(p) /\ p[2] <= stub_offset[TurnOf(p[1])])

\* Thread t has still to fill index i.
Pending(t, i) ==
  /\ base[t] # None
  /\ base[t] + stub_offset[t] <= i /\ i < base[t] + Len(Net(t).stubs)

RangeOf(t) ==
  base[t] # None => /\ HasNet(t) /\ HasStubs(Net(t))
                    /\ stub_offset[t] < Len(Net(t).stubs)
                    /\ base[t] + Len(Net(t).stubs) <= global_stub_index

\* The ranges reserved are apart, and as long as the pairs reserved are many.
RangesInv ==
  pc = "vecs" =>
    /\ global_stub_index = Cardinality({p \in Wanted : Reserved(p)})
    /\ \A t \in ThreadIds : RangeOf(t)
    /\ \A t, u \in ThreadIds : \A i \in Nat : Pending(t, i) /\ Pending(u, i) => t = u

\* Each index reserved is filled or to be filled by one thread, with each pair once.
PlacesInv ==
  pc = "vecs" =>
    /\ net_pairs = [i \in 0..(netCount - 1) |-> net_pairs[i]]
    /\ \A i \in 0..(global_stub_index - 1) :
         net_pairs[i] # None \/ \E t \in ThreadIds : Pending(t, i)
    /\ \A i \in 0..(netCount - 1) :
         net_pairs[i] # None =>
           /\ net_pairs[i] \in Wanted /\ Placed(net_pairs[i]) /\ i < global_stub_index
           /\ \A t \in ThreadIds : ~Pending(t, i)
    /\ \A p \in Wanted : Placed(p) => \E i \in 0..(netCount - 1) : net_pairs[i] = p
    /\ \A i, j \in 0..(netCount - 1) :
         net_pairs[i] # None /\ net_pairs[i] = net_pairs[j] => i = j

\* What an index has is of the pair it is for.
ItemOf(i) ==
  /\ state[i] = 0 <=> i < netCount /\ net_pairs[i] # None /\ Searched(net_pairs[i])
  /\ state[i] = 0 =>
       LET n == net_pairs[i][1] IN
       /\ stubs[i].net = n /\ stubs[i].node \in Pins(nets[n].stubs[net_pairs[i][2]])
       /\ heads[i] = infos(nets[n].sources[1])

ItemsInv ==
  pc = "vecs" =>
    /\ stubs = [i \in 0..(netCountAligned - 1) |-> stubs[i]]
    /\ heads = [i \in 0..(netCountAligned - 1) |-> heads[i]]
    /\ state = [i \in 0..(netCountAligned - 1) |-> state[i]]
    /\ \A i \in 0..(netCountAligned - 1) : ItemOf(i)

Fits(p) == ~(Searched(p) /\ Cardinality(infos(nets[p[1]].sources[1])) > BeamWidth)

BeamsInv ==
  /\ pc = "vecs" => \A p \in Wanted : Placed(p) => Fits(p)
  /\ pc \in {"block", "buffers", "done"} => \A p \in Wanted : Fits(p)

\* A node blocked belongs to a net that uses it.
BlockInv ==
  /\ pc \in {"count", "vecs"} => /\ \A x \in Nodes : node_nets[x] = None
                                 /\ \A t \in ThreadIds : blocked[t] = {}
  /\ pc = "block" =>
       /\ \A x \in Nodes : node_nets[x] # None => node_nets[x] \in Users(x)
       /\ \A n \in DOMAIN nets : Passed(n) =>
            /\ None \notin Resources(nets[n])
            /\ \A x \in Resources(nets[n]) : node_nets[x] # None
       /\ \A t \in ThreadIds : \A x \in blocked[t] : x # None /\ node_nets[x] # None

OwnersInv ==
  pc \in {"buffers", "done"} =>
    /\ Users(None) = {}
    /\ \A x \in Nodes : IF Users(x) = {} THEN node_nets[x] = None
                                         ELSE node_nets[x] \in Users(x)

SizeInv ==
  pc \notin {"count", "aborted"} =>
    /\ workgroup_counts = Counts /\ workgroup_offsets = Offsets(Counts)
    /\ LET possible == context.mem \div (netCountAligned * 4)
       IN  ocl_counter_max = IF possible > LargestCount THEN LargestCount ELSE possible

-----------------------------------------------------------------------------
(* Types. *)

LEMMA TypesInit == Init => Types
<1> SUFFICES ASSUME Init PROVE Types
  OBVIOUS
<1>1. Turns
  BY StartTurns DEF Init, Turns
<1> QED
  BY <1>1 DEF Init, Types, Phases

LEMMA ThreadSteps ==
  ASSUME Types, NEW t \in ThreadIds, Thread(t)
  PROVE  /\ UNCHANGED <<nets, context, ocl_counter_max, workgroup_counts, workgroup_offsets>>
         /\ pc' \in {pc, "aborted"}
         /\ at' # at => Further(t)
BY DEF Types, Thread, CountStubs, SkipNet, Reserve, FillStub, Block, EndNet, Abort

LEMMA TypesNext ==
  ASSUME Types, [Next]_vars
  PROVE  Types'
<1>1. CASE UNCHANGED vars
  BY <1>1 DEF Types, Turns, TurnOf
<1>2. CASE Main
  <2>1. nets' \in Netlists /\ context' \in Contexts /\ pc' \in Phases
    BY <1>2 DEF Main, EndCount, EndVecs, EndBlock, SetupBuffers, Abort, Types, Phases
  <2>2. at' = Starts \/ at' = at
    BY <1>2 DEF Main, EndCount, EndVecs, EndBlock, SetupBuffers
  <2>3. Turns'
    <3>1. CASE at' = Starts
      BY <3>1, StartTurns DEF Turns, TurnOf
    <3>2. CASE at' = at
      BY <3>2 DEF Types, Turns, TurnOf
    <3> QED
      BY <2>2, <3>1, <3>2
  <2>4. UNCHANGED <<netCount, global_stub_index, base, stub_offset, node_nets, blocked>>
    BY <1>2 DEF Main, EndCount, EndVecs, EndBlock, SetupBuffers
  <2> QED
    BY <2>1, <2>3, <2>4 DEF Types
<1>3. ASSUME NEW t \in ThreadIds, Thread(t) PROVE Types'
  <2>1. nets' \in Netlists /\ context' \in Contexts /\ pc' \in Phases
    BY <1>3, ThreadSteps DEF Types, Phases
  <2>2. Turns'
    <3>1. CASE at' = at
      BY <3>1 DEF Types, Turns, TurnOf
    <3>2. CASE at' # at
      BY <1>3, <3>2, ThreadSteps, FurtherPasses DEF Types
    <3> QED
      BY <3>1, <3>2
  <2>3. \A n \in DOMAIN nets : Len(nets[n].stubs) \in Nat
    BY NetTypes DEF Types
  <2>4. HasNet(t) => Len(Net(t).stubs) \in Nat
    <3>1. DOMAIN nets = 1..Len(nets) /\ Len(nets) \in Nat /\ at[t] \in Nat \ {0}
      BY NetTypes DEF Types, Turns
    <3> QED
      BY <2>3, <3>1 DEF HasNet, Net
  <2>5. netCount' \in Nat
    BY <1>3, <2>4 DEF Thread, CountStubs, SkipNet, Reserve, FillStub, Block, EndNet, Types
  <2>6. global_stub_index' \in Nat
    BY <1>3, <2>4 DEF Thread, CountStubs, SkipNet, Reserve, FillStub, Block, EndNet, Types, Takes
  <2>7. base' \in [ThreadIds -> Nat \cup {None}]
    BY <1>3 DEF Thread, CountStubs, SkipNet, Reserve, FillStub, Block, EndNet, Types
  <2>8. stub_offset' \in [ThreadIds -> Nat]
    <3>1. CASE FillStub(t)
      <4>1. stub_offset' = [stub_offset EXCEPT ![t] = @ + 1]
        BY <3>1 DEF FillStub
      <4> QED
        BY <4>1 DEF Types
    <3>2. CASE Reserve(t)
      BY <3>2 DEF Reserve, Types
    <3>3. CASE UNCHANGED stub_offset
      BY <3>3 DEF Types
    <3> QED
      BY <1>3, <3>1, <3>2, <3>3 DEF Thread, CountStubs, SkipNet, Block, EndNet
  <2>9. node_nets' = [x \in Nodes |-> node_nets'[x]] /\ blocked' = [u \in ThreadIds |-> blocked'[u]]
    BY <1>3 DEF Thread, CountStubs, SkipNet, Reserve, FillStub, Block, EndNet, Types
  <2> QED
    BY <2>1, <2>2, <2>5, <2>6, <2>7, <2>8, <2>9 DEF Types
<1>4. CASE Ended
  BY <1>4 DEF Ended, Types, Turns, TurnOf
<1> QED
  BY <1>1, <1>2, <1>3, <1>4 DEF Next

(* What depends on the netlist alone. *)
LEMMA SameNets ==
  ASSUME nets' = nets
  PROVE  /\ Wanted' = Wanted
         /\ \A p : Searched(p)' <=> Searched(p)
         /\ \A p : Fits(p)' <=> Fits(p)
         /\ \A x : Users(x)' = Users(x)
BY DEF Wanted, Searched, Fits, Users

-----------------------------------------------------------------------------
(* The count. *)

(* The net a thread is at. *)
LEMMA NetOfThread ==
  ASSUME Types, NEW t \in ThreadIds, HasNet(t)
  PROVE  /\ at[t] \in DOMAIN nets /\ at[t] \in Nat \ {0} /\ TurnOf(at[t]) = t
         /\ ~Passed(at[t]) /\ Net(t) = nets[at[t]]
         /\ Len(Net(t).stubs) \in Nat
         /\ DOMAIN Net(t).stubs = 1..Len(Net(t).stubs)
<1>1. /\ DOMAIN nets = 1..Len(nets) /\ Len(nets) \in Nat
      /\ at[t] \in Nat \ {0} /\ TurnOf(at[t]) = t
  BY NetTypes DEF Types, Turns
<1>2. at[t] \in DOMAIN nets
  BY <1>1 DEF HasNet
<1>3. Len(nets[at[t]].stubs) \in Nat /\ DOMAIN nets[at[t]].stubs = 1..Len(nets[at[t]].stubs)
  BY <1>2, NetTypes DEF Types
<1> QED
  BY <1>1, <1>2, <1>3 DEF Net, Passed

LEMMA AllPairsPassed ==
  ASSUME Types, AllEnded
  PROVE  \A p \in Wanted : Passed(p[1])
<1> SUFFICES ASSUME NEW p \in Wanted PROVE Passed(p[1])
  OBVIOUS
<1>1. p[1] \in 1..Len(nets) /\ Len(nets) \in Nat
  BY WantedPairs, NetTypes DEF Types
<1> QED
  BY <1>1, AllPassed DEF Types

LEMMA CountInvInit == Init => CountInv
<1> SUFFICES ASSUME Init PROVE CountInv
  OBVIOUS
<1>1. nets \in Netlists /\ at = Starts /\ netCount = 0 /\ pc = "count"
      /\ global_stub_index = 0 /\ base = [t \in ThreadIds |-> None]
  BY DEF Init
<1>2. ASSUME NEW p \in Wanted PROVE ~Passed(p[1])
  <2>1. p[1] \in Nat \ {0}
    BY <1>1, WantedPairs
  <2> QED
    BY <1>1, <2>1, StartTurns DEF Passed
<1>3. {p \in Wanted : Passed(p[1])} = {}
  BY <1>2
<1>4. Cardinality({p \in Wanted : Passed(p[1])}) = 0
  BY <1>3, FS_EmptySet
<1> QED
  BY <1>1, <1>4 DEF CountInv

LEMMA CountInvNext ==
  ASSUME Types, CountInv, [Next]_vars
  PROVE  CountInv'
<1>0. nets' = nets
  BY DEF Next, Main, EndCount, EndVecs, EndBlock, SetupBuffers, Thread, CountStubs, SkipNet,
    Reserve, FillStub, Block, EndNet, Ended
<1>a. Wanted' = Wanted
  BY <1>0, SameNets
<1>1. ASSUME NEW t \in ThreadIds, CountStubs(t) PROVE CountInv'
  <2> DEFINE n == at[t]
             S == {p \in Wanted : Passed(p[1])}
             T == {p \in Wanted : Passed(p[1])'}
  <2>1. pc = "count" /\ pc' = "count" /\ HasNet(t) /\ Further(t)
        /\ global_stub_index' = global_stub_index /\ base' = base
    BY <1>1 DEF CountStubs
  <2>2. /\ n \in DOMAIN nets /\ n \in Nat \ {0} /\ ~Passed(n) /\ Net(t) = nets[n]
        /\ Len(nets[n].stubs) \in Nat
    BY <2>1, NetOfThread
  <2>3. ASSUME NEW p \in Wanted PROVE Passed(p[1])' <=> Passed(p[1]) \/ p[1] = n
    <3>1. p[1] \in Nat \ {0}
      BY WantedPairs DEF Types
    <3> QED
      BY <2>1, <3>1, FurtherPasses DEF Types
  <2>4. \A p \in S : p[1] # n
    BY <2>2
  <2>5. netCount = Cardinality(S) /\ netCount \in Nat
    BY <2>1 DEF CountInv, Types
  <2>6. CASE Counted(nets[n])
    <3>1. T = S \cup PairsOf(n)
      <4>1. \A p \in PairsOf(n) : p \in Wanted /\ p[1] = n
        BY <2>2, <2>6, WantedPairs DEF PairsOf, Types
      <4>2. ASSUME NEW p \in Wanted, p[1] = n PROVE p \in PairsOf(n)
        <5>1. p[2] \in DOMAIN nets[n].stubs /\ p = <<n, p[2]>>
          BY <4>2, WantedPairs DEF Types
        <5> QED
          BY <5>1 DEF PairsOf
      <4> QED
        BY <2>3, <4>1, <4>2
    <3>2. Cardinality(S \cup PairsOf(n)) = Cardinality(S) + Len(nets[n].stubs)
      BY <2>2, <2>4, PairsAdded DEF Types
    <3>3. netCount' = netCount + Len(nets[n].stubs)
      BY <1>1, <2>2, <2>6 DEF CountStubs
    <3>4. netCount' = Cardinality(T)
      BY <2>5, <3>1, <3>2, <3>3
    <3> QED
      BY <1>a, <2>1, <3>4 DEF CountInv
  <2>7. CASE ~Counted(nets[n])
    <3>1. ASSUME NEW p \in Wanted PROVE p[1] # n
      BY <2>7, WantedPairs DEF Types
    <3>2. T = S
      BY <2>3, <3>1
    <3>3. netCount' = netCount + 0
      BY <1>1, <2>2, <2>7 DEF CountStubs
    <3>4. netCount' = Cardinality(T)
      <4>1. netCount' = netCount
        BY <2>5, <3>3
      <4> HIDE DEF S, T
      <4> QED
        BY <2>5, <3>2, <4>1
    <3> QED
      BY <1>a, <2>1, <3>4 DEF CountInv
  <2> QED
    BY <2>6, <2>7
<1>2. CASE EndCount
  <2>1. pc = "count" /\ AllEnded /\ netCount' = netCount /\ pc' \in {"vecs", "aborted"}
        /\ (pc' = "vecs" => netCount # 0)
    BY <1>2 DEF EndCount, Abort
  <2>2. {p \in Wanted : Passed(p[1])} = Wanted
    BY <2>1, AllPairsPassed
  <2>3. netCount = Cardinality(Wanted)
    BY <2>1, <2>2 DEF CountInv
  <2> QED
    BY <1>a, <2>1, <2>3 DEF CountInv
<1>3. CASE /\ netCount' = netCount
           /\ pc # "count" /\ pc' # "count" /\ (pc = "aborted" => pc' = "aborted")
  BY <1>3, <1>a DEF CountInv
<1>4. CASE UNCHANGED vars
  <2>1. \A p : Passed(p[1])' <=> Passed(p[1])
    BY <1>4 DEF Passed, TurnOf
  <2> QED
    BY <1>a, <1>4, <2>1 DEF CountInv
<1>5. CASE EndVecs \/ EndBlock \/ SetupBuffers
  BY <1>3, <1>5 DEF EndVecs, EndBlock, SetupBuffers, Abort
<1>6. ASSUME NEW t \in ThreadIds, SkipNet(t) \/ Reserve(t) \/ FillStub(t) \/ Block(t) \/ EndNet(t)
      PROVE  CountInv'
  <2>1. pc \in {"vecs", "block"} /\ pc' \in {pc, "aborted"} /\ netCount' = netCount
    BY <1>6 DEF SkipNet, Reserve, FillStub, Block, EndNet, Takes, Abort
  <2> QED
    BY <1>3, <2>1
<1> QED
  BY <1>1, <1>2, <1>4, <1>5, <1>6 DEF Next, Main, Thread, Ended

-----------------------------------------------------------------------------
(* The owners of nodes. *)

LEMMA UsersAreUsers ==
  ASSUME NEW n \in DOMAIN nets
  PROVE  \A x : x \in Resources(nets[n]) <=> n \in Users(x)
<1>1. ASSUME NEW x, x \in Resources(nets[n]) PROVE n \in Users(x)
  <2>1. PICK branches \in {nets[n].sources, nets[n].stubs} : x \in NodesOf(branches)
    BY <1>1 DEF Resources
  <2>2. PICK b \in DOMAIN branches :
          x \in UNION {{branches[b][k].nodes[i] : i \in DOMAIN branches[b][k].nodes} :
                         k \in DOMAIN branches[b]}
    BY <2>1 DEF NodesOf
  <2>3. PICK k \in DOMAIN branches[b] :
          x \in {branches[b][k].nodes[i] : i \in DOMAIN branches[b][k].nodes}
    BY <2>2
  <2> QED
    BY <2>2, <2>3 DEF Users
<1>2. ASSUME NEW x, n \in Users(x) PROVE x \in Resources(nets[n])
  <2>1. PICK branches \in {nets[n].sources, nets[n].stubs} :
          \E b \in DOMAIN branches : \E k \in DOMAIN branches[b] :
            \E i \in DOMAIN branches[b][k].nodes : x = branches[b][k].nodes[i]
    BY <1>2 DEF Users
  <2>2. x \in NodesOf(branches)
    BY <2>1 DEF NodesOf
  <2> QED
    BY <2>2 DEF Resources
<1> QED
  BY <1>1, <1>2

(* What a net uses are nodes, or None. *)
LEMMA ResourcesAreNodes ==
  ASSUME nets \in Netlists, NEW n \in DOMAIN nets
  PROVE  Resources(nets[n]) \subseteq Nodes \cup {None}
<1> SUFFICES ASSUME NEW branches \in {nets[n].sources, nets[n].stubs}, NEW b \in DOMAIN branches,
                    NEW k \in DOMAIN branches[b], NEW i \in DOMAIN branches[b][k].nodes
             PROVE  branches[b][k].nodes[i] \in Nodes \cup {None}
  <2>1. \A x : n \in Users(x) => x \in Nodes \cup {None}
    BY DEF Users
  <2> QED
    BY <2>1, UsersAreUsers
<1>1. branches \in Seq(Branches)
  BY NetTypes
<1>2. branches[b] \in Branches
  BY <1>1
<1>3. branches[b][k] \in Segments
  BY <1>2 DEF Branches
<1>4. branches[b][k].nodes \in Seq(Nodes \cup {None})
  BY <1>3 DEF Segments
<1> QED
  BY <1>4

LEMMA BlockInvInit == Init => BlockInv
BY DEF Init, BlockInv

LEMMA BlockInvNext ==
  ASSUME Types, BlockInv, [Next]_vars
  PROVE  BlockInv'
<1>0. nets' = nets
  BY DEF Next, Main, EndCount, EndVecs, EndBlock, SetupBuffers, Thread, CountStubs, SkipNet,
    Reserve, FillStub, Block, EndNet, Ended
<1>a. /\ \A x : Users(x)' = Users(x)
      /\ \A n : Resources(nets[n])' = Resources(nets[n])
  BY <1>0, SameNets DEF Resources, NodesOf
<1>1. CASE UNCHANGED owners /\ pc' \notin {"block"} /\ (pc' \in {"count", "vecs"} => pc \in {"count", "vecs"})
  BY <1>1 DEF BlockInv
<1>2. CASE EndVecs
  <2>1. CASE pc' = "block"
    <3>1. pc = "vecs" /\ UNCHANGED owners /\ at' = Starts
      BY <1>2, <2>1 DEF EndVecs, Abort
    <3>2. ASSUME NEW n \in DOMAIN nets PROVE ~Passed(n)'
      <4>1. n \in Nat \ {0}
        BY NetTypes DEF Types
      <4> QED
        BY <3>1, <4>1, StartTurns DEF Passed, TurnOf
    <3> QED
      BY <1>0, <2>1, <3>1, <3>2 DEF BlockInv
  <2>2. CASE pc' # "block"
    BY <1>1, <1>2, <2>2 DEF EndVecs, Abort
  <2> QED
    BY <2>1, <2>2
<1>3. ASSUME NEW t \in ThreadIds, Block(t) PROVE BlockInv'
  <2>1. pc = "block" /\ HasNet(t) /\ at' = at
    BY <1>3 DEF Block
  <2>2. at[t] \in DOMAIN nets /\ at[t] \in Nat /\ Net(t) = nets[at[t]]
    BY <2>1, NetOfThread
  <2>3. PICK node \in Resources(Net(t)) \ blocked[t] :
          IF node = None THEN Abort /\ UNCHANGED owners
          ELSE /\ node_nets' = [node_nets EXCEPT ![node] = at[t]]
               /\ blocked' = [blocked EXCEPT ![t] = @ \cup {node}]
               /\ UNCHANGED pc
    BY <1>3 DEF Block
  <2>4. CASE node = None
    BY <1>1, <2>3, <2>4 DEF Abort
  <2>5. CASE node # None
    <3>1. node \in Nodes /\ at[t] \in Users(node)
      BY <2>2, <2>3, <2>5, ResourcesAreNodes, UsersAreUsers DEF Types
    <3>2. /\ node_nets' = [node_nets EXCEPT ![node] = at[t]]
          /\ blocked' = [blocked EXCEPT ![t] = @ \cup {node}] /\ pc' = "block"
      BY <2>1, <2>3, <2>5
    <3>3. /\ node_nets'[node] = at[t] /\ at[t] # None
          /\ \A x \in Nodes \ {node} : node_nets'[x] = node_nets[x]
      BY <2>2, <3>1, <3>2, NodeSetupAssumption DEF Types
    <3>4. ASSUME NEW x \in Nodes, node_nets'[x] # None PROVE node_nets'[x] \in Users(x)'
      <4>1. CASE x = node
        BY <1>a, <3>1, <3>3, <4>1
      <4>2. CASE x # node
        BY <1>a, <2>1, <3>3, <3>4, <4>2 DEF BlockInv
      <4> QED
        BY <4>1, <4>2
    <3>5. ASSUME NEW x \in Nodes, node_nets[x] # None PROVE node_nets'[x] # None
      BY <3>3, <3>5
    <3>6. ASSUME NEW n \in DOMAIN nets', Passed(n)'
          PROVE  /\ None \notin Resources(nets[n])'
                 /\ \A x \in Resources(nets[n])' : node_nets'[x] # None
      <4>1. Passed(n) /\ n \in DOMAIN nets
        BY <1>0, <2>1, <3>6 DEF Passed, TurnOf
      <4>2. /\ None \notin Resources(nets[n])
            /\ \A x \in Resources(nets[n]) : node_nets[x] # None
        BY <2>1, <4>1 DEF BlockInv
      <4>3. Resources(nets[n]) \subseteq Nodes
        BY <4>1, <4>2, ResourcesAreNodes DEF Types
      <4> QED
        BY <1>a, <3>5, <4>2, <4>3
    <3>7. ASSUME NEW u \in ThreadIds, NEW x \in blocked'[u]
          PROVE  x # None /\ node_nets'[x] # None
      <4>1. x = node \/ (x \in blocked[u] /\ x # node)
        BY <3>2 DEF Types
      <4>2. CASE x = node
        BY <2>5, <3>3, <4>2
      <4>3. CASE x \in blocked[u] /\ x # node
        <5>1. x # None /\ node_nets[x] # None
          BY <2>1, <4>3 DEF BlockInv
        <5>2. node_nets' = [y \in Nodes |-> IF y = node THEN at[t] ELSE node_nets[y]]
          BY <3>2 DEF Types
        <5>3. node_nets'[x] = node_nets[x]
          BY <3>2, <4>3 DEF Types
        <5> QED
          BY <5>1, <5>3
      <4> QED
        BY <4>1, <4>2, <4>3
    <3> QED
      BY <3>2, <3>4, <3>6, <3>7 DEF BlockInv
  <2> QED
    BY <2>4, <2>5
<1>4. ASSUME NEW t \in ThreadIds, EndNet(t) PROVE BlockInv'
  <2>1. /\ pc = "block" /\ pc' = "block" /\ HasNet(t) /\ Resources(Net(t)) \subseteq blocked[t]
        /\ Further(t) /\ node_nets' = node_nets /\ blocked' = [blocked EXCEPT ![t] = {}]
    BY <1>4 DEF EndNet
  <2>2. at[t] \in DOMAIN nets /\ at[t] \in Nat /\ Net(t) = nets[at[t]]
    BY <2>1, NetOfThread
  <2>3. ASSUME NEW n \in DOMAIN nets', Passed(n)'
        PROVE  /\ None \notin Resources(nets[n])'
               /\ \A x \in Resources(nets[n])' : node_nets'[x] # None
    <3>1. n \in Nat \ {0} /\ n \in DOMAIN nets
      BY <1>0, NetTypes DEF Types
    <3>2. Passed(n) \/ n = at[t]
      BY <2>1, <2>3, <3>1, FurtherPasses DEF Types
    <3>3. CASE Passed(n)
      BY <1>a, <2>1, <3>1, <3>3 DEF BlockInv
    <3>4. CASE n = at[t]
      <4>1. \A x \in Resources(nets[n]) : x # None /\ node_nets[x] # None
        BY <2>1, <2>2, <3>4 DEF BlockInv
      <4> QED
        BY <1>a, <2>1, <4>1
    <3> QED
      BY <3>2, <3>3, <3>4
  <2>4. ASSUME NEW u \in ThreadIds, NEW x \in blocked'[u]
        PROVE  x # None /\ node_nets'[x] # None
    <3>1. x \in blocked[u]
      BY <2>1, <2>4 DEF Types
    <3> QED
      BY <2>1, <3>1 DEF BlockInv
  <2>5. \A x \in Nodes : node_nets'[x] # None => node_nets'[x] \in Users(x)'
    BY <1>a, <2>1 DEF BlockInv
  <2> QED
    BY <2>1, <2>3, <2>4, <2>5 DEF BlockInv
<1>5. CASE UNCHANGED <<pc, at, blocked, node_nets>> /\ pc = "block"
  <2>1. \A n : Passed(n)' <=> Passed(n)
    BY <1>5 DEF Passed, TurnOf
  <2> QED
    BY <1>0, <1>a, <1>5, <2>1 DEF BlockInv
<1>6. CASE EndCount \/ EndBlock \/ SetupBuffers
  BY <1>1, <1>6 DEF EndCount, EndBlock, SetupBuffers, Abort
<1>7. ASSUME NEW t \in ThreadIds, CountStubs(t) \/ SkipNet(t) \/ Reserve(t) \/ FillStub(t)
      PROVE  BlockInv'
  BY <1>1, <1>7 DEF CountStubs, SkipNet, Reserve, FillStub, Takes, Abort
<1>8. CASE UNCHANGED vars
  BY <1>1, <1>5, <1>8
<1> QED
  BY <1>2, <1>3, <1>4, <1>6, <1>7, <1>8 DEF Next, Main, Thread, Ended

LEMMA OwnersInvNext ==
  ASSUME Types, BlockInv, OwnersInv, [Next]_vars
  PROVE  OwnersInv'
<1>0. nets' = nets
  BY DEF Next, Main, EndCount, EndVecs, EndBlock, SetupBuffers, Thread, CountStubs, SkipNet,
    Reserve, FillStub, Block, EndNet, Ended
<1>a. \A x : Users(x)' = Users(x)
  BY <1>0, SameNets
<1>1. CASE EndBlock
  <2>1. pc = "block" /\ AllEnded /\ node_nets' = node_nets
    BY <1>1 DEF EndBlock
  <2>2. ASSUME NEW n \in DOMAIN nets
        PROVE  /\ None \notin Resources(nets[n])
               /\ \A x \in Resources(nets[n]) : node_nets[x] # None
    <3>1. Len(nets) \in Nat /\ n \in 1..Len(nets)
      BY NetTypes DEF Types
    <3>2. Passed(n)
      BY <2>1, <3>1, AllPassed DEF Types
    <3> QED
      BY <2>1, <3>2 DEF BlockInv
  <2>3. \A x : Users(x) \subseteq DOMAIN nets
    BY DEF Users
  <2>4. Users(None) = {}
    BY <2>2, <2>3, UsersAreUsers
  <2>5. ASSUME NEW x \in Nodes
        PROVE  IF Users(x) = {} THEN node_nets[x] = None ELSE node_nets[x] \in Users(x)
    <3>1. node_nets[x] # None => node_nets[x] \in Users(x)
      BY <2>1 DEF BlockInv
    <3>2. CASE Users(x) = {}
      BY <3>1, <3>2
    <3>3. CASE Users(x) # {}
      <4>1. PICK n \in Users(x) : TRUE
        BY <3>3
      <4>2. x \in Resources(nets[n]) /\ n \in DOMAIN nets
        BY <2>3, <4>1, UsersAreUsers
      <4> QED
        BY <2>2, <3>1, <3>3, <4>2
    <3> QED
      BY <3>2, <3>3
  <2> QED
    BY <1>a, <2>1, <2>4, <2>5 DEF OwnersInv
<1>2. CASE pc' \notin {"buffers", "done"}
  BY <1>2 DEF OwnersInv
<1>3. CASE pc \in {"buffers", "done"} /\ UNCHANGED node_nets
  BY <1>a, <1>3 DEF OwnersInv
<1>4. CASE EndCount \/ EndVecs \/ \E t \in ThreadIds : Thread(t)
  BY <1>2, <1>4 DEF EndCount, EndVecs, Thread, CountStubs, SkipNet, Reserve, FillStub,
    Block, EndNet, Takes, Abort
<1>5. CASE SetupBuffers \/ Ended \/ UNCHANGED vars
  BY <1>2, <1>3, <1>5 DEF SetupBuffers, Ended, Abort
<1> QED
  BY <1>1, <1>4, <1>5 DEF Next, Main

LEMMA OwnersInvInit == Init => OwnersInv
BY DEF Init, OwnersInv

-----------------------------------------------------------------------------
(* The places of the stubs. *)

VecsInv == RangesInv /\ PlacesInv /\ ItemsInv /\ BeamsInv

(* There is an item for each index of a stub. *)
LEMMA Aligned ==
  ASSUME Types
  PROVE  netCountAligned \in Nat /\ netCount <= netCountAligned
         /\ groupCount \in Nat /\ netCountAligned = groupCount * GroupSize
         /\ groupCount = (netCount + GroupSize - 1) \div GroupSize
<1> DEFINE a == netCount + GroupSize - 1
           c == a \div GroupSize
<1>1. GroupSize \in Nat \ {0} /\ netCount \in Nat
  BY NodeSetupAssumption DEF Types
<1>2. a \in Nat
  BY <1>1
<1>3. c \in Nat /\ c * GroupSize <= a /\ a < c * GroupSize + GroupSize
  BY <1>1, <1>2, Quotient
<1>4. netCountAligned = c * GroupSize
  BY DEF netCountAligned
<1> HIDE DEF c
<1>5. c * GroupSize \in Nat
  BY <1>1, <1>3, Product
<1>6. netCount <= c * GroupSize
  BY <1>1, <1>3, <1>5
<1>7. netCountAligned < c * GroupSize + GroupSize /\ c * GroupSize <= netCountAligned
  BY <1>1, <1>4, <1>5
<1>8. netCountAligned \div GroupSize = c
  BY <1>1, <1>3, <1>4, <1>5, <1>7, QuotientIs
<1>9. groupCount = c
  BY <1>8 DEF groupCount
<1>10. c = (netCount + GroupSize - 1) \div GroupSize
  BY DEF c
<1> QED
  BY <1>3, <1>4, <1>5, <1>6, <1>9, <1>10

LEMMA VecsInvInit == Init => VecsInv
BY DEF Init, VecsInv, RangesInv, PlacesInv, ItemsInv, BeamsInv

LEMMA VecsInvEndCount ==
  ASSUME Types, CountInv, EndCount
  PROVE  VecsInv'
<1>1. CASE pc' # "vecs"
  BY <1>1 DEF EndCount, Abort, VecsInv, RangesInv, PlacesInv, ItemsInv, BeamsInv
<1>2. CASE pc' = "vecs"
  <2>1. /\ nets' = nets /\ at' = Starts /\ netCount' = netCount
        /\ net_pairs' = [i \in 0..(netCount - 1) |-> None]
        /\ stubs' = [i \in 0..(netCountAligned - 1) |-> None]
        /\ heads' = [i \in 0..(netCountAligned - 1) |-> {}]
        /\ state' = [i \in 0..(netCountAligned - 1) |-> 1]
        /\ UNCHANGED <<base, stub_offset, global_stub_index>>
        /\ pc = "count"
    BY <1>2 DEF EndCount, Abort
  <2>2. global_stub_index = 0 /\ \A t \in ThreadIds : base[t] = None
    BY <2>1 DEF CountInv
  <2>3. netCountAligned' = netCountAligned
    BY <2>1 DEF netCountAligned
  <2>4. Wanted' = Wanted
    BY <2>1, SameNets
  <2>5. ASSUME NEW p \in Wanted PROVE ~Passed(p[1])' /\ ~Here(p)'
    <3>1. p[1] \in Nat \ {0}
      BY WantedPairs DEF Types
    <3>2. TurnOf(p[1]) \in ThreadIds
      BY <3>1, TurnIsThread
    <3>3. ~(p[1] < Starts[TurnOf(p[1])])
      BY <3>1, StartTurns
    <3> QED
      BY <2>1, <2>2, <3>2, <3>3 DEF Passed, Here, TurnOf
  <2>6. \A t \in ThreadIds : \A i : ~Pending(t, i)'
    BY <2>1, <2>2 DEF Pending
  <2>7. RangesInv'
    <3>1. {p \in Wanted : Reserved(p)'} = {}
      BY <2>5 DEF Reserved
    <3>2. Cardinality({p \in Wanted : Reserved(p)'}) = 0
      BY <3>1, FS_EmptySet
    <3>3. \A t \in ThreadIds : RangeOf(t)'
      BY <2>1, <2>2 DEF RangeOf
    <3> QED
      BY <2>1, <2>2, <2>4, <2>6, <3>2, <3>3 DEF RangesInv
  <2>8. PlacesInv'
    <3>1. ~\E i \in 0..(global_stub_index' - 1) : TRUE
      BY <2>1, <2>2
    <3>2. \A i \in 0..(netCount' - 1) : net_pairs'[i] = None
      BY <2>1
    <3>3. \A p \in Wanted : ~Placed(p)'
      BY <2>5 DEF Placed
    <3>4. net_pairs' = [i \in 0..(netCount' - 1) |-> net_pairs'[i]]
      BY <2>1
    <3> QED
      BY <2>4, <3>1, <3>2, <3>3, <3>4 DEF PlacesInv
  <2>9. ItemsInv'
    <3>1. /\ stubs' = [i \in 0..(netCountAligned - 1) |-> stubs'[i]]
          /\ heads' = [i \in 0..(netCountAligned - 1) |-> heads'[i]]
          /\ state' = [i \in 0..(netCountAligned - 1) |-> state'[i]]
      BY <2>1
    <3>2. netCount \in Nat
      BY DEF Types
    <3>3. ASSUME NEW i \in 0..(netCountAligned - 1) PROVE ItemOf(i)'
      <4>1. state'[i] = 1
        BY <2>1
      <4>2. i < netCount' => net_pairs'[i] = None
        BY <2>1, <3>2, Aligned
      <4> QED
        BY <4>1, <4>2 DEF ItemOf
    <3> QED
      BY <2>3, <3>1, <3>3 DEF ItemsInv
  <2>10. BeamsInv'
    <3>1. \A p \in Wanted : ~Placed(p)'
      BY <2>5 DEF Placed
    <3> QED
      BY <1>2, <2>4, <3>1 DEF BeamsInv
  <2> QED
    BY <2>7, <2>8, <2>9, <2>10 DEF VecsInv
<1> QED
  BY <1>1, <1>2

(* A pair is reserved or placed by the thread whose turn its net is. *)
LEMMA WantedTurns ==
  ASSUME nets \in Netlists, NEW p \in Wanted
  PROVE  p[1] \in Nat \ {0} /\ TurnOf(p[1]) \in ThreadIds
BY WantedPairs, TurnIsThread

LEMMA VecsKept ==
  ASSUME Types, VecsInv, nets' = nets, pc = "vecs", pc' = "vecs",
         UNCHANGED <<netCount, global_stub_index, net_pairs, stubs, heads, state>>,
         \A p \in Wanted : (Reserved(p)' <=> Reserved(p)) /\ (Placed(p)' <=> Placed(p)),
         \A t \in ThreadIds : \A i : Pending(t, i)' <=> Pending(t, i),
         \A t \in ThreadIds : RangeOf(t)'
  PROVE  VecsInv'
<1>1. Wanted' = Wanted /\ netCountAligned' = netCountAligned
      /\ \A p : (Searched(p)' <=> Searched(p)) /\ (Fits(p)' <=> Fits(p))
  BY SameNets DEF netCountAligned
<1>2. RangesInv'
  <2>1. {p \in Wanted : Reserved(p)'} = {p \in Wanted : Reserved(p)}
    OBVIOUS
  <2>2. global_stub_index' = Cardinality({p \in Wanted' : Reserved(p)'})
    BY <1>1, <2>1 DEF VecsInv, RangesInv
  <2> QED
    BY <2>2 DEF VecsInv, RangesInv
<1>3. PlacesInv'
  BY <1>1 DEF VecsInv, PlacesInv
<1>4. ItemsInv'
  <2>1. ASSUME NEW i \in 0..(netCountAligned - 1) PROVE ItemOf(i)'
    <3>1. ItemOf(i)
      BY DEF VecsInv, ItemsInv
    <3> QED
      BY <1>1, <3>1 DEF ItemOf
  <2> QED
    BY <1>1, <2>1 DEF VecsInv, ItemsInv
<1>5. BeamsInv'
  BY <1>1 DEF VecsInv, BeamsInv
<1> QED
  BY <1>2, <1>3, <1>4, <1>5 DEF VecsInv

LEMMA VecsInvSkipNet ==
  ASSUME Types, VecsInv, NEW t \in ThreadIds, SkipNet(t)
  PROVE  VecsInv'
<1>1. /\ nets' = nets /\ pc = "vecs" /\ pc' = "vecs" /\ HasNet(t) /\ base[t] = None
      /\ ~HasStubs(Net(t)) /\ Further(t)
      /\ UNCHANGED <<netCount, global_stub_index, net_pairs, stubs, heads, state, base, stub_offset>>
  BY DEF SkipNet, Takes
<1>2. /\ at[t] \in DOMAIN nets /\ at[t] \in Nat \ {0} /\ TurnOf(at[t]) = t
      /\ ~Passed(at[t]) /\ Net(t) = nets[at[t]]
  BY <1>1, NetOfThread
<1>3. \A u \in ThreadIds \ {t} : at'[u] = at[u]
  BY <1>1, FurtherPasses DEF Types
<1>4. ASSUME NEW p \in Wanted PROVE p[1] # at[t]
  <2> SUFFICES ASSUME p[1] = at[t] PROVE FALSE
    OBVIOUS
  <2>1. Counted(nets[at[t]]) /\ p[2] \in DOMAIN nets[at[t]].stubs
    BY WantedPairs DEF Types
  <2>2. nets[at[t]].stubs # <<>>
    BY <2>1
  <2> QED
    BY <1>1, <1>2, <2>1, <2>2 DEF HasStubs
<1>5. ASSUME NEW p \in Wanted
      PROVE  (Passed(p[1])' <=> Passed(p[1])) /\ (Here(p)' <=> Here(p))
  <2>1. p[1] \in Nat \ {0} /\ TurnOf(p[1]) \in ThreadIds
    BY WantedTurns DEF Types
  <2>2. Passed(p[1])' <=> Passed(p[1]) \/ p[1] = at[t]
    BY <1>1, <2>1, FurtherPasses DEF Types
  <2>3. Passed(p[1])' <=> Passed(p[1])
    BY <1>4, <2>2
  <2>4. CASE TurnOf(p[1]) = t
    BY <1>1, <2>3, <2>4 DEF Here, TurnOf
  <2>5. CASE TurnOf(p[1]) # t
    BY <1>1, <1>3, <2>1, <2>3, <2>5 DEF Here, TurnOf
  <2> QED
    BY <2>4, <2>5
<1>6. ASSUME NEW p \in Wanted
      PROVE  (Reserved(p)' <=> Reserved(p)) /\ (Placed(p)' <=> Placed(p))
  BY <1>1, <1>5 DEF Reserved, Placed, TurnOf
<1>7. ASSUME NEW u \in ThreadIds, NEW i
      PROVE  (Pending(u, i)' <=> Pending(u, i)) /\ RangeOf(u)'
  <2>1. CASE u = t
    BY <1>1, <2>1 DEF Pending, RangeOf
  <2>2. CASE u # t
    <3>1. RangeOf(u)
      BY <1>1 DEF VecsInv, RangesInv
    <3>2. at'[u] = at[u]
      BY <1>3, <2>2
    <3> QED
      BY <1>1, <3>1, <3>2 DEF Pending, RangeOf, Net, HasNet, HasStubs, Counted
  <2> QED
    BY <2>1, <2>2
<1> QED
  BY <1>1, <1>6, <1>7, VecsKept

LEMMA VecsInvReserve ==
  ASSUME Types, CountInv, VecsInv, NEW t \in ThreadIds, Reserve(t)
  PROVE  VecsInv'
<1> DEFINE n == at[t]
           stubCount == Len(Net(t).stubs)
           old == {p \in Wanted : Reserved(p)}
           new == {p \in Wanted : Reserved(p)'}
<1>1. /\ nets' = nets /\ at' = at /\ pc = "vecs" /\ pc' = "vecs" /\ HasNet(t) /\ base[t] = None
      /\ HasStubs(Net(t))
      /\ base' = [base EXCEPT ![t] = global_stub_index]
      /\ stub_offset' = [stub_offset EXCEPT ![t] = 0]
      /\ global_stub_index' = global_stub_index + stubCount
      /\ UNCHANGED <<netCount, net_pairs, stubs, heads, state>>
  BY DEF Reserve, Takes
<1>2. /\ n \in DOMAIN nets /\ n \in Nat \ {0} /\ TurnOf(n) = t
      /\ ~Passed(n) /\ Net(t) = nets[n] /\ stubCount \in Nat
  BY <1>1, NetOfThread
<1>3. /\ base'[t] = global_stub_index /\ stub_offset'[t] = 0
      /\ \A u \in ThreadIds \ {t} : base'[u] = base[u] /\ stub_offset'[u] = stub_offset[u]
      /\ global_stub_index \in Nat /\ None \notin Nat
      /\ \A u \in ThreadIds : base[u] \in Nat \cup {None} /\ stub_offset[u] \in Nat
  BY <1>1, NodeSetupAssumption DEF Types
<1>4. stubCount # 0
  BY <1>1, <1>2, NetTypes DEF HasStubs, Types
<1>5. Wanted' = Wanted /\ netCountAligned' = netCountAligned
      /\ \A p : (Searched(p)' <=> Searched(p)) /\ (Fits(p)' <=> Fits(p))
  BY <1>1, SameNets DEF netCountAligned
<1>6. ASSUME NEW p \in Wanted
      PROVE  /\ Passed(p[1])' <=> Passed(p[1])
             /\ Here(p)' <=> Here(p) \/ p[1] = n
             /\ p[1] = n => ~Reserved(p)
             /\ Reserved(p)' <=> Reserved(p) \/ p[1] = n
             /\ Placed(p)' <=> Placed(p)
  <2>1. p[1] \in Nat \ {0} /\ TurnOf(p[1]) \in ThreadIds /\ p[2] \in Nat \ {0}
    BY WantedTurns, WantedPairs DEF Types
  <2>2. Passed(p[1])' <=> Passed(p[1])
    BY <1>1 DEF Passed, TurnOf
  <2>3. CASE TurnOf(p[1]) = t
    <3>1. ~Here(p) /\ (Here(p)' <=> p[1] = n)
      BY <1>1, <1>3, <2>3 DEF Here, TurnOf
    <3>2. p[1] = n => ~Reserved(p)
      BY <1>2, <3>1 DEF Reserved
    <3>3. Reserved(p)' <=> Reserved(p) \/ p[1] = n
      BY <2>2, <3>1 DEF Reserved
    <3>4. Placed(p)' <=> Placed(p)
      BY <1>3, <2>1, <2>2, <2>3, <3>1 DEF Placed, TurnOf
    <3> QED
      BY <2>2, <3>1, <3>2, <3>3, <3>4
  <2>4. CASE TurnOf(p[1]) # t
    <3>1. p[1] # n /\ (Here(p)' <=> Here(p))
      BY <1>1, <1>2, <1>3, <2>1, <2>4 DEF Here, TurnOf
    <3>2. (Reserved(p)' <=> Reserved(p)) /\ (Placed(p)' <=> Placed(p))
      BY <1>3, <2>1, <2>2, <2>4, <3>1 DEF Reserved, Placed, TurnOf
    <3> QED
      BY <2>2, <3>1, <3>2
  <2> QED
    BY <2>3, <2>4
<1>7. new = old \cup PairsOf(n)
  <2>1. \A p \in PairsOf(n) : p \in Wanted /\ p[1] = n
    BY <1>1, <1>2, WantedPairs DEF PairsOf, Types, HasStubs
  <2>2. ASSUME NEW p \in Wanted, p[1] = n PROVE p \in PairsOf(n)
    <3>1. p[2] \in DOMAIN nets[n].stubs /\ p = <<n, p[2]>>
      BY <2>2, WantedPairs DEF Types
    <3> QED
      BY <3>1 DEF PairsOf
  <2> QED
    BY <1>6, <2>1, <2>2
<1>8. Cardinality(new) = Cardinality(old) + stubCount
  <2>1. \A p \in old : p[1] # n
    BY <1>6
  <2>2. old \in SUBSET Wanted
    OBVIOUS
  <2> HIDE DEF old, new
  <2>3. Cardinality(old \cup PairsOf(n)) = Cardinality(old) + Len(nets[n].stubs)
    BY <1>2, <2>1, <2>2, PairsAdded DEF Types
  <2> QED
    BY <1>2, <1>7, <2>3
<1>9. global_stub_index = Cardinality(old) /\ \A u \in ThreadIds : RangeOf(u)
  BY <1>1 DEF VecsInv, RangesInv
<1>10. ASSUME NEW u \in ThreadIds, NEW i \in Nat
       PROVE  /\ Pending(u, i) => u # t /\ i < global_stub_index
              /\ Pending(u, i)' <=>
                   Pending(u, i) \/ (u = t /\ global_stub_index <= i /\ i < global_stub_index')
  <2>1. Net(u)' = Net(u)
    BY <1>1 DEF Net
  <2>2. CASE u = t
    BY <1>1, <1>2, <1>3, <2>1, <2>2 DEF Pending
  <2>3. CASE u # t
    <3>1. Pending(u, i)' <=> Pending(u, i)
      BY <1>3, <2>1, <2>3 DEF Pending
    <3>2. Pending(u, i) => i < global_stub_index
      <4> SUFFICES ASSUME Pending(u, i) PROVE i < global_stub_index
        OBVIOUS
      <4>1. base[u] # None /\ i < base[u] + Len(Net(u).stubs)
        BY DEF Pending
      <4>2. HasNet(u) /\ base[u] + Len(Net(u).stubs) <= global_stub_index
        BY <1>9, <4>1 DEF RangeOf
      <4>3. Len(Net(u).stubs) \in Nat
        BY <4>2, NetOfThread
      <4> QED
        BY <1>3, <4>1, <4>2, <4>3
    <3> QED
      BY <2>3, <3>1, <3>2
  <2> QED
    BY <2>2, <2>3
<1>11. RangesInv'
  <2>1. global_stub_index' = Cardinality(new)
    <3> HIDE DEF old, new
    <3> QED
      BY <1>1, <1>8, <1>9
  <2>2. ASSUME NEW u \in ThreadIds PROVE RangeOf(u)'
    <3>1. Net(u)' = Net(u) /\ (HasNet(u)' <=> HasNet(u))
      BY <1>1 DEF Net, HasNet
    <3>2. HasStubs(Net(u))' <=> HasStubs(Net(u))
      BY <3>1 DEF HasStubs, Counted
    <3>3. CASE u = t
      BY <1>1, <1>2, <1>3, <1>4, <3>1, <3>2, <3>3 DEF RangeOf
    <3>4. CASE u # t
      <4> SUFFICES ASSUME base[u] # None
                   PROVE  base[u] + Len(Net(u).stubs) <= global_stub_index' /\ RangeOf(u)
        BY <1>3, <3>1, <3>2, <3>4 DEF RangeOf
      <4>1. RangeOf(u) /\ HasNet(u) /\ base[u] + Len(Net(u).stubs) <= global_stub_index
        BY <1>9 DEF RangeOf
      <4>2. Len(Net(u).stubs) \in Nat
        BY <4>1, NetOfThread
      <4> QED
        BY <1>1, <1>2, <1>3, <4>1, <4>2
    <3> QED
      BY <3>3, <3>4
  <2>3. ASSUME NEW u \in ThreadIds, NEW v \in ThreadIds, NEW i \in Nat,
               Pending(u, i)', Pending(v, i)'
        PROVE  u = v
    <3>1. Pending(u, i) /\ Pending(v, i) => u = v
      BY <1>1 DEF VecsInv, RangesInv
    <3> QED
      BY <1>3, <1>10, <2>3, <3>1
  <2> QED
    BY <1>5, <2>1, <2>2, <2>3 DEF RangesInv
<1>12. PlacesInv'
  <2>1. net_pairs' = [i \in 0..(netCount' - 1) |-> net_pairs'[i]]
    BY <1>1 DEF VecsInv, PlacesInv
  <2>2. ASSUME NEW i \in 0..(global_stub_index' - 1)
        PROVE  net_pairs'[i] # None \/ \E u \in ThreadIds : Pending(u, i)'
    <3>1. i \in Nat
      BY <1>1, <1>2, <1>3
    <3>2. CASE i < global_stub_index
      <4>1. net_pairs[i] # None \/ \E u \in ThreadIds : Pending(u, i)
        BY <1>1, <1>3, <3>1, <3>2 DEF VecsInv, PlacesInv
      <4> QED
        BY <1>1, <1>10, <3>1, <4>1
    <3>3. CASE ~(i < global_stub_index)
      <4>1. Pending(t, i)'
        BY <1>1, <1>2, <1>3, <1>10, <3>1, <3>3
      <4> QED
        BY <4>1
    <3> QED
      BY <3>2, <3>3
  <2>3. ASSUME NEW i \in 0..(netCount' - 1), net_pairs'[i] # None
        PROVE  /\ net_pairs'[i] \in Wanted' /\ Placed(net_pairs[i])'
               /\ i < global_stub_index' /\ \A u \in ThreadIds : ~Pending(u, i)'
    <3>1. i \in Nat /\ i \in 0..(netCount - 1) /\ net_pairs'[i] = net_pairs[i]
      BY <1>1 DEF Types
    <3>2. /\ net_pairs[i] \in Wanted /\ Placed(net_pairs[i]) /\ i < global_stub_index
          /\ \A u \in ThreadIds : ~Pending(u, i)
      BY <1>1, <2>3, <3>1 DEF VecsInv, PlacesInv
    <3>3. Placed(net_pairs[i])'
      <4> DEFINE p == net_pairs[i]
      <4>1. p \in Wanted /\ Placed(p)
        BY <3>2
      <4>2. net_pairs' = net_pairs
        BY <1>1
      <4>3. Placed(p)' <=> p[1] < at'[TurnOf(p[1])] \/ (Here(p)' /\ p[2] <= stub_offset'[TurnOf(p[1])])
        BY <4>2 DEF Placed, Passed, TurnOf
      <4> QED
        BY <1>1, <1>6, <4>1, <4>2 DEF Placed, Passed, Here, TurnOf
    <3>4. i < global_stub_index'
      BY <1>1, <1>2, <1>3, <3>1, <3>2
    <3>5. \A u \in ThreadIds : ~Pending(u, i)'
      BY <1>3, <1>10, <3>1, <3>2
    <3> QED
      BY <1>5, <3>1, <3>2, <3>3, <3>4, <3>5
  <2>4. ASSUME NEW p \in Wanted', Placed(p)'
        PROVE  \E i \in 0..(netCount' - 1) : net_pairs'[i] = p
    BY <1>1, <1>5, <1>6, <2>4 DEF VecsInv, PlacesInv
  <2>5. \A i, j \in 0..(netCount' - 1) :
          net_pairs'[i] # None /\ net_pairs'[i] = net_pairs'[j] => i = j
    BY <1>1 DEF VecsInv, PlacesInv
  <2> QED
    BY <1>1, <2>1, <2>2, <2>3, <2>4, <2>5 DEF PlacesInv
<1>13. ItemsInv'
  <2>1. ASSUME NEW i \in 0..(netCountAligned - 1) PROVE ItemOf(i)'
    <3>1. ItemOf(i)
      BY <1>1 DEF VecsInv, ItemsInv
    <3> QED
      BY <1>1, <1>5, <3>1 DEF ItemOf
  <2> QED
    BY <1>1, <1>5, <2>1 DEF VecsInv, ItemsInv
<1>14. BeamsInv'
  BY <1>1, <1>5, <1>6 DEF VecsInv, BeamsInv
<1> QED
  BY <1>11, <1>12, <1>13, <1>14 DEF VecsInv

(* The index a thread fills. *)
IndexOf(t) == base[t] + stub_offset[t]
PairOf(t) == <<at[t], stub_offset[t] + 1>>

LEMMA IndexPending ==
  ASSUME Types, CountInv, VecsInv, NEW t \in ThreadIds, FillStub(t)
  PROVE  /\ pc = "vecs" /\ HasNet(t) /\ base[t] \in Nat /\ stub_offset[t] \in Nat
         /\ IndexOf(t) \in 0..(netCount - 1) /\ IndexOf(t) \in 0..(netCountAligned - 1)
         /\ IndexOf(t) \in Nat /\ IndexOf(t) < global_stub_index
         /\ Pending(t, IndexOf(t)) /\ net_pairs[IndexOf(t)] = None
         /\ PairOf(t) \in Wanted /\ ~Placed(PairOf(t)) /\ stub_offset[t] < Len(Net(t).stubs)
<1> DEFINE reserved == {p \in Wanted : Reserved(p)}
<1>1. pc = "vecs" /\ base[t] # None
  BY DEF FillStub
<1>2. /\ HasNet(t) /\ HasStubs(Net(t)) /\ stub_offset[t] < Len(Net(t).stubs)
      /\ base[t] + Len(Net(t).stubs) <= global_stub_index
  BY <1>1 DEF VecsInv, RangesInv, RangeOf
<1>3. /\ at[t] \in DOMAIN nets /\ at[t] \in Nat \ {0} /\ TurnOf(at[t]) = t
      /\ ~Passed(at[t]) /\ Net(t) = nets[at[t]] /\ Len(Net(t).stubs) \in Nat
      /\ DOMAIN Net(t).stubs = 1..Len(Net(t).stubs)
  BY <1>2, NetOfThread
<1>4. /\ base[t] \in Nat /\ stub_offset[t] \in Nat /\ global_stub_index \in Nat
      /\ netCount \in Nat
  BY <1>1 DEF Types
<1>5. global_stub_index <= netCount
  <2>1. IsFiniteSet(Wanted) /\ reserved \subseteq Wanted
    BY WantedPairs DEF Types
  <2>2. netCount = Cardinality(Wanted) /\ global_stub_index = Cardinality(reserved)
    BY <1>1 DEF CountInv, VecsInv, RangesInv
  <2> HIDE DEF reserved
  <2>3. Cardinality(reserved) <= Cardinality(Wanted)
    BY <2>1, FS_Subset
  <2> QED
    BY <2>2, <2>3
<1>6. netCountAligned \in Nat /\ netCount <= netCountAligned
  BY Aligned
<1>7. /\ IndexOf(t) \in Nat /\ IndexOf(t) < global_stub_index
      /\ IndexOf(t) \in 0..(netCount - 1) /\ IndexOf(t) \in 0..(netCountAligned - 1)
  BY <1>2, <1>3, <1>4, <1>5, <1>6 DEF IndexOf
<1>8. Pending(t, IndexOf(t))
  BY <1>1, <1>2, <1>3, <1>4 DEF Pending, IndexOf
<1>9. net_pairs[IndexOf(t)] = None
  BY <1>1, <1>7, <1>8 DEF VecsInv, PlacesInv
<1>10. PairOf(t) \in Wanted
  <2>1. Counted(nets[at[t]])
    BY <1>2, <1>3 DEF HasStubs
  <2>2. stub_offset[t] + 1 \in DOMAIN nets[at[t]].stubs
    BY <1>2, <1>3, <1>4
  <2> QED
    BY <1>3, <2>1, <2>2, WantedPairs DEF PairOf, Types
<1>11. ~Placed(PairOf(t))
  <2>1. PairOf(t)[1] = at[t] /\ PairOf(t)[2] = stub_offset[t] + 1
    BY DEF PairOf
  <2> QED
    BY <1>3, <1>4, <2>1 DEF Placed
<1> QED
  BY <1>1, <1>2, <1>4, <1>7, <1>8, <1>9, <1>10, <1>11

(* Filling an index places its pair, and leaves what is reserved. *)
LEMMA FillPlaces ==
  ASSUME Types, CountInv, VecsInv, NEW t \in ThreadIds, FillStub(t)
  PROVE  /\ \A p \in Wanted : /\ Reserved(p)' <=> Reserved(p)
                              /\ Placed(p)' <=> Placed(p) \/ p = PairOf(t)
         /\ \A u \in ThreadIds : RangeOf(u)'
         /\ \A u \in ThreadIds : \A i \in Nat :
              Pending(u, i)' <=> Pending(u, i) /\ ~(u = t /\ i = IndexOf(t))
<1> DEFINE n == at[t]
           stubCount == Len(Net(t).stubs)
           off == stub_offset[t]
<1>1. /\ pc = "vecs" /\ HasNet(t) /\ base[t] \in Nat /\ off \in Nat /\ off < stubCount
  BY IndexPending
<1>2. /\ n \in DOMAIN nets /\ n \in Nat \ {0} /\ TurnOf(n) = t
      /\ ~Passed(n) /\ Net(t) = nets[n] /\ stubCount \in Nat
      /\ DOMAIN nets[n].stubs = 1..stubCount
  BY <1>1, NetOfThread
<1>3. /\ nets' = nets /\ global_stub_index' = global_stub_index
      /\ stub_offset' = [stub_offset EXCEPT ![t] = @ + 1]
      /\ IF off + 1 = stubCount THEN base' = [base EXCEPT ![t] = None] /\ Further(t)
                                ELSE UNCHANGED <<base, at>>
  BY DEF FillStub
<1>4. /\ stub_offset'[t] = off + 1 /\ base[t] # None /\ None \notin Nat
      /\ \A u \in ThreadIds \ {t} : stub_offset'[u] = stub_offset[u]
  BY <1>1, <1>3, NodeSetupAssumption DEF Types
<1>5. PairOf(t)[1] = n /\ PairOf(t)[2] = off + 1
  BY DEF PairOf
<1>6. ASSUME NEW p \in Wanted
      PROVE  /\ p[1] \in Nat \ {0} /\ TurnOf(p[1]) \in ThreadIds /\ p[2] \in Nat \ {0}
             /\ p[1] = n => p[2] \in 1..stubCount
             /\ p = PairOf(t) <=> p[1] = n /\ p[2] = off + 1
  <2>1. /\ p[1] \in Nat \ {0} /\ p[2] \in Nat \ {0} /\ p = <<p[1], p[2]>>
        /\ p[2] \in DOMAIN nets[p[1]].stubs
    BY WantedPairs DEF Types
  <2>2. TurnOf(p[1]) \in ThreadIds
    BY WantedTurns DEF Types
  <2>3. p = PairOf(t) <=> p[1] = n /\ p[2] = off + 1
    BY <1>5, <2>1 DEF PairOf
  <2> QED
    BY <1>2, <2>1, <2>2, <2>3
<1>7. \A u \in ThreadIds : RangeOf(u)
  BY <1>1 DEF VecsInv, RangesInv
<1>8. CASE off + 1 # stubCount
  <2>1. base' = base /\ at' = at
    BY <1>3, <1>8
  <2>2. ASSUME NEW p \in Wanted
        PROVE  (Reserved(p)' <=> Reserved(p)) /\ (Placed(p)' <=> Placed(p) \/ p = PairOf(t))
    <3>1. (Passed(p[1])' <=> Passed(p[1])) /\ (Here(p)' <=> Here(p))
      BY <2>1 DEF Passed, Here, TurnOf
    <3>2. Reserved(p)' <=> Reserved(p)
      BY <3>1 DEF Reserved
    <3>3. CASE p[1] = n
      <4>1. Here(p) /\ ~Passed(p[1])
        BY <1>2, <1>4, <3>3 DEF Here
      <4>2. (Placed(p) <=> p[2] <= off) /\ (Placed(p)' <=> p[2] <= off + 1)
        BY <1>2, <1>4, <3>1, <3>3, <4>1 DEF Placed, TurnOf
      <4> QED
        BY <1>1, <1>6, <3>2, <3>3, <4>2
    <3>4. CASE p[1] # n
      <4>1. p # PairOf(t)
        BY <1>6, <3>4
      <4>2. CASE TurnOf(p[1]) = t
        BY <3>1, <3>2, <3>4, <4>1, <4>2 DEF Placed, Here
      <4>3. CASE TurnOf(p[1]) # t
        BY <1>4, <1>6, <3>1, <3>2, <4>1, <4>3 DEF Placed, TurnOf
      <4> QED
        BY <4>2, <4>3
    <3> QED
      BY <3>3, <3>4
  <2>3. ASSUME NEW u \in ThreadIds
        PROVE  /\ RangeOf(u)'
               /\ \A i \in Nat : Pending(u, i)' <=> Pending(u, i) /\ ~(u = t /\ i = IndexOf(t))
    <3>1. Net(u)' = Net(u) /\ (HasNet(u)' <=> HasNet(u)) /\ (HasStubs(Net(u))' <=> HasStubs(Net(u)))
      BY <1>3, <2>1 DEF Net, HasNet, HasStubs, Counted
    <3>2. CASE u = t
      <4>1. RangeOf(u)'
        BY <1>1, <1>2, <1>3, <1>4, <1>7, <1>8, <2>1, <3>1, <3>2 DEF RangeOf
      <4>2. ASSUME NEW i \in Nat
            PROVE  Pending(u, i)' <=> Pending(u, i) /\ ~(u = t /\ i = IndexOf(t))
        BY <1>1, <1>2, <1>4, <2>1, <3>1, <3>2 DEF Pending, IndexOf
      <4> QED
        BY <4>1, <4>2
    <3>3. CASE u # t
      BY <1>3, <1>4, <1>7, <2>1, <3>1, <3>3 DEF RangeOf, Pending
    <3> QED
      BY <3>2, <3>3
  <2> QED
    BY <2>2, <2>3
<1>9. CASE off + 1 = stubCount
  <2>1. base' = [base EXCEPT ![t] = None] /\ Further(t)
    BY <1>3, <1>9
  <2>2. /\ base'[t] = None
        /\ \A u \in ThreadIds \ {t} : base'[u] = base[u] /\ at'[u] = at[u]
    BY <2>1, FurtherPasses DEF Types
  <2>3. ASSUME NEW p \in Wanted
        PROVE  (Reserved(p)' <=> Reserved(p)) /\ (Placed(p)' <=> Placed(p) \/ p = PairOf(t))
    <3>1. Passed(p[1])' <=> Passed(p[1]) \/ p[1] = n
      BY <1>6, <2>1, FurtherPasses DEF Types
    <3>2. CASE TurnOf(p[1]) = t
      <4>1. ~Here(p)'
        BY <2>2, <3>2 DEF Here, TurnOf
      <4>2. Here(p) <=> p[1] = n
        BY <1>4, <3>2 DEF Here
      <4>3. Reserved(p)' <=> Reserved(p)
        BY <3>1, <4>1, <4>2 DEF Reserved
      <4>4. Placed(p)' <=> Passed(p[1]) \/ p[1] = n
        BY <3>1, <4>1 DEF Placed
      <4>5. Placed(p) <=> Passed(p[1]) \/ (p[1] = n /\ p[2] <= off)
        BY <3>2, <4>2 DEF Placed
      <4>6. p[1] = n => p[2] <= off \/ p[2] = off + 1
        BY <1>1, <1>2, <1>6, <1>9
      <4> QED
        BY <1>6, <4>3, <4>4, <4>5, <4>6
    <3>3. CASE TurnOf(p[1]) # t
      <4>1. p[1] # n /\ p # PairOf(t)
        BY <1>2, <1>6, <3>3
      <4>2. Here(p)' <=> Here(p)
        BY <1>6, <2>2, <3>3 DEF Here, TurnOf
      <4> QED
        BY <1>4, <1>6, <3>1, <3>3, <4>1, <4>2 DEF Reserved, Placed, TurnOf
    <3> QED
      BY <3>2, <3>3
  <2>4. ASSUME NEW u \in ThreadIds
        PROVE  /\ RangeOf(u)'
               /\ \A i \in Nat : Pending(u, i)' <=> Pending(u, i) /\ ~(u = t /\ i = IndexOf(t))
    <3>1. CASE u = t
      <4>1. RangeOf(u)'
        BY <2>2, <3>1 DEF RangeOf
      <4>2. ASSUME NEW i \in Nat
            PROVE  Pending(u, i)' <=> Pending(u, i) /\ ~(u = t /\ i = IndexOf(t))
        BY <1>1, <1>2, <1>4, <1>9, <2>2, <3>1 DEF Pending, IndexOf
      <4> QED
        BY <4>1, <4>2
    <3>2. CASE u # t
      <4>1. Net(u)' = Net(u) /\ (HasNet(u)' <=> HasNet(u)) /\ (HasStubs(Net(u))' <=> HasStubs(Net(u)))
        BY <1>3, <2>2, <3>2 DEF Net, HasNet, HasStubs, Counted
      <4> QED
        BY <1>3, <1>4, <1>7, <2>2, <3>2, <4>1 DEF RangeOf, Pending
    <3> QED
      BY <3>1, <3>2
  <2> QED
    BY <2>3, <2>4
<1> QED
  BY <1>8, <1>9

(* What a step that fills an index writes there. *)
LEMMA FillWrites ==
  ASSUME Types, CountInv, VecsInv, NEW t \in ThreadIds, FillStub(t), pc' = "vecs"
  PROVE  LET p == PairOf(t)
             k == IndexOf(t)
             source == nets[at[t]].sources[1]
             stub == nets[at[t]].stubs[stub_offset[t] + 1]
         IN /\ nets' = nets /\ netCount' = netCount /\ global_stub_index' = global_stub_index
            /\ net_pairs' = [net_pairs EXCEPT ![k] = p]
            /\ Searched(p) <=> ~(Pins(source) = {} \/ Pins(stub) = {})
            /\ ~Searched(p) => UNCHANGED <<stubs, heads, state>>
            /\ Searched(p) =>
                 /\ stubs' = [stubs EXCEPT ![k] = [node |-> Least(Pins(stub)), net |-> at[t]]]
                 /\ Least(Pins(stub)) \in Pins(stub)
                 /\ heads' = [heads EXCEPT ![k] = infos(source)]
                 /\ state' = [state EXCEPT ![k] = 0]
            /\ Fits(p)
<1> DEFINE p == PairOf(t)
           k == IndexOf(t)
           source == nets[at[t]].sources[1]
           stub == nets[at[t]].stubs[stub_offset[t] + 1]
<1>1. HasNet(t) /\ stub_offset[t] < Len(Net(t).stubs) /\ stub_offset[t] \in Nat /\ pc = "vecs"
  BY IndexPending
<1>2. /\ at[t] \in DOMAIN nets /\ Net(t) = nets[at[t]]
      /\ stub_offset[t] + 1 \in DOMAIN nets[at[t]].stubs
  <2>1. /\ at[t] \in DOMAIN nets /\ Net(t) = nets[at[t]] /\ Len(Net(t).stubs) \in Nat
        /\ DOMAIN Net(t).stubs = 1..Len(Net(t).stubs)
    BY <1>1, NetOfThread
  <2> QED
    BY <1>1, <2>1
<1>3. p[1] = at[t] /\ p[2] = stub_offset[t] + 1
  BY DEF PairOf
<1>4. Searched(p) <=> ~(Pins(source) = {} \/ Pins(stub) = {})
  BY <1>3 DEF Searched
<1>5. /\ nets' = nets /\ netCount' = netCount /\ global_stub_index' = global_stub_index
      /\ net_pairs' = [net_pairs EXCEPT ![k] = p]
      /\ IF Pins(source) = {} \/ Pins(stub) = {} THEN UNCHANGED <<pc, stubs, heads, state>>
         ELSE /\ stubs' = [stubs EXCEPT ![k] = [node |-> Least(Pins(stub)), net |-> at[t]]]
              /\ IF Cardinality(infos(source)) > BeamWidth THEN Abort /\ UNCHANGED <<heads, state>>
                 ELSE /\ heads' = [heads EXCEPT ![k] = infos(source)]
                      /\ state' = [state EXCEPT ![k] = 0]
                      /\ UNCHANGED pc
  BY <1>2 DEF FillStub, IndexOf, PairOf
<1>6. Pins(stub) # {} => Least(Pins(stub)) \in Pins(stub)
  <2> SUFFICES ASSUME Pins(stub) # {} PROVE Least(Pins(stub)) \in Pins(stub)
    OBVIOUS
  <2>1. Pins(stub) \subseteq Nat
    BY <1>2, PinsAreNodes, NodeSetupAssumption DEF Types
  <2> DEFINE pins == Pins(stub)
  <2> HIDE DEF pins
  <2>2. \E x \in pins : \A y \in pins : x <= y
    BY <2>1, LeastNat DEF pins
  <2>3. Least(pins) \in pins
    BY <2>2 DEF Least
  <2> QED
    BY <2>3 DEF pins
<1>7. Searched(p) => ~(Cardinality(infos(source)) > BeamWidth)
  BY <1>4, <1>5 DEF Abort
<1>8. Fits(p)
  BY <1>3, <1>7 DEF Fits
<1> QED
  BY <1>4, <1>5, <1>6, <1>7, <1>8

LEMMA VecsInvFillStub ==
  ASSUME Types, CountInv, VecsInv, NEW t \in ThreadIds, FillStub(t)
  PROVE  VecsInv'
<1> DEFINE p == PairOf(t)
           k == IndexOf(t)
<1>0. /\ pc = "vecs" /\ k \in 0..(netCount - 1) /\ k \in 0..(netCountAligned - 1) /\ k \in Nat
      /\ k < global_stub_index /\ Pending(t, k) /\ net_pairs[k] = None
      /\ p \in Wanted /\ ~Placed(p)
  BY IndexPending
<1>1. CASE pc' # "vecs"
  <2>1. pc' = "aborted"
    BY <1>0, <1>1 DEF FillStub, Abort
  <2> QED
    BY <2>1 DEF VecsInv, RangesInv, PlacesInv, ItemsInv, BeamsInv
<1>2. CASE pc' = "vecs"
  <2> DEFINE source == nets[at[t]].sources[1]
             stub == nets[at[t]].stubs[stub_offset[t] + 1]
  <2>1. /\ nets' = nets /\ netCount' = netCount /\ global_stub_index' = global_stub_index
        /\ net_pairs' = [net_pairs EXCEPT ![k] = p]
        /\ Searched(p) <=> ~(Pins(source) = {} \/ Pins(stub) = {})
        /\ ~Searched(p) => UNCHANGED <<stubs, heads, state>>
        /\ Searched(p) =>
             /\ stubs' = [stubs EXCEPT ![k] = [node |-> Least(Pins(stub)), net |-> at[t]]]
             /\ Least(Pins(stub)) \in Pins(stub)
             /\ heads' = [heads EXCEPT ![k] = infos(source)]
             /\ state' = [state EXCEPT ![k] = 0]
        /\ Fits(p)
    BY <1>2, FillWrites
  <2>2. Wanted' = Wanted /\ netCountAligned' = netCountAligned
        /\ \A q : (Searched(q)' <=> Searched(q)) /\ (Fits(q)' <=> Fits(q))
    BY <2>1, SameNets DEF netCountAligned
  <2>3. /\ \A q \in Wanted : /\ Reserved(q)' <=> Reserved(q)
                             /\ Placed(q)' <=> Placed(q) \/ q = p
        /\ \A u \in ThreadIds : RangeOf(u)'
        /\ \A u \in ThreadIds : \A i \in Nat :
             Pending(u, i)' <=> Pending(u, i) /\ ~(u = t /\ i = k)
    BY FillPlaces
  <2>4. p # None
    <3>1. p[1] \in Nat /\ p[2] \in Nat /\ p = <<p[1], p[2]>>
      BY <1>0, WantedPairs DEF Types
    <3> QED
      BY <3>1, NodeSetupAssumption
  <2>5. netCount \in Nat /\ global_stub_index \in Nat
    BY DEF Types
  <2> HIDE DEF p, k
  <2>6. /\ net_pairs'[k] = p
        /\ \A i \in 0..(netCount - 1) : i # k => net_pairs'[i] = net_pairs[i]
        /\ net_pairs' = [i \in 0..(netCount - 1) |-> net_pairs'[i]]
    BY <1>0, <2>1 DEF VecsInv, PlacesInv
  <2>7. RangesInv'
    <3>1. {q \in Wanted : Reserved(q)'} = {q \in Wanted : Reserved(q)}
      BY <2>3
    <3>2. global_stub_index' = Cardinality({q \in Wanted : Reserved(q)'})
      BY <1>0, <2>1, <3>1 DEF VecsInv, RangesInv
    <3>3. ASSUME NEW u \in ThreadIds, NEW v \in ThreadIds, NEW i \in Nat,
                 Pending(u, i)', Pending(v, i)'
          PROVE  u = v
      BY <1>0, <2>3, <3>3 DEF VecsInv, RangesInv
    <3> QED
      BY <2>2, <2>3, <3>2, <3>3 DEF RangesInv
  <2>8. PlacesInv'
    <3>1. ASSUME NEW i \in 0..(global_stub_index' - 1)
          PROVE  net_pairs'[i] # None \/ \E u \in ThreadIds : Pending(u, i)'
      <4>1. i \in Nat /\ i \in 0..(global_stub_index - 1)
        BY <2>1, <2>5
      <4>2. CASE i = k
        BY <2>4, <2>6, <4>2
      <4>3. CASE i # k
        <5>1. CASE net_pairs[i] # None
          <6>1. i \in 0..(netCount - 1) \/ i \notin 0..(netCount - 1)
            OBVIOUS
          <6>2. net_pairs'[i] = net_pairs[i]
            BY <1>0, <2>1, <4>3 DEF VecsInv, PlacesInv
          <6> QED
            BY <5>1, <6>2
        <5>2. CASE \E u \in ThreadIds : Pending(u, i)
          BY <2>3, <4>1, <4>3, <5>2
        <5> QED
          BY <1>0, <4>1, <5>1, <5>2 DEF VecsInv, PlacesInv
      <4> QED
        BY <4>2, <4>3
    <3>2. ASSUME NEW i \in 0..(netCount' - 1), net_pairs'[i] # None
          PROVE  /\ net_pairs'[i] \in Wanted' /\ Placed(net_pairs[i])'
                 /\ i < global_stub_index' /\ \A u \in ThreadIds : ~Pending(u, i)'
      <4>0. \A q \in Wanted : Placed(q) \/ q = p =>
              q[1] < at'[TurnOf(q[1])]
              \/ (/\ at'[TurnOf(q[1])] = q[1] /\ base'[TurnOf(q[1])] # None
                  /\ q[2] <= stub_offset'[TurnOf(q[1])])
        BY <2>3 DEF Placed, Passed, Here, TurnOf
      <4>1. i \in 0..(netCount - 1) /\ i \in Nat
        BY <2>1, <2>5
      <4>2. CASE i = k
        <5>1. \A u \in ThreadIds : ~Pending(u, i)'
          <6> SUFFICES ASSUME NEW u \in ThreadIds, Pending(u, i)' PROVE FALSE
            OBVIOUS
          <6>1. Pending(u, i) /\ u # t
            BY <2>3, <4>1, <4>2
          <6>2. u = t
            BY <1>0, <4>1, <4>2, <6>1 DEF VecsInv, RangesInv
          <6> QED
            BY <6>1, <6>2
        <5>2. net_pairs'[i] = p
          BY <2>6, <4>2
        <5>3. Placed(net_pairs[i])'
          BY <1>0, <4>0, <5>2 DEF Placed, Passed, Here, TurnOf
        <5> QED
          BY <1>0, <2>1, <2>2, <4>2, <5>1, <5>2, <5>3
      <4>3. CASE i # k
        <5>1. net_pairs'[i] = net_pairs[i]
          BY <2>6, <4>1, <4>3
        <5>2. /\ net_pairs[i] \in Wanted /\ Placed(net_pairs[i]) /\ i < global_stub_index
              /\ \A u \in ThreadIds : ~Pending(u, i)
          BY <1>0, <3>2, <4>1, <5>1 DEF VecsInv, PlacesInv
        <5>3. Placed(net_pairs[i])'
          BY <4>0, <5>1, <5>2 DEF Placed, Passed, Here, TurnOf
        <5> QED
          BY <2>1, <2>2, <2>3, <4>1, <5>1, <5>2, <5>3
      <4> QED
        BY <4>2, <4>3
    <3>3. ASSUME NEW q \in Wanted, Placed(q)'
          PROVE  \E i \in 0..(netCount - 1) : net_pairs'[i] = q
      <4>1. CASE q = p
        BY <1>0, <2>6, <4>1
      <4>2. CASE q # p
        <5>1. Placed(q)
          BY <2>3, <3>3, <4>2
        <5>2. PICK i \in 0..(netCount - 1) : net_pairs[i] = q
          BY <1>0, <5>1 DEF VecsInv, PlacesInv
        <5>3. q # None
          <6>1. q[1] \in Nat /\ q[2] \in Nat /\ q = <<q[1], q[2]>>
            BY WantedPairs DEF Types
          <6> QED
            BY <6>1, NodeSetupAssumption
        <5>4. i # k
          BY <1>0, <5>2, <5>3
        <5> QED
          BY <2>6, <5>2, <5>4
      <4> QED
        BY <4>1, <4>2
    <3>4. ASSUME NEW i \in 0..(netCount - 1), NEW j \in 0..(netCount - 1),
                 net_pairs'[i] # None, net_pairs'[i] = net_pairs'[j]
          PROVE  i = j
      <4>1. \A h \in 0..(netCount - 1) : net_pairs[h] # p
        <5> SUFFICES ASSUME NEW h \in 0..(netCount - 1), net_pairs[h] = p PROVE FALSE
          OBVIOUS
        <5>1. Placed(net_pairs[h])
          BY <1>0, <2>4 DEF VecsInv, PlacesInv
        <5>2. Placed(p)
          BY <5>1
        <5> QED
          BY <1>0, <5>2
      <4>2. CASE i = k \/ j = k
        BY <2>6, <3>4, <4>1, <4>2
      <4>3. CASE i # k /\ j # k
        BY <1>0, <2>6, <3>4, <4>3 DEF VecsInv, PlacesInv
      <4> QED
        BY <4>2, <4>3
    <3> QED
      BY <2>1, <2>2, <2>6, <3>1, <3>2, <3>3, <3>4 DEF PlacesInv
  <2>9. ItemsInv'
    <3>1. /\ stubs = [i \in 0..(netCountAligned - 1) |-> stubs[i]]
          /\ heads = [i \in 0..(netCountAligned - 1) |-> heads[i]]
          /\ state = [i \in 0..(netCountAligned - 1) |-> state[i]]
          /\ \A i \in 0..(netCountAligned - 1) : ItemOf(i)
      BY <1>0 DEF VecsInv, ItemsInv
    <3>2. p[1] = at[t] /\ p[2] = stub_offset[t] + 1
      BY DEF p, PairOf
    <3>3. /\ stubs' = [i \in 0..(netCountAligned - 1) |-> stubs'[i]]
          /\ heads' = [i \in 0..(netCountAligned - 1) |-> heads'[i]]
          /\ state' = [i \in 0..(netCountAligned - 1) |-> state'[i]]
      <4>1. CASE Searched(p)
        BY <2>1, <3>1, <4>1
      <4>2. CASE ~Searched(p)
        BY <2>1, <3>1, <4>2
      <4> QED
        BY <4>1, <4>2
    <3>4. ASSUME NEW i \in 0..(netCountAligned - 1) PROVE ItemOf(i)'
      <4>1. CASE i = k
        <5>1. i < netCount' /\ net_pairs'[i] = p
          BY <1>0, <2>1, <2>5, <2>6, <4>1
        <5>2. CASE Searched(p)
          <6>1. /\ state'[k] = 0 /\ stubs'[k] = [node |-> Least(Pins(stub)), net |-> at[t]]
                /\ heads'[k] = infos(source) /\ Least(Pins(stub)) \in Pins(stub)
            BY <1>0, <2>1, <3>1, <5>2
          <6>2. stubs'[k].net = at[t] /\ stubs'[k].node \in Pins(stub)
            BY <6>1
          <6>3. Searched(net_pairs'[i]) /\ Searched(net_pairs[i])'
            BY <2>1, <5>1, <5>2 DEF Searched
          <6> QED
            BY <2>1, <2>4, <3>2, <4>1, <5>1, <6>1, <6>2, <6>3 DEF ItemOf
        <5>3. CASE ~Searched(p)
          <6>1. state'[i] = state[i] /\ ~(state[i] = 0)
            BY <1>0, <2>1, <3>1, <4>1, <5>3 DEF ItemOf
          <6>2. ~Searched(net_pairs[i])'
            BY <2>1, <5>1, <5>3 DEF Searched
          <6> QED
            BY <6>1, <6>2 DEF ItemOf
        <5> QED
          BY <5>2, <5>3
      <4>2. CASE i # k
        <5>1. ItemOf(i)
          BY <3>1
        <5>2. state'[i] = state[i] /\ stubs'[i] = stubs[i] /\ heads'[i] = heads[i]
          <6>1. CASE Searched(p)
            BY <2>1, <3>1, <4>2, <6>1
          <6>2. CASE ~Searched(p)
            BY <2>1, <6>2
          <6> QED
            BY <6>1, <6>2
        <5>3. net_pairs'[i] = net_pairs[i]
          BY <1>0, <2>1, <4>2 DEF VecsInv, PlacesInv
        <5>4. Searched(net_pairs[i])' <=> Searched(net_pairs[i])
          BY <2>1, <5>3 DEF Searched
        <5> QED
          BY <2>1, <5>1, <5>2, <5>3, <5>4 DEF ItemOf
      <4> QED
        BY <4>1, <4>2
    <3> QED
      BY <2>2, <3>3, <3>4 DEF ItemsInv
  <2>10. BeamsInv'
    <3>1. \A q \in Wanted : Placed(q)' => Fits(q)
      BY <1>0, <2>1, <2>3 DEF VecsInv, BeamsInv, p
    <3> QED
      BY <1>2, <2>2, <3>1 DEF BeamsInv
  <2> QED
    BY <2>7, <2>8, <2>9, <2>10 DEF VecsInv
<1> QED
  BY <1>1, <1>2

(* When all have joined every pair has its index, and every index its pair. *)
LEMMA AllPlaced ==
  ASSUME Types, CountInv, VecsInv, pc = "vecs", AllEnded
  PROVE  /\ global_stub_index = netCount
         /\ \A p \in Wanted : Placed(p)
         /\ {net_pairs[i] : i \in DOMAIN net_pairs} = Wanted
         /\ \A i, j \in DOMAIN net_pairs : net_pairs[i] = net_pairs[j] => i = j
         /\ \A i \in 0..(netCount - 1) : net_pairs[i] # None
<1> DEFINE reserved == {p \in Wanted : Reserved(p)}
<1>1. \A p \in Wanted : Passed(p[1])
  BY AllPairsPassed
<1>2. reserved = Wanted /\ \A p \in Wanted : Placed(p)
  BY <1>1 DEF Reserved, Placed
<1>3. global_stub_index = Cardinality(reserved) /\ netCount = Cardinality(Wanted)
  BY DEF CountInv, VecsInv, RangesInv
<1> HIDE DEF reserved
<1>4. global_stub_index = netCount
  BY <1>2, <1>3
<1>5. \A t \in ThreadIds : \A i : ~Pending(t, i)
  BY DEF VecsInv, RangesInv, RangeOf, AllEnded, Pending
<1>6. DOMAIN net_pairs = 0..(netCount - 1)
  BY DEF VecsInv, PlacesInv
<1>7. ASSUME NEW i \in 0..(netCount - 1) PROVE net_pairs[i] # None /\ net_pairs[i] \in Wanted
  <2>1. net_pairs[i] # None
    BY <1>4, <1>5 DEF VecsInv, PlacesInv
  <2> QED
    BY <2>1 DEF VecsInv, PlacesInv
<1>8. \A p \in Wanted : \E i \in 0..(netCount - 1) : net_pairs[i] = p
  BY <1>2 DEF VecsInv, PlacesInv
<1>9. \A i, j \in 0..(netCount - 1) : net_pairs[i] = net_pairs[j] => i = j
  BY <1>7 DEF VecsInv, PlacesInv
<1>10. {net_pairs[i] : i \in DOMAIN net_pairs} = Wanted
  BY <1>6, <1>7, <1>8
<1> QED
  BY <1>2, <1>4, <1>6, <1>7, <1>9, <1>10

LEMMA VecsInvNext ==
  ASSUME Types, CountInv, VecsInv, [Next]_vars
  PROVE  VecsInv'
<1>0. nets' = nets
  BY DEF Next, Main, EndCount, EndVecs, EndBlock, SetupBuffers, Thread, CountStubs, SkipNet,
    Reserve, FillStub, Block, EndNet, Ended
<1>a. /\ Wanted' = Wanted
      /\ \A p : Fits(p)' <=> Fits(p)
  BY <1>0, SameNets
<1>1. CASE EndCount
  BY <1>1, VecsInvEndCount
<1>2. CASE EndVecs
  <2>1. pc = "vecs" /\ AllEnded /\ pc' \in {"block", "aborted"}
    BY <1>2 DEF EndVecs, Abort
  <2>2. \A p \in Wanted : Fits(p)
    BY <2>1, AllPlaced DEF VecsInv, BeamsInv
  <2> QED
    BY <1>a, <2>1, <2>2 DEF VecsInv, RangesInv, PlacesInv, ItemsInv, BeamsInv
<1>3. CASE pc' # "vecs" /\ (pc' \in {"block", "buffers", "done"} => pc \in {"block", "buffers", "done"})
  BY <1>3, <1>a DEF VecsInv, RangesInv, PlacesInv, ItemsInv, BeamsInv
<1>4. ASSUME NEW t \in ThreadIds, Thread(t)
      PROVE  VecsInv'
  <2>1. CASE SkipNet(t)
    BY <2>1, VecsInvSkipNet
  <2>2. CASE Reserve(t)
    BY <2>2, VecsInvReserve
  <2>3. CASE FillStub(t)
    BY <2>3, VecsInvFillStub
  <2>4. CASE CountStubs(t) \/ Block(t) \/ EndNet(t)
    BY <1>3, <2>4 DEF CountStubs, Block, EndNet, Abort
  <2> QED
    BY <1>4, <2>1, <2>2, <2>3, <2>4 DEF Thread
<1>5. CASE EndBlock \/ SetupBuffers
  BY <1>3, <1>5 DEF EndBlock, SetupBuffers, Abort
<1>6. CASE UNCHANGED vars
  <2>1. CASE pc # "vecs"
    BY <1>3, <1>6, <2>1
  <2>2. CASE pc = "vecs"
    <3>1. \A p \in Wanted : (Reserved(p)' <=> Reserved(p)) /\ (Placed(p)' <=> Placed(p))
      BY <1>6 DEF Reserved, Placed, Passed, Here, TurnOf
    <3>2. \A t \in ThreadIds : \A i : Pending(t, i)' <=> Pending(t, i)
      BY <1>6 DEF Pending, Net
    <3>3. \A t \in ThreadIds : RangeOf(t)' <=> RangeOf(t)
      BY <1>6 DEF RangeOf, HasNet, HasStubs, Counted, Net
    <3> QED
      BY <1>6, <2>2, <3>1, <3>2, <3>3, VecsKept DEF VecsInv, RangesInv
  <2> QED
    BY <2>1, <2>2
<1> QED
  BY <1>1, <1>2, <1>4, <1>5, <1>6 DEF Next, Main, Ended

LEMMA StubsIndexedNext ==
  ASSUME Types, CountInv, VecsInv, StubsIndexed, [Next]_vars
  PROVE  StubsIndexed'
<1>0. nets' = nets
  BY DEF Next, Main, EndCount, EndVecs, EndBlock, SetupBuffers, Thread, CountStubs, SkipNet,
    Reserve, FillStub, Block, EndNet, Ended
<1>a. /\ Wanted' = Wanted
      /\ \A p : Searched(p)' <=> Searched(p)
  BY <1>0, SameNets
<1>1. CASE EndVecs /\ pc' = "block"
  <2>1. /\ pc = "vecs" /\ AllEnded
        /\ UNCHANGED <<netCount, net_pairs, stubs, heads, state>>
    BY <1>1 DEF EndVecs
  <2>2. /\ {net_pairs[i] : i \in DOMAIN net_pairs} = Wanted
        /\ \A i, j \in DOMAIN net_pairs : net_pairs[i] = net_pairs[j] => i = j
        /\ \A i \in 0..(netCount - 1) : net_pairs[i] # None
    BY <2>1, AllPlaced
  <2>3. DOMAIN state = 0..(netCountAligned - 1) /\ \A i \in DOMAIN state : ItemOf(i)
    BY <2>1 DEF VecsInv, ItemsInv
  <2>4. DOMAIN state \subseteq Nat /\ netCount \in Nat
    BY <2>3, Aligned DEF Types
  <2>5. ASSUME NEW i \in DOMAIN state
        PROVE  /\ (state[i] = 0) <=> (i < netCount /\ Searched(net_pairs[i]))
               /\ state[i] = 0 =>
                    LET n == net_pairs[i][1] IN
                    /\ stubs[i].net = n /\ stubs[i].node \in Pins(nets[n].stubs[net_pairs[i][2]])
                    /\ heads[i] = infos(nets[n].sources[1])
    BY <2>2, <2>3, <2>4 DEF ItemOf
  <2>6. \A i : Searched(net_pairs[i])' <=> Searched(net_pairs[i])
    BY <1>0, <2>1 DEF Searched
  <2> QED
    BY <1>0, <1>a, <2>1, <2>2, <2>5, <2>6 DEF StubsIndexed
<1>2. CASE /\ UNCHANGED <<netCount, net_pairs, stubs, heads, state>>
           /\ pc' \in {"block", "buffers", "done"} => pc \in {"block", "buffers", "done"}
  <2>1. \A i : Searched(net_pairs[i])' <=> Searched(net_pairs[i])
    BY <1>0, <1>2 DEF Searched
  <2> QED
    BY <1>0, <1>2, <1>a, <2>1 DEF StubsIndexed
<1>3. CASE pc' \in {"count", "vecs", "aborted"}
  BY <1>3 DEF StubsIndexed
<1>4. CASE EndCount \/ EndVecs
  BY <1>1, <1>3, <1>4 DEF EndCount, EndVecs, Abort
<1>5. CASE EndBlock \/ SetupBuffers \/ UNCHANGED vars
  BY <1>2, <1>5 DEF EndBlock, SetupBuffers, Abort
<1>6. ASSUME NEW t \in ThreadIds, Thread(t) PROVE StubsIndexed'
  <2>1. CASE CountStubs(t) \/ SkipNet(t) \/ Reserve(t) \/ FillStub(t)
    BY <1>3, <2>1 DEF CountStubs, SkipNet, Reserve, FillStub, Takes, Abort
  <2>2. CASE Block(t) \/ EndNet(t)
    BY <1>2, <2>2 DEF Block, EndNet, Abort
  <2> QED
    BY <1>6, <2>1, <2>2 DEF Thread
<1> QED
  BY <1>4, <1>5, <1>6 DEF Next, Main, Ended

LEMMA SizeInvNext ==
  ASSUME Types, SizeInv, [Next]_vars
  PROVE  SizeInv'
<1>1. CASE EndCount
  <2>1. /\ netCount' = netCount /\ context' = context
        /\ workgroup_counts' = Counts /\ workgroup_offsets' = Offsets(Counts)
        /\ pc' # "aborted" =>
             LET possible == context.mem \div (netCountAligned * 4)
             IN  ocl_counter_max' = IF possible > LargestCount THEN LargestCount ELSE possible
    BY <1>1 DEF EndCount, Abort
  <2>2. Counts' = Counts /\ netCountAligned' = netCountAligned
    BY <2>1 DEF Counts, netCountAligned, groupCount
  <2>3. Offsets(Counts)' = Offsets(Counts)
    BY <2>2 DEF Offsets
  <2> QED
    BY <2>1, <2>2, <2>3 DEF SizeInv
<1>2. CASE /\ UNCHANGED <<netCount, context, workgroup_counts, workgroup_offsets, ocl_counter_max>>
           /\ pc' \notin {"count", "aborted"} => pc \notin {"count", "aborted"}
  <2>1. Counts' = Counts /\ netCountAligned' = netCountAligned
    BY <1>2 DEF Counts, netCountAligned, groupCount
  <2>2. Offsets(Counts)' = Offsets(Counts)
    BY <2>1 DEF Offsets
  <2> QED
    BY <1>2, <2>1, <2>2 DEF SizeInv
<1>3. CASE EndVecs \/ EndBlock \/ SetupBuffers \/ UNCHANGED vars
  BY <1>2, <1>3 DEF EndVecs, EndBlock, SetupBuffers, Abort
<1>4. ASSUME NEW t \in ThreadIds, Thread(t) PROVE SizeInv'
  <2>1. CASE CountStubs(t)
    BY <2>1 DEF CountStubs, SizeInv
  <2>2. CASE SkipNet(t) \/ Reserve(t) \/ FillStub(t) \/ Block(t) \/ EndNet(t)
    BY <1>2, <2>2 DEF SkipNet, Reserve, FillStub, Takes, Block, EndNet, Abort
  <2> QED
    BY <1>4, <2>1, <2>2 DEF Thread
<1> QED
  BY <1>1, <1>3, <1>4 DEF Next, Main, Ended

-----------------------------------------------------------------------------
(* The sizes. *)

(* The groups of the first queue, which has most. *)
Most == (groupCount + context.queues - 1) \div context.queues

LEMMA QueueCounts ==
  ASSUME NEW s \in Nat, NEW k \in Nat \ {0}, NEW q \in 1..k
  PROVE  /\ (s + k - q) \div k \in Nat
         /\ (s + k - q) \div k <= (s + k - 1) \div k
         /\ k <= s => 1 <= (s + k - q) \div k
         /\ 1 <= (s + k - k) \div k => k <= s
         /\ s <= ((s + k - 1) \div k) * k
<1> DEFINE a == s + k - q
           b == s + k - 1
           c == a \div k
           d == b \div k
           e == (s + k - k) \div k
<1>1. a \in Nat /\ b \in Nat /\ a <= b /\ s <= b /\ b = s + k - 1 /\ b < s + k /\ s <= a /\ s + k - k = s
  OBVIOUS
<1>2. c \in Nat /\ c * k <= a /\ a < c * k + k
  BY <1>1, Quotient
<1>3. d \in Nat /\ d * k <= b /\ b < d * k + k
  BY <1>1, Quotient
<1>4. e \in Nat /\ e * k <= s
  BY <1>1, Quotient
<1> HIDE DEF a, b, c, d, e
<1>5. c * k \in Nat /\ d * k \in Nat /\ e * k \in Nat /\ (d + 1) * k = d * k + k /\ 1 * k = k
      /\ (c + 1) * k = c * k + k
  BY <1>2, <1>3, <1>4, SMTT(30)
<1>6. c <= d
  <2> SUFFICES ASSUME d + 1 <= c PROVE FALSE
    BY <1>2, <1>3
  <2>1. (d + 1) * k <= c * k
    BY <1>2, <1>3, ProductGrows
  <2> QED
    BY <1>1, <1>2, <1>3, <1>5, <2>1
<1>7. ASSUME k <= s PROVE 1 <= c
  <2> SUFFICES ASSUME c = 0 PROVE FALSE
    BY <1>2
  <2>1. c * k = 0
    BY <1>5
  <2> QED
    BY <1>1, <1>2, <1>7, <2>1
<1>8. ASSUME 1 <= e PROVE k <= s
  <2>1. 1 * k <= e * k
    BY <1>4, <1>8, ProductGrows
  <2> QED
    BY <1>4, <1>5, <2>1
<1>9. s <= d * k
  BY <1>1, <1>3, <1>5
<1>10. c = (s + k - q) \div k /\ d = (s + k - 1) \div k /\ e = (s + k - k) \div k
  BY DEF a, b, c, d, e
<1> QED
  BY <1>2, <1>6, <1>7, <1>8, <1>9, <1>10

(* The numbers setup_buffers depends on. *)
LEMMA Sizes ==
  ASSUME Types, CountInv, SizeInv, pc \in {"buffers", "done"}
  PROVE  /\ context.queues \in Nat \ {0} /\ context.queues <= 2 * LargestCount
         /\ context.mem \in Nat
         /\ workgroup_counts = Counts /\ DOMAIN Counts = 1..context.queues
         /\ groupCount \in Nat \ {0} /\ Most \in Nat /\ groupCount <= Most * context.queues
         /\ \A q \in 1..context.queues : Counts[q] \in Nat /\ Counts[q] <= Most
         /\ Counts[1] = Most
         /\ 1 <= Counts[context.queues] => context.queues <= groupCount
         /\ context.queues <= groupCount => \A q \in 1..context.queues : 1 <= Counts[q]
<1>1. /\ context.queues \in 1..(2 * LargestCount) /\ context.mem \in Nat
      /\ LargestCount \in Nat \ {0}
  BY SizesAssumption DEF Types
<1>2. context.queues \in Nat \ {0} /\ context.queues <= 2 * LargestCount
  BY <1>1
<1>3. /\ workgroup_counts = Counts /\ DOMAIN Counts = 1..context.queues
      /\ \A q \in 1..context.queues :
           Counts[q] = (groupCount + context.queues - q) \div context.queues
  BY DEF SizeInv, Counts
<1>4. netCount \in Nat \ {0} /\ GroupSize \in Nat \ {0}
  BY NodeSetupAssumption DEF CountInv, Types
<1>5. groupCount \in Nat /\ netCount <= groupCount * GroupSize
  BY Aligned
<1>6. groupCount # 0
  <2> SUFFICES ASSUME groupCount = 0 PROVE FALSE
    OBVIOUS
  <2>1. groupCount * GroupSize = 0
    BY <1>4
  <2> QED
    BY <1>4, <1>5, <2>1
<1> DEFINE queues == context.queues
           groups == groupCount
<1>7. queues \in Nat \ {0} /\ groups \in Nat /\ 1 \in 1..queues /\ queues \in 1..queues
  BY <1>2, <1>5
<1>8. ASSUME NEW q \in 1..queues
      PROVE  /\ (groups + queues - q) \div queues \in Nat
             /\ (groups + queues - q) \div queues <= (groups + queues - 1) \div queues
             /\ queues <= groups => 1 <= (groups + queues - q) \div queues
             /\ 1 <= (groups + queues - queues) \div queues => queues <= groups
             /\ groups <= ((groups + queues - 1) \div queues) * queues
  <2> HIDE DEF queues, groups
  <2> QED
    BY <1>7, QueueCounts
<1>9. /\ Counts[1] = Most
      /\ Counts[context.queues] = (groups + queues - queues) \div queues
      /\ Most = (groups + queues - 1) \div queues
  BY <1>3, <1>7 DEF Most
<1>10. Most \in Nat /\ groupCount <= Most * context.queues
  BY <1>7, <1>8, <1>9
<1>11. \A q \in 1..context.queues : Counts[q] \in Nat /\ Counts[q] <= Most
  BY <1>3, <1>8, <1>9
<1>12. 1 <= Counts[context.queues] => context.queues <= groupCount
  BY <1>7, <1>8, <1>9
<1>13. context.queues <= groupCount => \A q \in 1..context.queues : 1 <= Counts[q]
  BY <1>3, <1>8
<1> QED
  BY <1>1, <1>2, <1>3, <1>5, <1>6, <1>9, <1>10, <1>11, <1>12, <1>13

(* All lines are no larger than the histories of the largest queue, and with two     *)
(* queues at most they are that often no larger as a history has entries.            *)
LEMMA LinesFit ==
  ASSUME NEW g \in Nat, NEW G \in Nat, NEW k \in Nat, NEW m \in Nat, NEW L \in Nat,
         g <= m * k
  PROVE  /\ k <= 2 * L => (g * G) * 4 <= m * G * L * 8
         /\ k <= 2 => L * ((g * G) * 4) <= m * G * L * 8
<1> DEFINE u == g * G
           v == m * G
<1>1. u \in Nat /\ v \in Nat /\ m * k \in Nat
  BY Product
<1>2. g * G <= (m * k) * G
  BY <1>1, ProductGrows
<1>3. (m * k) * G = (m * G) * k
  BY SMTT(30)
<1>4. u <= v * k
  BY <1>2, <1>3
<1>5. m * G * L * 8 = v * L * 8
  OBVIOUS
<1> HIDE DEF u, v
<1>6. v * k \in Nat /\ v * L \in Nat /\ u * L \in Nat /\ v * 2 \in Nat /\ v * (2 * L) \in Nat
  BY <1>1, Product
<1>7. ASSUME k <= 2 * L PROVE u * 4 <= v * L * 8
  <2>1. v * k <= v * (2 * L)
    BY <1>1, <1>7, ProductGrows
  <2>2. v * (2 * L) = (v * L) * 2
    BY <1>1, SMTT(30)
  <2> QED
    BY <1>1, <1>4, <1>6, <2>1, <2>2
<1>8. ASSUME k <= 2 PROVE L * (u * 4) <= v * L * 8
  <2>1. v * k <= v * 2
    BY <1>1, <1>8, ProductGrows
  <2>2. u <= v * 2
    BY <1>1, <1>4, <1>6, <2>1
  <2>3. u * L <= (v * 2) * L
    BY <1>1, <1>6, <2>2, ProductGrows
  <2>4. (v * 2) * L = (v * L) * 2 /\ L * (u * 4) = (u * L) * 4
    BY <1>1, SMTT(30)
  <2> QED
    BY <1>6, <2>3, <2>4
<1> QED
  BY <1>5, <1>7, <1>8 DEF u, v

(* If the histories of the first queue fit in a buffer, there is room for a line. *)
LEMMA HistoriesFit ==
  ASSUME Types, CountInv, SizeInv, pc \in {"buffers", "done"},
         Most * GroupSize * LargestCount * 8 <= context.mem
  PROVE  /\ ocl_counter_max \in 1..LargestCount
         /\ context.queues <= 2 => ocl_counter_max = LargestCount
<1> DEFINE bytes == netCountAligned * 4
           possible == context.mem \div bytes
           histories == Most * GroupSize * LargestCount * 8
<1>1. /\ context.queues \in Nat \ {0} /\ context.queues <= 2 * LargestCount
      /\ context.mem \in Nat
      /\ groupCount \in Nat \ {0} /\ Most \in Nat /\ groupCount <= Most * context.queues
  BY Sizes
<1>2. GroupSize \in Nat \ {0} /\ LargestCount \in Nat \ {0}
  BY NodeSetupAssumption, SizesAssumption
<1>3. netCountAligned = groupCount * GroupSize /\ netCountAligned \in Nat
      /\ netCount <= netCountAligned /\ netCount \in Nat /\ netCount # 0
  BY Aligned DEF CountInv, Types
<1>4. bytes = (groupCount * GroupSize) * 4 /\ bytes \in Nat \ {0}
  BY <1>3
<1>5. /\ bytes <= histories
      /\ context.queues <= 2 => LargestCount * bytes <= histories
  <2> DEFINE k == context.queues
             g == groupCount
             m == Most
  <2>1. k \in Nat /\ g \in Nat /\ m \in Nat /\ g <= m * k /\ k <= 2 * LargestCount
    BY <1>1
  <2> HIDE DEF k, g, m
  <2>2. /\ k <= 2 * LargestCount => (g * GroupSize) * 4 <= m * GroupSize * LargestCount * 8
        /\ k <= 2 => LargestCount * ((g * GroupSize) * 4) <= m * GroupSize * LargestCount * 8
    BY <1>2, <2>1, LinesFit
  <2> QED
    BY <1>4, <2>1, <2>2 DEF k, g, m
<1>6. ocl_counter_max = IF possible > LargestCount THEN LargestCount ELSE possible
  BY DEF SizeInv
<1>7. histories <= context.mem
  OBVIOUS
<1> HIDE DEF bytes, histories
<1>8. possible \in Nat /\ possible * bytes <= context.mem /\ context.mem < possible * bytes + bytes
  BY <1>1, <1>4, Quotient
<1> HIDE DEF possible
<1>9. histories \in Nat
  <2>1. Most * GroupSize \in Nat
    BY <1>1, <1>2, Product
  <2>2. Most * GroupSize * LargestCount \in Nat
    BY <1>2, <2>1, Product
  <2> QED
    BY <2>2 DEF histories
<1>10. possible # 0
  <2> SUFFICES ASSUME possible = 0 PROVE FALSE
    OBVIOUS
  <2>1. possible * bytes = 0
    BY <1>4
  <2> QED
    BY <1>1, <1>4, <1>5, <1>7, <1>8, <1>9, <2>1
<1>11. ASSUME context.queues <= 2 PROVE LargestCount <= possible
  <2> SUFFICES ASSUME possible + 1 <= LargestCount PROVE FALSE
    BY <1>2, <1>8
  <2>1. (possible + 1) * bytes <= LargestCount * bytes
    BY <1>2, <1>4, <1>8, ProductGrows
  <2>2. (possible + 1) * bytes = possible * bytes + bytes /\ possible * bytes \in Nat
    BY <1>4, <1>8, SMTT(30)
  <2>3. LargestCount * bytes <= histories /\ LargestCount * bytes \in Nat
    BY <1>2, <1>4, <1>5, <1>11, Product
  <2> QED
    BY <1>1, <1>4, <1>7, <1>8, <1>9, <2>1, <2>2, <2>3
<1> QED
  BY <1>2, <1>6, <1>8, <1>10, <1>11

Workable == /\ context.queues <= groupCount
            /\ Most * GroupSize * LargestCount * 8 <= context.mem

LEMMA CreatableIfWorkable ==
  ASSUME Types, CountInv, SizeInv, pc = "buffers"
  PROVE  (\A q \in DOMAIN workgroup_counts : Creatable(q)) <=> Workable
<1>1. /\ context.queues \in Nat \ {0} /\ context.mem \in Nat
      /\ workgroup_counts = Counts /\ DOMAIN Counts = 1..context.queues
      /\ groupCount \in Nat \ {0} /\ Most \in Nat
      /\ \A q \in 1..context.queues : Counts[q] \in Nat /\ Counts[q] <= Most
      /\ Counts[1] = Most
      /\ 1 <= Counts[context.queues] => context.queues <= groupCount
      /\ context.queues <= groupCount => \A q \in 1..context.queues : 1 <= Counts[q]
  BY Sizes
<1>2. /\ GroupSize \in Nat \ {0} /\ LargestCount \in Nat \ {0} /\ BeamWidth \in Nat \ {0}
      /\ 2 * BeamWidth <= LargestCount
  BY NodeSetupAssumption, SizesAssumption
<1>3. ASSUME \A q \in DOMAIN workgroup_counts : Creatable(q) PROVE Workable
  <2>1. /\ Counts[context.queues] * GroupSize * 16 >= 1
        /\ Counts[1] * GroupSize * (LargestCount * 8) <= context.mem
    <3>1. 1 \in DOMAIN workgroup_counts /\ context.queues \in DOMAIN workgroup_counts
      BY <1>1
    <3>2. 16 \in PartSizes /\ LargestCount * 8 \in PartSizes
      BY DEF PartSizes
    <3>3. /\ ItemsOf(context.queues) * 16 \in 1..context.mem
          /\ ItemsOf(1) * (LargestCount * 8) \in 1..context.mem
      BY <1>3, <3>1, <3>2 DEF Creatable
    <3> QED
      BY <1>1, <3>3 DEF ItemsOf
  <2>2. 1 <= Counts[context.queues]
    <3> DEFINE c == Counts[context.queues]
    <3>1. c \in Nat
      BY <1>1
    <3>2. c * GroupSize * 16 >= 1
      BY <2>1
    <3> HIDE DEF c
    <3>3. c # 0
      <4> SUFFICES ASSUME c = 0 PROVE FALSE
        OBVIOUS
      <4>1. c * GroupSize = 0
        BY <1>2
      <4> QED
        BY <3>2, <4>1
    <3>4. 1 <= c
      BY <3>1, <3>3
    <3> QED
      BY <3>4 DEF c
  <2>3. Most * GroupSize * LargestCount * 8 <= context.mem
    <3> DEFINE items == Most * GroupSize
    <3>1. items \in Nat /\ items * (LargestCount * 8) <= context.mem
      BY <1>1, <1>2, <2>1, Product
    <3> HIDE DEF items
    <3>2. items * LargestCount * 8 = items * (LargestCount * 8)
      BY <1>2, <3>1, SMTT(30)
    <3> QED
      BY <3>1, <3>2 DEF items
  <2> QED
    BY <1>1, <2>2, <2>3 DEF Workable
<1>4. ASSUME Workable, NEW q \in DOMAIN workgroup_counts PROVE Creatable(q)
  <2> DEFINE items == ItemsOf(q)
             mostItems == Most * GroupSize
  <2>1. Counts[q] \in Nat /\ 1 <= Counts[q] /\ Counts[q] <= Most
    BY <1>1, <1>4 DEF Workable
  <2>2. items = Counts[q] * GroupSize
    BY <1>1 DEF ItemsOf
  <2>3. items \in Nat \ {0} /\ items <= mostItems /\ mostItems \in Nat
    <3> DEFINE c == Counts[q]
    <3>1. c \in Nat /\ 1 <= c /\ c <= Most
      BY <2>1
    <3> HIDE DEF c
    <3>2. 1 * GroupSize <= c * GroupSize /\ c * GroupSize <= Most * GroupSize
      BY <1>1, <1>2, <3>1, ProductGrows
    <3>3. c * GroupSize \in Nat /\ Most * GroupSize \in Nat
      BY <1>1, <1>2, <3>1, Product
    <3>4. items = c * GroupSize
      BY <2>2 DEF c
    <3> QED
      BY <1>2, <3>2, <3>3, <3>4
  <2>4. mostItems * (LargestCount * 8) <= context.mem
    <3>1. mostItems * LargestCount * 8 <= context.mem
      BY <1>4 DEF Workable
    <3> HIDE DEF mostItems
    <3>2. mostItems * LargestCount * 8 = mostItems * (LargestCount * 8)
      BY <1>2, <2>3, SMTT(30)
    <3> QED
      BY <3>1, <3>2
  <2>5. ocl_counter_max \in 1..LargestCount
    BY <1>4, HistoriesFit DEF Workable
  <2>6. \A size \in PartSizes : size \in Nat \ {0} /\ size <= LargestCount * 8
    BY <1>2, <2>5 DEF PartSizes
  <2> HIDE DEF items, mostItems
  <2>7. ASSUME NEW size \in Nat \ {0}, size <= LargestCount * 8
        PROVE  items * size \in 1..context.mem
    <3> DEFINE entries == LargestCount * 8
    <3>1. entries \in Nat /\ size <= entries /\ mostItems * entries <= context.mem
      BY <1>2, <2>4, <2>7
    <3> HIDE DEF entries
    <3>2. items * size <= mostItems * size /\ mostItems * size <= mostItems * entries
      BY <2>3, <2>7, <3>1, ProductGrows
    <3>3. 1 * size <= items * size
      BY <2>3, <2>7, ProductGrows
    <3>4. items * size \in Nat /\ mostItems * size \in Nat /\ mostItems * entries \in Nat
      BY <2>3, <2>7, <3>1, Product
    <3> QED
      BY <1>1, <3>1, <3>2, <3>3, <3>4
  <2> QED
    BY <2>6, <2>7 DEF Creatable, items
<1> QED
  BY <1>3, <1>4

(* With the stubs counted, the trouble setup_buffers finds is that of Troubled. *)
LEMMA TroubledSizes ==
  ASSUME Types, CountInv, pc \notin {"count", "aborted"}
  PROVE  Troubled <=>
           \/ Users(None) # {}
           \/ \E p \in Wanted : ~Fits(p)
           \/ ~Workable
<1>1. netCount = Cardinality(Wanted) /\ netCount # 0
  BY DEF CountInv
<1>2. Wanted # {}
  BY <1>1, FS_EmptySet
<1>3. groupCount = (Cardinality(Wanted) + GroupSize - 1) \div GroupSize
  BY <1>1, Aligned
<1>4. groupCount \in Nat /\ context.queues \in Nat \ {0} /\ context.mem \in Nat
  BY Aligned, SizesAssumption DEF Types
<1>5. Most \in Nat
  <2> DEFINE k == context.queues
             a == groupCount + k - 1
  <2>1. k \in Nat \ {0} /\ a \in Nat
    BY <1>4
  <2>2. Most = a \div k
    BY DEF Most
  <2> HIDE DEF k, a
  <2> QED
    BY <2>1, <2>2, Quotient
<1> DEFINE histories == Most * GroupSize * LargestCount * 8
<1>6. histories \in Nat
  <2>1. GroupSize \in Nat /\ LargestCount \in Nat
    BY NodeSetupAssumption, SizesAssumption
  <2>2. Most * GroupSize \in Nat
    BY <1>5, <2>1, Product
  <2>3. Most * GroupSize * LargestCount \in Nat
    BY <2>1, <2>2, Product
  <2> QED
    BY <2>3
<1>7. Troubled <=>
        \/ Wanted = {} \/ Users(None) # {}
        \/ \E p \in Wanted : /\ Searched(p)
                             /\ Cardinality(infos(nets[p[1]].sources[1])) > BeamWidth
        \/ groupCount < context.queues
        \/ histories > context.mem
  BY <1>3 DEF Troubled, Most
<1>8. groupCount < context.queues <=> ~(context.queues <= groupCount)
  BY <1>4
<1>9. histories > context.mem <=> ~(histories <= context.mem)
  BY <1>4, <1>6
<1> HIDE DEF histories
<1>10. Workable <=> context.queues <= groupCount /\ histories <= context.mem
  BY DEF Workable, histories
<1>11. (\E p \in Wanted : ~Fits(p)) <=>
         \E p \in Wanted : /\ Searched(p)
                           /\ Cardinality(infos(nets[p[1]].sources[1])) > BeamWidth
  BY DEF Fits
<1> QED
  BY <1>2, <1>7, <1>8, <1>9, <1>10, <1>11

-----------------------------------------------------------------------------
(* The ends. *)

EndInv == /\ pc = "aborted" => Troubled
          /\ pc = "done" => ~Troubled

LEMMA EndInvNext ==
  ASSUME Types, CountInv, VecsInv, BlockInv, OwnersInv, SizeInv, EndInv, [Next]_vars
  PROVE  EndInv'
<1>0. nets' = nets /\ context' = context
  BY DEF Next, Main, EndCount, EndVecs, EndBlock, SetupBuffers, Thread, CountStubs, SkipNet,
    Reserve, FillStub, Block, EndNet, Ended
<1>a. Troubled' <=> Troubled
  <2>1. /\ Wanted' = Wanted /\ Users(None)' = Users(None)
        /\ \A p : Searched(p)' <=> Searched(p)
    BY <1>0, SameNets
  <2> QED
    BY <1>0, <2>1 DEF Troubled
<1>1. CASE EndCount
  <2>1. CASE pc' = "vecs"
    BY <2>1 DEF EndInv
  <2>2. CASE pc' # "vecs"
    <3>1. pc = "count" /\ netCount = 0 /\ AllEnded /\ pc' = "aborted"
      BY <1>1, <2>2 DEF EndCount, Abort
    <3>2. {p \in Wanted : Passed(p[1])} = Wanted
      BY <3>1, AllPairsPassed
    <3>3. Cardinality(Wanted) = 0
      BY <3>1, <3>2 DEF CountInv
    <3>4. Wanted = {}
      BY <3>3, WantedPairs, FS_EmptySet DEF Types
    <3>5. Troubled
      BY <3>4 DEF Troubled
    <3> QED
      BY <1>a, <3>1, <3>5 DEF EndInv
  <2> QED
    BY <2>1, <2>2
<1>2. CASE EndVecs
  <2>1. pc = "vecs" /\ AllEnded
    BY <1>2 DEF EndVecs
  <2>2. global_stub_index = netCount
    BY <2>1, AllPlaced
  <2>3. pc' = "block"
    BY <1>2, <2>2 DEF EndVecs
  <2> QED
    BY <2>3 DEF EndInv
<1>3. CASE EndBlock
  BY <1>3 DEF EndBlock, EndInv
<1>4. CASE SetupBuffers
  <2>1. pc = "buffers"
    BY <1>4 DEF SetupBuffers
  <2>2. Users(None) = {} /\ \A p \in Wanted : Fits(p)
    BY <2>1 DEF OwnersInv, VecsInv, BeamsInv
  <2>3. Troubled <=> ~Workable
    BY <2>1, <2>2, TroubledSizes
  <2>4. (\A q \in DOMAIN workgroup_counts : Creatable(q)) <=> Workable
    BY <2>1, CreatableIfWorkable
  <2>5. CASE Workable
    <3>1. pc' = "done"
      BY <1>4, <2>4, <2>5 DEF SetupBuffers
    <3> QED
      BY <1>a, <2>3, <2>5, <3>1 DEF EndInv
  <2>6. CASE ~Workable
    <3>1. pc' = "aborted"
      BY <1>4, <2>4, <2>6 DEF SetupBuffers, Abort
    <3> QED
      BY <1>a, <2>3, <2>6, <3>1 DEF EndInv
  <2> QED
    BY <2>5, <2>6
<1>5. ASSUME NEW t \in ThreadIds, FillStub(t) PROVE EndInv'
  <2>1. CASE pc' # "aborted"
    <3>1. pc' = "vecs"
      BY <1>5, <2>1 DEF FillStub, Abort
    <3> QED
      BY <3>1 DEF EndInv
  <2>2. CASE pc' = "aborted"
    <3> DEFINE p == PairOf(t)
               source == nets[at[t]].sources[1]
               stub == nets[at[t]].stubs[stub_offset[t] + 1]
    <3>1. pc = "vecs" /\ HasNet(t) /\ p \in Wanted
      BY <1>5, IndexPending
    <3>2. Net(t) = nets[at[t]]
      BY <3>1, NetOfThread
    <3>3. /\ ~(Pins(source) = {} \/ Pins(stub) = {})
          /\ Cardinality(infos(source)) > BeamWidth
      BY <1>5, <2>2, <3>1, <3>2 DEF FillStub
    <3>4. p[1] = at[t] /\ p[2] = stub_offset[t] + 1
      BY DEF PairOf
    <3>5. Searched(p) /\ Cardinality(infos(nets[p[1]].sources[1])) > BeamWidth
      BY <3>3, <3>4 DEF Searched
    <3>6. Troubled
      BY <3>1, <3>5 DEF Troubled
    <3> QED
      BY <1>a, <2>2, <3>6 DEF EndInv
  <2> QED
    BY <2>1, <2>2
<1>6. ASSUME NEW t \in ThreadIds, Block(t) PROVE EndInv'
  <2>1. pc = "block" /\ HasNet(t)
    BY <1>6 DEF Block
  <2>2. CASE pc' # "aborted"
    <3>1. pc' = "block"
      BY <1>6, <2>1, <2>2 DEF Block, Abort
    <3> QED
      BY <3>1 DEF EndInv
  <2>3. CASE pc' = "aborted"
    <3>1. None \in Resources(Net(t))
      BY <1>6, <2>1, <2>3 DEF Block
    <3>2. at[t] \in DOMAIN nets /\ Net(t) = nets[at[t]]
      BY <2>1, NetOfThread
    <3>3. at[t] \in Users(None)
      BY <3>1, <3>2, UsersAreUsers
    <3>4. Troubled
      BY <3>3 DEF Troubled
    <3> QED
      BY <1>a, <2>3, <3>4 DEF EndInv
  <2> QED
    BY <2>2, <2>3
<1>7. ASSUME NEW t \in ThreadIds, CountStubs(t) \/ SkipNet(t) \/ Reserve(t) \/ EndNet(t)
      PROVE  EndInv'
  BY <1>7 DEF CountStubs, SkipNet, Reserve, EndNet, Takes, EndInv
<1>8. CASE UNCHANGED vars
  BY <1>8, <1>a DEF EndInv
<1> QED
  BY <1>1, <1>2, <1>3, <1>4, <1>5, <1>6, <1>7, <1>8 DEF Next, Main, Thread, Ended

(* The sums of one or two queues. *)
LEMMA SumsOfTwo ==
  ASSUME NEW size, NEW k \in 1..2, DOMAIN size = 1..k
  PROVE  /\ Sums(size)[1] = 0
         /\ k = 2 => Sums(size)[2] = 0 + size[1]
<1> DEFINE IsRun(f) == f = [q \in 1..k |-> IF q = 1 THEN 0 ELSE f[q - 1] + size[q - 1]]
           run == [q \in 1..k |-> IF q = 1 THEN 0 ELSE 0 + size[1]]
           sums == CHOOSE f : IsRun(f)
<1>1. IsRun(run)
  <2>1. ASSUME NEW q \in 1..k
        PROVE  run[q] = IF q = 1 THEN 0 ELSE run[q - 1] + size[q - 1]
    <3>1. CASE q = 1
      BY <3>1
    <3>2. CASE q # 1
      <4>1. q = 2 /\ k = 2 /\ q - 1 = 1
        BY <3>2
      <4>2. run[1] = 0 /\ run[2] = 0 + size[1]
        BY <4>1
      <4> QED
        BY <4>1, <4>2
    <3> QED
      BY <3>1, <3>2
  <2> HIDE DEF run
  <2>2. run = [q \in 1..k |-> run[q]]
    BY DEF run
  <2>3. run = [q \in 1..k |-> IF q = 1 THEN 0 ELSE run[q - 1] + size[q - 1]]
    BY <2>1, <2>2
  <2> QED
    BY <2>3 DEF IsRun
<1>2. IsRun(sums)
  <2> HIDE DEF IsRun, run
  <2> QED
    BY <1>1
<1> HIDE DEF run
<1>3. sums = [q \in 1..k |-> IF q = 1 THEN 0 ELSE sums[q - 1] + size[q - 1]]
  BY <1>2
<1> DEFINE f == sums
<1>4. f = [q \in 1..k |-> IF q = 1 THEN 0 ELSE f[q - 1] + size[q - 1]]
  BY <1>3
<1> HIDE DEF f
<1>5. f[1] = 0
  BY <1>4
<1>6. k = 2 => f[2] = 0 + size[1]
  <2> SUFFICES ASSUME k = 2 PROVE f[2] = 0 + size[1]
    OBVIOUS
  <2>1. 2 \in 1..k /\ 2 # 1 /\ 2 - 1 = 1
    OBVIOUS
  <2>2. f[2] = f[2 - 1] + size[2 - 1]
    BY <1>4, <2>1
  <2> QED
    BY <1>5, <2>1, <2>2
<1>7. Sums(size) = f
  BY DEF Sums, f
<1> QED
  BY <1>5, <1>6, <1>7

LEMMA ReadBack ==
  ASSUME Types, CountInv, SizeInv, EndInv
  PROVE  HistoriesReadBack
<1> SUFFICES ASSUME pc = "done", context.queues <= 2, NEW q \in DOMAIN workgroup_counts,
                    NEW item \in 0..(ItemsOf(q) - 1), NEW entry \in 0..(ocl_counter_max - 1)
             PROVE  Logged(q, item, entry) = Read(workgroup_offsets[q] * GroupSize + item, entry)
  BY DEF HistoriesReadBack
<1>1. /\ context.queues \in Nat \ {0} /\ workgroup_counts = Counts
      /\ DOMAIN Counts = 1..context.queues
      /\ \A j \in 1..context.queues : Counts[j] \in Nat
  BY Sizes
<1>2. Most * GroupSize * LargestCount * 8 <= context.mem
  <2>1. Workable
    BY TroubledSizes DEF EndInv
  <2> QED
    BY <2>1 DEF Workable
<1>3. ocl_counter_max = LargestCount /\ LargestCount \in Nat \ {0} /\ GroupSize \in Nat \ {0}
  BY <1>2, HistoriesFit, SizesAssumption, NodeSetupAssumption
<1>4. workgroup_offsets = Sums(Counts)
  BY DEF SizeInv, Offsets
<1> DEFINE k == context.queues
           items == [j \in 1..k |-> ItemsOf(j)]
<1>5. ReadFrom = Sums(items)
  BY <1>1 DEF ReadFrom
<1>6. k \in 1..2
  BY <1>1
<1>7. k = 2 => ItemsOf(1) = Counts[1] * GroupSize
  BY <1>1 DEF ItemsOf
<1>8. /\ Sums(items)[1] = 0
      /\ k = 2 => Sums(items)[2] = 0 + items[1]
  <2>1. DOMAIN items = 1..k
    OBVIOUS
  <2> HIDE DEF items, k
  <2> QED
    BY <1>6, <2>1, SumsOfTwo
<1>9. /\ Sums(Counts)[1] = 0
      /\ k = 2 => Sums(Counts)[2] = 0 + Counts[1]
  <2>1. DOMAIN Counts = 1..k
    BY <1>1
  <2> HIDE DEF k
  <2> QED
    BY <1>6, <2>1, SumsOfTwo
<1>10. ReadFrom[q] = workgroup_offsets[q] * GroupSize /\ workgroup_offsets[q] \in Nat
  <2>1. q = 1 \/ (q = 2 /\ k = 2)
    BY <1>1, <1>6
  <2>2. CASE q = 1
    BY <1>3, <1>4, <1>5, <1>8, <1>9, <2>2
  <2>3. CASE q = 2 /\ k = 2
    <3>1. 1 \in 1..k /\ items[1] = Counts[1] * GroupSize /\ Counts[1] \in Nat
      BY <1>1, <1>7, <2>3
    <3>2. Counts[1] * GroupSize \in Nat
      BY <1>3, <3>1, Product
    <3>3. ReadFrom[2] = Counts[1] * GroupSize
      BY <1>5, <1>8, <2>3, <3>1, <3>2
    <3>4. workgroup_offsets[2] = Counts[1]
      BY <1>4, <1>9, <2>3, <3>1
    <3> QED
      BY <2>3, <3>1, <3>3, <3>4
  <2> QED
    BY <2>1, <2>2, <2>3
<1> DEFINE offset == workgroup_offsets[q]
           L == LargestCount
           from == offset * GroupSize
<1>11. ItemsOf(q) \in Nat
  <2>1. Counts[q] \in Nat /\ ItemsOf(q) = Counts[q] * GroupSize
    BY <1>1 DEF ItemsOf
  <2> QED
    BY <1>3, <2>1, Product
<1>12. item \in Nat /\ entry \in Nat /\ from \in Nat
  BY <1>3, <1>10, <1>11, Product
<1>13. /\ Logged(q, item, entry) = from * L + item * L + entry
       /\ Read(workgroup_offsets[q] * GroupSize + item, entry) = (from + item) * L + entry
  BY <1>3, <1>10 DEF Logged, Read
<1> HIDE DEF from
<1>14. (from + item) * L = from * L + item * L
  BY <1>3, <1>12, SMTT(30)
<1> QED
  BY <1>13, <1>14

-----------------------------------------------------------------------------
(* The theorems. *)

IInv == /\ Types /\ CountInv /\ VecsInv /\ BlockInv /\ OwnersInv /\ SizeInv /\ EndInv
        /\ StubsIndexed

LEMMA IInvInit == Init => IInv
<1> SUFFICES ASSUME Init PROVE IInv
  OBVIOUS
<1>1. SizeInv /\ EndInv /\ StubsIndexed
  BY DEF Init, SizeInv, EndInv, StubsIndexed
<1> QED
  BY <1>1, TypesInit, CountInvInit, VecsInvInit, BlockInvInit, OwnersInvInit DEF IInv

LEMMA IInvNext == IInv /\ [Next]_vars => IInv'
BY TypesNext, CountInvNext, VecsInvNext, BlockInvNext, OwnersInvNext, SizeInvNext,
  EndInvNext, StubsIndexedNext DEF IInv

THEOREM Invariance == Spec => []IInv
BY IInvInit, IInvNext, PTL DEF Spec

(* Each stub ends up at one index, whatever the threads of make_vecs reserve and fill  *)
(* between each other.                                                                 *)
THEOREM StubsAreIndexed == Spec => []StubsIndexed
<1>1. IInv => StubsIndexed
  BY DEF IInv
<1> QED
  BY <1>1, Invariance, PTL

(* Whether OCL_Node_Router::make makes the router depends on its input alone, and then *)
(* the nodes have owners that use them.                                                *)
THEOREM RouterIsMade == Spec => []MadeAsItShould
<1>1. IInv => MadeAsItShould
  BY DEF IInv, EndInv, OwnersInv, MadeAsItShould
<1> QED
  BY <1>1, Invariance, PTL

(* With two devices at most, read_buffer_group reads a history where the kernel logs it. *)
THEOREM HistoriesAreReadBack == Spec => []HistoriesReadBack
<1>1. IInv => HistoriesReadBack
  BY ReadBack DEF IInv
<1> QED
  BY <1>1, Invariance, PTL
=============================================================================
