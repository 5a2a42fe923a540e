-------------------------- MODULE NodeRouterProofs --------------------------
(***************************************************************************)
(* What NodeRouter.tla keeps, for every device, netlist, beam width and    *)
(* number of expansions, series and restarts.                              *)
(*                                                                         *)
(* KernelInv says what a search leaves behind: the history of a stub is a  *)
(* forest rooted at the sources of its net, over all series of a restart,  *)
(* and its beam extends it.  StoreInv says what the host makes of it: the  *)
(* walk goes down such a history and ends at a source, the forward pass    *)
(* has checked the owners of what it passed, so what StoreRoute claims is  *)
(* a whole route of nodes that are free or the net's own.                  *)
(*                                                                         *)
(* Then what it gives up, and why.  SearchInv says what a search has seen: *)
(* every free pip that leaves a node it has seen leads to one it has seen, *)
(* to a head of its beam or to one it is about to make.  With an empty     *)
(* beam that set is closed, and it stays so, because owners only grow.     *)
(* RefusalInv ties each route the host has passed over to the chain of     *)
(* entries its walk went up.                                               *)
(***************************************************************************)
EXTENDS NodeRouter, FiniteSetTheorems, SequenceTheorems, WellFoundedInduction, TLAPS

-----------------------------------------------------------------------------
(* What a pop and an insertion leave in a beam: heads that were there, or  *)
(* the new one, in the order of their costs. *)

(* A nonempty set of naturals has a least element. *)
LEMMA LeastNat ==
  ASSUME NEW T, T \subseteq Nat, T # {}
  PROVE  \E x \in T : \A y \in T : x <= y
<1>1. \E x \in T : \A y \in T : ~(<<y, x>> \in OpToRel(<, Nat))
  BY NatLessThanWellFounded, WFMin, Zenon
<1>2. PICK x \in T : \A y \in T : ~(<<y, x>> \in OpToRel(<, Nat))
  BY <1>1
<1>3. ASSUME NEW y \in T PROVE x <= y
  <2>1. <<y, x>> \in Nat \X Nat
    OBVIOUS
  <2>2. ~(y < x)
    BY <1>2, <2>1 DEF OpToRel
  <2> QED
    BY <2>2
<1> QED
  BY <1>3

(* The head a slot receives comes from the last slot before it that swaps. *)
LEMMA CarriedIsLast ==
  ASSUME NEW line, NEW j \in Nat \ {0}
  PROVE  /\ Carried(line, j) \in 0..(j - 1)
         /\ Swaps(line, Carried(line, j))
         /\ \A k \in (Carried(line, j) + 1)..(j - 1) : ~Swaps(line, k)
<1> DEFINE T == {d \in 0..(j - 1) : Swaps(line, j - 1 - d)}
<1>1. Swaps(line, 0)
  BY DEF Swaps
<1>2. T \subseteq Nat /\ j - 1 \in T
  BY <1>1
<1>3. PICK x \in T : \A y \in T : x <= y
  BY <1>2, LeastNat
<1> DEFINE last == j - 1 - x
<1>4. last \in 0..(j - 1) /\ Swaps(line, last)
  OBVIOUS
<1>5. ASSUME NEW k \in (last + 1)..(j - 1) PROVE ~Swaps(line, k)
  <2>1. j - 1 - k \in 0..(j - 1) /\ j - 1 - k < x /\ k = j - 1 - (j - 1 - k)
    OBVIOUS
  <2>2. j - 1 - k \notin T
    BY <1>3, <2>1
  <2> QED
    BY <2>1, <2>2
<1>6. \E i \in 0..(j - 1) :
        Swaps(line, i) /\ \A k \in (i + 1)..(j - 1) : ~Swaps(line, k)
  BY <1>4, <1>5
<1> QED
  BY <1>6 DEF Carried

(* An insertion puts nothing in a beam but the new head: slots that hold   *)
(* heads of S, or none, still do when a head of S is inserted. *)
LEMMA InsertKeepsHeads ==
  ASSUME NEW S, NEW beam \in [1..BeamWidth -> S \cup {None}], NEW h \in S
  PROVE  Insert(beam, h) \in [1..BeamWidth -> S \cup {None}]
<1> DEFINE line == Line(beam, h)
<1>1. ASSUME NEW i \in 0..InsertWidth PROVE line[i] \in S \cup {None}
  BY WidthAssumption DEF Line
<1>2. ASSUME NEW j \in 1..BeamWidth, j <= InsertWidth
      PROVE  line[Carried(line, j)] \in S \cup {None}
  <2>1. Carried(line, j) \in 0..(j - 1)
    BY CarriedIsLast, WidthAssumption
  <2>2. Carried(line, j) \in 0..InsertWidth
    BY <1>2, <2>1, WidthAssumption
  <2> QED
    BY <1>1, <2>2
<1>3. ASSUME NEW j \in 1..BeamWidth
      PROVE  (IF j <= InsertWidth /\ Swaps(line, j)
              THEN line[Carried(line, j)] ELSE beam[j]) \in S \cup {None}
  BY <1>2
<1> HIDE DEF line
<1> QED
  BY <1>3, Zenon DEF Insert, line

(* A pop leaves the other heads. *)
LEMMA ShiftKeepsHeads ==
  ASSUME NEW S, NEW beam \in [1..BeamWidth -> S \cup {None}]
  PROVE  Shift(beam) \in [1..BeamWidth -> S \cup {None}]
BY WidthAssumption DEF Shift

(* An insertion that leaves no head over keeps them all. *)
LEMMA InsertLosesNone ==
  ASSUME NEW beam, NEW h, h # None, Overflow(beam, h) = None,
         NEW x, x # None, x = h \/ \E i \in 1..BeamWidth : x = beam[i]
  PROVE  \E j \in 1..BeamWidth : Insert(beam, h)[j] = x
<1> DEFINE line == Line(beam, h)
<1>1. \A j \in 1..BeamWidth :
        Insert(beam, h)[j] = IF j <= InsertWidth /\ Swaps(line, j)
                             THEN line[Carried(line, j)] ELSE beam[j]
  BY DEF Insert
<1>2. ASSUME NEW i \in 0..InsertWidth, Swaps(line, i), line[i] = x
      PROVE  \E j \in 1..BeamWidth : Insert(beam, h)[j] = x
  <2> DEFINE T == {j \in (i + 1)..InsertWidth : Swaps(line, j)}
  <2>1. T # {}
    <3> SUFFICES ASSUME \A j \in (i + 1)..InsertWidth : ~Swaps(line, j)
                 PROVE  FALSE
      OBVIOUS
    <3> DEFINE c == Carried(line, InsertWidth + 1)
    <3>1. /\ c \in 0..InsertWidth /\ Swaps(line, c)
          /\ \A k \in (c + 1)..InsertWidth : ~Swaps(line, k)
      BY WidthAssumption, CarriedIsLast
    <3> HIDE DEF c, line
    <3>2. c = i
      BY <1>2, <3>1, WidthAssumption
    <3> QED
      BY <1>2, <3>2 DEF Overflow, c, line
  <2>2. PICK j \in T : \A k \in T : j <= k
    <3>1. T \subseteq Nat
      BY WidthAssumption
    <3> HIDE DEF T
    <3> QED
      BY <2>1, <3>1, LeastNat
  <2>3. j \in 1..BeamWidth /\ j \in Nat \ {0} /\ j <= InsertWidth
        /\ Swaps(line, j) /\ i \in 0..(j - 1)
    BY WidthAssumption
  <2>4. \A k \in (i + 1)..(j - 1) : ~Swaps(line, k)
    BY <2>2, WidthAssumption
  <2> DEFINE c == Carried(line, j)
  <2>5. /\ c \in 0..(j - 1) /\ Swaps(line, c)
        /\ \A k \in (c + 1)..(j - 1) : ~Swaps(line, k)
    BY <2>3, CarriedIsLast
  <2>6. c = i
    <3> HIDE DEF c, line, T
    <3> QED
      BY <1>2, <2>3, <2>4, <2>5
  <2> HIDE DEF line, T
  <2> QED
    BY <1>1, <1>2, <2>3, <2>6
<1>3. line[0] = h /\ \A i \in 1..InsertWidth : line[i] = beam[i]
  BY WidthAssumption DEF Line
<1>4. CASE x = h
  <2>1. Swaps(line, 0) /\ 0 \in 0..InsertWidth
    BY WidthAssumption DEF Swaps
  <2> QED
    BY <1>2, <1>3, <1>4, <2>1
<1>5. ASSUME NEW i \in 1..BeamWidth, x = beam[i]
      PROVE  \E j \in 1..BeamWidth : Insert(beam, h)[j] = x
  <2>1. CASE i <= InsertWidth /\ Swaps(line, i)
    <3>1. i \in 0..InsertWidth /\ line[i] = x
      BY <1>3, <1>5, <2>1, WidthAssumption
    <3> HIDE DEF line
    <3> QED
      BY <1>2, <2>1, <3>1
  <2>2. CASE ~(i <= InsertWidth /\ Swaps(line, i))
    <3> HIDE DEF line
    <3> QED
      BY <1>1, <1>5, <2>2
  <2> QED
    BY <2>1, <2>2
<1> QED
  BY <1>4, <1>5

-----------------------------------------------------------------------------
(* x may stand before y. *)
AtMost(x, y) == y = None \/ (x # None /\ x.cost <= y.cost)

Sorted(beam) == \A i, j \in 1..BeamWidth : i < j => AtMost(beam[i], beam[j])

(* Heads whose costs can be compared. *)
Heads(S) == None \notin S /\ \A x \in S : x.cost \in Nat

(* Of the heads of one cost, the first is dearer than all before it. *)
LEMMA FirstOfCost ==
  ASSUME NEW S, Heads(S), NEW beam \in [1..BeamWidth -> S \cup {None}], Sorted(beam),
         NEW i \in 1..BeamWidth, beam[i] # None
  PROVE  \E k \in 1..i : /\ beam[k] # None /\ beam[k].cost = beam[i].cost
                        /\ \A m \in 1..(k - 1) : Less(beam[m], beam[k])
<1> DEFINE T == {k \in 1..i : beam[k] # None /\ beam[k].cost = beam[i].cost}
<1>1. T \subseteq Nat /\ i \in T
  BY WidthAssumption
<1>2. PICK k \in T : \A y \in T : k <= y
  BY <1>1, LeastNat
<1>3. ASSUME NEW m \in 1..(k - 1) PROVE Less(beam[m], beam[k])
  <2>1. m \in 1..BeamWidth /\ k \in 1..BeamWidth /\ m < k /\ m \in 1..i
    BY <1>2, WidthAssumption
  <2>2. beam[m] # None /\ beam[m].cost <= beam[k].cost
    BY <2>1, <1>2 DEF Sorted, AtMost
  <2>3. beam[m].cost # beam[k].cost
    BY <2>1, <2>2, <1>2
  <2>4. beam[m] \in S /\ beam[k] \in S
    BY <2>1, <2>2, <1>2
  <2> QED
    BY <2>2, <2>3, <2>4 DEF Less, Heads
<1> QED
  BY <1>2, <1>3

(* A slot that does not swap, nor any before it since slot c swapped, holds *)
(* a head that costs no more than the one carried past it. *)
LEMMA PassedOver ==
  ASSUME NEW S, Heads(S), NEW beam \in [1..BeamWidth -> S \cup {None}], Sorted(beam),
         NEW h \in S, NEW i \in 1..InsertWidth, NEW c \in 0..(i - 1),
         Swaps(Line(beam, h), c),
         \A k \in (c + 1)..i : ~Swaps(Line(beam, h), k)
  PROVE  AtMost(beam[i], Line(beam, h)[c])
<1> DEFINE line == Line(beam, h)
<1>0. /\ line[0] = h
      /\ \A k \in 1..InsertWidth : line[k] = beam[k] /\ k \in 1..BeamWidth
      /\ i \in 1..BeamWidth /\ c \in 0..InsertWidth
  BY WidthAssumption DEF Line
<1>1. beam[i] # None
  BY <1>0 DEF Swaps, Less
<1>2. PICK k \in 1..i : /\ beam[k] # None /\ beam[k].cost = beam[i].cost
                        /\ \A m \in 1..(k - 1) : Less(beam[m], beam[k])
  BY <1>0, <1>1, FirstOfCost
<1>3. k \in 1..InsertWidth /\ k \in 1..BeamWidth
  BY <1>0, WidthAssumption
<1>4. ASSUME Less(h, beam[k]) PROVE Swaps(line, k)
  <2>1. ASSUME NEW m \in 0..(k - 1) PROVE Less(line[m], line[k])
    <3>1. CASE m = 0
      BY <3>1, <1>0, <1>3, <1>4
    <3>2. CASE m # 0
      <4>1. m \in 1..(k - 1) /\ m \in 1..InsertWidth
        BY <3>2, <1>3, WidthAssumption
      <4> QED
        BY <4>1, <1>0, <1>2, <1>3
    <3> QED
      BY <3>1, <3>2
  <2> QED
    BY <2>1 DEF Swaps
<1>5. beam[k] \in S /\ beam[i] \in S
  BY <1>0, <1>1, <1>2, <1>3
<1>6. CASE k <= c
  <2>1. c \in 1..InsertWidth /\ line[c] = beam[c] /\ c \in 1..BeamWidth /\ c < i
    BY <1>0, <1>6
  <2>2. CASE beam[c] = None
    BY <2>1, <2>2 DEF AtMost
  <2>3. CASE beam[c] # None
    <3>1. beam[c] \in S
      BY <2>1, <2>3
    <3>2. beam[k].cost <= beam[c].cost
      <4>1. CASE k = c
        BY <4>1, <1>5 DEF Heads
      <4>2. CASE k # c
        BY <4>2, <1>6, <1>3, <2>1, <2>3 DEF Sorted, AtMost
      <4> QED
        BY <4>1, <4>2
    <3> QED
      BY <2>1, <3>2, <1>1, <1>2 DEF AtMost
  <2> QED
    BY <2>2, <2>3
<1>7. CASE k > c
  <2>1. k \in (c + 1)..i
    BY <1>7
  <2>2. ~Less(h, beam[k])
    BY <2>1, <1>4
  <2>3. beam[k].cost <= h.cost
    BY <2>2, <1>5 DEF Less, Heads
  <2>4. c = 0
    <3>1. SUFFICES ASSUME c # 0 PROVE FALSE
      OBVIOUS
    <3>2. c \in 1..InsertWidth /\ c \in 1..BeamWidth /\ line[c] = beam[c] /\ c < k
      BY <3>1, <1>0, <1>7
    <3>3. Less(h, beam[c])
      BY <3>2, <1>0 DEF Swaps
    <3>4. beam[c] # None /\ beam[c].cost <= beam[k].cost
      BY <3>2, <1>3, <1>2 DEF Sorted, AtMost
    <3>5. beam[c] \in S
      BY <3>2, <3>4
    <3> QED
      BY <3>3, <3>4, <3>5, <2>2, <1>5 DEF Less, Heads
  <2> QED
    BY <2>3, <2>4, <1>0, <1>1, <1>2 DEF AtMost
<1> QED
  BY <1>6, <1>7

(* However heads go in, the beam stays in the order of their costs, the    *)
(* slots the loop does not look at included. *)
LEMMA InsertSorted ==
  ASSUME NEW S, Heads(S), NEW beam \in [1..BeamWidth -> S \cup {None}], Sorted(beam),
         NEW h \in S
  PROVE  Sorted(Insert(beam, h))
<1> DEFINE line == Line(beam, h)
           new == Insert(beam, h)
           Moves(j) == j <= InsertWidth /\ Swaps(line, j)
<1>0. /\ line[0] = h
      /\ \A k \in 1..InsertWidth : line[k] = beam[k] /\ k \in 1..BeamWidth
  BY WidthAssumption DEF Line
<1>1. ASSUME NEW j \in 1..BeamWidth
      PROVE  new[j] = IF Moves(j) THEN line[Carried(line, j)] ELSE beam[j]
  BY DEF Insert
<1>2. ASSUME NEW j \in 1..BeamWidth, Moves(j)
      PROVE  /\ Carried(line, j) \in 0..(j - 1)
             /\ Swaps(line, Carried(line, j))
             /\ \A k \in (Carried(line, j) + 1)..(j - 1) : ~Swaps(line, k)
  BY CarriedIsLast, WidthAssumption
<1>3. SUFFICES ASSUME NEW i \in 1..BeamWidth, NEW j \in 1..BeamWidth, i < j
               PROVE  AtMost(new[i], new[j])
  BY Zenon DEF Sorted
<1>4. AtMost(beam[i], beam[j])
  BY <1>3 DEF Sorted
<1> HIDE DEF new, line
<1>5. CASE ~Moves(j)
  <2>1. new[j] = beam[j]
    BY <1>1, <1>5
  <2>2. CASE ~Moves(i)
    BY <2>1, <2>2, <1>1, <1>4
  <2>3. CASE Moves(i)
    <3>1. PICK c \in 0..(i - 1) : c = Carried(line, i)
      BY <2>3, <1>2
    <3>2. new[i] = line[c] /\ i \in 1..InsertWidth /\ line[i] = beam[i]
      BY <2>3, <3>1, <1>1, <1>0
    <3>3. Less(line[c], beam[i])
      BY <2>3, <3>2 DEF Swaps
    <3>4. line[c] = h \/ (c \in 1..BeamWidth /\ line[c] = beam[c])
      BY <1>0, <3>2, WidthAssumption
    <3>5. line[c] \in S \cup {None} /\ beam[i] \in S \cup {None}
      BY <3>4
    <3> QED
      BY <2>1, <3>2, <3>3, <3>5, <1>4 DEF Less, AtMost, Heads
  <2> QED
    BY <2>2, <2>3
<1>6. CASE Moves(j)
  <2>1. PICK c \in 0..(j - 1) : c = Carried(line, j)
    BY <1>6, <1>2
  <2>2. Swaps(line, c) /\ (\A k \in (c + 1)..(j - 1) : ~Swaps(line, k))
    BY <2>1, <1>2, <1>6
  <2>3. new[j] = line[c] /\ j \in 1..InsertWidth /\ i \in 1..InsertWidth
    BY <2>1, <1>1, <1>6, <1>3, WidthAssumption
  <2>4. CASE ~Moves(i)
    <3>1. new[i] = beam[i] /\ ~Swaps(line, i)
      BY <2>4, <2>3, <1>1
    <3>2. CASE i < c
      <4>1. c \in 1..BeamWidth /\ line[c] = beam[c]
        <5>1. c \in 1..InsertWidth
          BY <3>2, <2>3, WidthAssumption
        <5> QED
          BY <5>1, <1>0
      <4> QED
        BY <4>1, <3>1, <3>2, <2>3 DEF Sorted
    <3>3. CASE c < i
      <4>1. c \in 0..(i - 1) /\ \A k \in (c + 1)..i : ~Swaps(line, k)
        BY <3>3, <2>2, <1>3
      <4>2. AtMost(beam[i], line[c])
        BY <4>1, <2>2, <2>3, PassedOver DEF line
      <4> QED
        BY <4>2, <3>1, <2>3
    <3> QED
      BY <3>1, <3>2, <3>3, <2>2
  <2>5. CASE Moves(i)
    <3>1. c >= i
      BY <2>5, <2>2, <1>3
    <3>2. PICK d \in 0..(i - 1) : d = Carried(line, i)
      BY <2>5, <1>2
    <3>3. new[i] = line[d]
      BY <3>2, <2>5, <1>1
    <3>4. c \in 1..BeamWidth /\ c \in 1..InsertWidth /\ line[c] = beam[c]
      <4>1. c \in 1..InsertWidth
        BY <3>1, <2>3, WidthAssumption
      <4> QED
        BY <4>1, <1>0
    <3>5. CASE d = 0
      <4>1. Less(h, beam[c])
        BY <2>2, <3>4, <1>0 DEF Swaps
      <4>2. beam[c] = None \/ (beam[c] \in S /\ h \in S)
        BY <3>4
      <4> QED
        BY <4>1, <4>2, <3>3, <3>4, <3>5, <2>3, <1>0 DEF Less, AtMost, Heads
    <3>6. CASE d # 0
      <4>1. d \in 1..BeamWidth /\ line[d] = beam[d] /\ d < c
        <5>1. d \in 1..InsertWidth /\ d < c
          BY <3>6, <3>1, <2>3, WidthAssumption
        <5> QED
          BY <5>1, <1>0
      <4> QED
        BY <4>1, <3>3, <3>4, <2>3 DEF Sorted
    <3> QED
      BY <3>5, <3>6
  <2> QED
    BY <2>4, <2>5
<1> QED
  BY <1>5, <1>6

LEMMA ShiftSorted ==
  ASSUME NEW beam, Sorted(beam)
  PROVE  Sorted(Shift(beam))
<1>1. SUFFICES ASSUME NEW i \in 1..BeamWidth, NEW j \in 1..BeamWidth, i < j
               PROVE  AtMost(Shift(beam)[i], Shift(beam)[j])
  BY Zenon DEF Sorted
<1>2. CASE j < BeamWidth
  <2>1. i + 1 \in 1..BeamWidth /\ j + 1 \in 1..BeamWidth /\ i + 1 < j + 1
    BY <1>1, <1>2, WidthAssumption
  <2>2. Shift(beam)[i] = beam[i + 1] /\ Shift(beam)[j] = beam[j + 1]
    BY <1>1, <1>2, <2>1, WidthAssumption DEF Shift
  <2> QED
    BY <2>1, <2>2 DEF Sorted
<1>3. CASE ~(j < BeamWidth)
  BY <1>3 DEF Shift, AtMost
<1> QED
  BY <1>2, <1>3

-----------------------------------------------------------------------------
(* The invariant, in layers: each part is inductive once the parts above   *)
(* it hold. *)

Storing == pc \in {"store", "walk", "forward", "throw"}

Types ==
  /\ owner \in [Nodes -> Nets \cup {None}]
  /\ is_routed \in [Nets -> BOOLEAN]
  /\ order \in [1..Cardinality(Stubs) -> Stubs]
  /\ pc \in {"restart", "series", "kernel", "store", "walk", "forward",
             "throw", "done"}
  /\ restart \in 0..RestartMax
  /\ series \in 0..SeriesMax
  /\ di \in [Stubs -> [count : Nat, state : 0..2]]
  /\ heads \in [Stubs -> BeamSet]
  /\ explored \in [Stubs -> History]
  /\ snaps \in Seq([Stubs -> History])
  /\ todo \in SUBSET Stubs
  /\ item \in Stubs \cup {None}
  /\ cur_heads \in BeamSet
  /\ count_index \in 0..(CounterMax - 1)
  /\ parent \in BeamHead \cup {None}
  /\ pip_i \in Nat \ {0}
  /\ di_index \in 1..(Cardinality(Stubs) + 1)
  /\ dropped \in SUBSET Stubs

(* Where the host is, and what it has read back by then. *)
Phase ==
  /\ pc \in {"restart", "done"} => series = 0
  /\ pc \notin {"restart", "done"} => restart < RestartMax
  /\ pc = "kernel" \/ Storing => series < SeriesMax
  /\ Len(snaps) = IF Storing THEN series + 1 ELSE series
  /\ pc # "kernel" => item = None /\ todo = {}
  /\ item = None => parent = None /\ count_index = 0
  /\ item # None => di[item].state = 0 /\ item \notin todo
  /\ pc \in {"walk", "forward", "throw"} => di_index <= Cardinality(Stubs)

(* The series whose work item for s has run. *)
Rounds(s) ==
  IF Storing \/ (pc = "kernel" /\ s \notin todo /\ s # item)
  THEN series + 1 ELSE series

(* A count stays within the series run, and a search that goes on has used *)
(* every one of them up. *)
Counts ==
  \A s \in Stubs :
    /\ di[s].count <= CounterMax * Rounds(s)
    /\ di[s].state = 0 => di[s].count = CounterMax * Rounds(s)

(* The head being expanded is the last entry of the history. *)
ParentLogged ==
  parent # None => HistoryAt(item, ExploredId).pip = parent.pip

(* A success ends in the node of the stub. *)
Found ==
  \A s \in Stubs :
    di[s].state = 1 /\ di[s].count # 0 =>
      Node1[HistoryAt(s, di[s].count - 1).pip] = StubNode[s]

KernelInv == Types /\ Phase /\ Counts /\ HistoryForest /\ BeamForest
               /\ ParentLogged /\ Found

Walked == pc \in {"walk", "forward", "throw"}

(* The walk goes down the history of a stub whose route may be stored. *)
Walk ==
  /\ ids \in Seq(Nat)
  /\ cur_history \in Int
  /\ ~Walked => cur_history = NoParent /\ ids = << >>
  /\ Walked => Storable(StubAt)
  /\ Walked =>
       \A i \in 1..Len(ids) :
         /\ ids[i] <= di[StubAt].count - i
         /\ i = 1 => ids[i] = di[StubAt].count - 1
         /\ i < Len(ids) => ids[i + 1] = EntryAt(ids[i]).parent
  /\ pc = "walk" =>
       IF ids = << >> THEN cur_history = di[StubAt].count - 1
       ELSE cur_history = EntryAt(ids[Len(ids)]).parent
  /\ pc \in {"forward", "throw"} =>
       ids # << >> /\ EntryAt(ids[Len(ids)]).parent = NoParent
  /\ pc # "throw"

(* The forward pass has checked the pips behind it, which form the path. *)
Passed == (ri + 1)..Len(ids)
PassedSeen == seen = {Node1[PipAt(i)] : i \in Passed}
PassedOnce ==
  \A i, j \in Passed : Node1[PipAt(i)] = Node1[PipAt(j)] => i = j
PassedFree ==
  \A i \in Passed : ~Foreign(Node0[PipAt(i)]) /\ ~Foreign(Node1[PipAt(i)])

Forward ==
  /\ ri \in Nat
  /\ pc # "forward" => ri = 0 /\ seen = {}
  /\ pc = "forward" =>
       ri \in 1..Len(ids) /\ PassedSeen /\ PassedOnce /\ PassedFree

(* The branches built so far are the pips the forward pass has passed. *)
Behind == [i \in 1..(Len(ids) - ri) |-> PipAt(Len(ids) + 1 - i)]

Written ==
  /\ out \in [Nets -> [kind : {"blank", "input", "built"}, path : Seq(Pips),
                       stub : BOOLEAN]]
  /\ pc = "walk" /\ ~IsMulti(NetAt) => out[NetAt].path = << >>
  /\ pc = "forward" /\ ~IsMulti(NetAt) => out[NetAt].path = Behind

Committed ==
  /\ claimed \in [Nets -> Seq(Pips)]
  /\ \A n \in Nets :
       IF is_routed[n]
       THEN /\ Routing!IsRoute(n, claimed[n])
            /\ ~IsMulti(n) => out[n].stub /\ out[n].path = claimed[n]
       ELSE claimed[n] = << >>
  /\ pc = "done" =>
       \A n \in Nets : IsMulti(n) \/ ~is_routed[n] => out[n] = Input

StoreInv == Walk /\ Forward /\ Written /\ Committed /\ ClaimsOwned

-----------------------------------------------------------------------------
(* The kernel and the host loop. *)

LEMMA StubCount == Cardinality(Stubs) \in Nat
BY NetlistAssumption, FS_CardinalityType

LEMMA FirstBeamType == ASSUME NEW s \in Stubs PROVE FirstBeam(s) \in BeamSet
<1> DEFINE n == NetOf[s]
<1>1. ASSUME NEW j \in 1..BeamWidth, j <= Len(SourcePips[n])
      PROVE  SourcePips[n][j] \in Pips
  <2>1. n \in Nets /\ SourcePips[n] \in Seq(Pips)
    BY NetlistAssumption
  <2>2. j \in 1..Len(SourcePips[n])
    BY <1>1, <2>1, WidthAssumption
  <2> QED
    BY <2>1, <2>2
<1> QED
  BY <1>1 DEF FirstBeam, BeamSet, BeamHead, NoParent

LEMMA InsertType ==
  ASSUME NEW beam \in BeamSet, NEW h \in BeamHead
  PROVE  Insert(beam, h) \in BeamSet
BY InsertKeepsHeads DEF BeamSet

LEMMA NoBeamType == NoBeam \in BeamSet
BY DEF NoBeam, BeamSet

LEMMA ExploredIdType ==
  Types => ExploredId \in Nat
<1> SUFFICES ASSUME Types PROVE ExploredId \in Nat
  OBVIOUS
<1>1. series \in Nat /\ count_index \in Nat /\ CounterMax \in Nat
  BY SearchAssumption DEF Types
<1>2. series * CounterMax \in Nat
  BY <1>1
<1> QED
  BY <1>1, <1>2 DEF ExploredId

LEMMA FinishType ==
  ASSUME Types, item # None, NEW count \in Nat, NEW state \in 0..2,
         Finish(count, state)
  PROVE  di' \in [Stubs -> [count : Nat, state : 0..2]]
BY DEF Types, Finish

LEMMA LogHeadType ==
  ASSUME Types, item # None, NEW h \in BeamHead, LogHead(h)
  PROVE  explored' \in [Stubs -> History]
<1>1. [pip |-> h.pip, parent |-> h.parent] \in Entry
  BY DEF BeamHead, Entry
<1> QED
  BY <1>1 DEF Types, LogHead, History

LEMMA FrontType ==
  ASSUME Types, cur_heads[1] # None
  PROVE  cur_heads[1] \in BeamHead
<1>1. 1 \in 1..BeamWidth
  BY WidthAssumption
<1> QED
  BY <1>1 DEF Types, BeamSet

(* A pip of an expansion, and the head it makes. *)
LEMMA ExpandedPipType ==
  ASSUME Types, parent # None
  PROVE  /\ ExpandedPips \in Seq(Pips)
         /\ \A i \in 1..Len(ExpandedPips) :
              /\ ExpandedPips[i] \in Pips
              /\ Node0[ExpandedPips[i]] = Node1[parent.pip]
<1>1. Node1[parent.pip] \in Nodes
  BY DeviceAssumption DEF Types, BeamHead
<1> QED
  BY <1>1, DeviceAssumption DEF ExpandedPips

LEMMA HeadOfType ==
  ASSUME Types, item # None, parent # None, NEW p \in Pips
  PROVE  HeadOf(p) \in BeamHead
<1>1. Bias[item][p] \in Nat
  BY SearchAssumption DEF Types
<1>2. parent.height \in Nat
  BY DEF Types, BeamHead
<1>3. parent.height * HeightCost \in Nat
  BY <1>2, SearchAssumption
<1> QED
  BY <1>1, <1>2, <1>3, ExploredIdType DEF HeadOf, BeamHead

LEMMA TypesInit == Init => Types
<1> SUFFICES ASSUME Init PROVE Types
  OBVIOUS
<1>1. heads \in [Stubs -> BeamSet]
  BY FirstBeamType DEF Init
<1>2. explored \in [Stubs -> History]
  BY SearchAssumption, NoneAssumption DEF Init, History, Entry, Fill, NoParent
<1>3. cur_heads \in BeamSet
  BY DEF Init, NoBeam, BeamSet
<1>4. owner \in [Nodes -> Nets \cup {None}]
      /\ order \in [1..Cardinality(Stubs) -> Stubs]
  BY NetlistAssumption DEF Init
<1>5. snaps \in Seq([Stubs -> History])
  BY DEF Init
<1>6. di \in [Stubs -> [count : Nat, state : 0..2]]
  BY DEF Init
<1>7. is_routed \in [Nets -> BOOLEAN]
  BY DEF Init
<1>8. /\ restart \in 0..RestartMax
      /\ series \in 0..SeriesMax
      /\ count_index \in 0..(CounterMax - 1)
      /\ pip_i \in Nat \ {0}
      /\ di_index \in 1..(Cardinality(Stubs) + 1)
  BY StubCount, SearchAssumption DEF Init
<1> QED
  BY <1>1, <1>2, <1>3, <1>4, <1>5, <1>6, <1>7, <1>8 DEF Init, Types

USE DEF netlist, progress, device, kernel, store, vars

LEMMA TypesNext == Types /\ Phase /\ [Next]_vars => Types'
<1> SUFFICES ASSUME Types, Phase, [Next]_vars PROVE Types'
  OBVIOUS
<1> USE StubCount, SearchAssumption
<1>1. CASE StartRestart
  <2>1. heads' \in [Stubs -> BeamSet]
    BY <1>1, FirstBeamType DEF StartRestart
  <2> QED
    BY <1>1, <2>1 DEF StartRestart, Types
<1>2. CASE StepAll
  BY <1>2 DEF StepAll, Types
<1>3. CASE ReadBack
  <2>1. snaps' \in Seq([Stubs -> History])
    BY <1>3 DEF ReadBack, Types
  <2> QED
    BY <1>3, <2>1 DEF ReadBack, Types
<1>4. CASE EndSeries
  BY <1>4 DEF EndSeries, Types, Phase, Storing
<1>5. CASE EndRestart
  <2>1. di' \in [Stubs -> [count : Nat, state : 0..2]]
    BY <1>5 DEF EndRestart, Types
  <2> QED
    BY <1>5, <2>1 DEF EndRestart, Types, Phase
<1>6. CASE WriteUnroutedNets
  BY <1>6 DEF WriteUnroutedNets, Types
<1>7. ASSUME NEW s \in Stubs, KernelSkip(s) PROVE Types'
  BY <1>7 DEF KernelSkip, Types
<1>8. ASSUME NEW s \in Stubs, KernelStart(s) PROVE Types'
  <2>1. cur_heads' \in BeamSet
    BY <1>8 DEF KernelStart, Types
  <2> QED
    BY <1>8, <2>1 DEF KernelStart, Types
<1>9. CASE KernelDeadEnd
  <2>1. di' \in [Stubs -> [count : Nat, state : 0..2]]
    BY <1>9, ExploredIdType, FinishType DEF KernelDeadEnd
  <2> QED
    BY <1>9, <2>1, NoBeamType DEF KernelDeadEnd, Types, IdleItem
<1>10. CASE KernelSuccess
  <2>1. di' \in [Stubs -> [count : Nat, state : 0..2]]
    <3>1. ExploredId + 1 \in Nat
      BY ExploredIdType
    <3> QED
      BY <1>10, <3>1, FinishType DEF KernelSuccess
  <2>2. explored' \in [Stubs -> History]
    BY <1>10, FrontType, LogHeadType DEF KernelSuccess
  <2> QED
    BY <1>10, <2>1, <2>2, NoBeamType DEF KernelSuccess, Types, IdleItem
<1>11. CASE KernelPop
  <2>1. cur_heads[1] \in BeamHead
    BY <1>11, FrontType DEF KernelPop
  <2>2. explored' \in [Stubs -> History]
    BY <1>11, <2>1, LogHeadType DEF KernelPop
  <2>3. cur_heads' \in BeamSet
    BY <1>11, ShiftKeepsHeads DEF KernelPop, Types, BeamSet
  <2> QED
    BY <1>11, <2>1, <2>2, <2>3 DEF KernelPop, Types
<1>12. CASE KernelPassPip
  BY <1>12 DEF KernelPassPip, Types
<1>13. CASE KernelAddPip
  <2>1. item # None /\ item \in Stubs
    BY <1>13 DEF KernelAddPip, Phase, Types
  <2>2. HeadOf(ExpandedPips[pip_i]) \in BeamHead
    BY <1>13, <2>1, ExpandedPipType, HeadOfType DEF KernelAddPip, Types
  <2>3. cur_heads' \in BeamSet
    BY <1>13, <2>2, InsertType DEF KernelAddPip, Types
  <2>4. dropped' \in SUBSET Stubs
    BY <1>13, <2>1 DEF KernelAddPip, Types
  <2> QED
    BY <1>13, <2>3, <2>4 DEF KernelAddPip, Types
<1>14. CASE KernelStuck
  <2>1. di' \in [Stubs -> [count : Nat, state : 0..2]]
    BY <1>14, ExploredIdType, FinishType DEF KernelStuck, ExpandedAll, Phase
  <2> QED
    BY <1>14, <2>1, NoBeamType DEF KernelStuck, Types, IdleItem
<1>15. CASE KernelContinue
  BY <1>15 DEF KernelContinue, ExpandedAll, Types
<1>16. CASE KernelSuspend
  <2>1. series * CounterMax + CounterMax \in Nat
    BY DEF Types
  <2>2. di' \in [Stubs -> [count : Nat, state : 0..2]]
    BY <1>16, <2>1, FinishType DEF KernelSuspend, ExpandedAll, Phase
  <2>3. heads' \in [Stubs -> BeamSet]
    BY <1>16 DEF KernelSuspend, Types
  <2> QED
    BY <1>16, <2>2, <2>3, NoBeamType DEF KernelSuspend, Types, IdleItem
<1>17. CASE StoreSkip
  BY <1>17 DEF StoreSkip, Types, NextCommand
<1>18. CASE StoreBegin
  BY <1>18 DEF StoreBegin, Types
<1>19. CASE WalkParent
  BY <1>19 DEF WalkParent, Types
<1>20. CASE WalkEnd
  BY <1>20 DEF WalkEnd, Types
<1>21. CASE StoreRefuse
  BY <1>21 DEF StoreRefuse, Types, NextCommand, Phase
<1>22. CASE StoreForward
  BY <1>22 DEF StoreForward, Types
<1>23. CASE StoreRoute
  <2>1. NetAt \in Nets
    BY <1>23, NetlistAssumption DEF StoreRoute, Types, Phase, NetAt, StubAt
  <2>2. owner' \in [Nodes -> Nets \cup {None}]
    BY <1>23, <2>1 DEF StoreRoute, Types
  <2>3. is_routed' \in [Nets -> BOOLEAN]
    BY <1>23, <2>1 DEF StoreRoute, Types
  <2>4. di_index' \in 1..(Cardinality(Stubs) + 1)
    BY <1>23 DEF StoreRoute, Types, NextCommand, Phase
  <2> QED
    BY <1>23, <2>2, <2>3, <2>4 DEF StoreRoute, Types, NextCommand
<1>24. CASE Done
  BY <1>24 DEF Done, Types
<1>25. CASE UNCHANGED vars
  BY <1>25 DEF Types
<1> QED
  BY <1>1, <1>2, <1>3, <1>4, <1>5, <1>6, <1>7, <1>8, <1>9, <1>10, <1>11,
     <1>12, <1>13, <1>14, <1>15, <1>16, <1>17, <1>18, <1>19, <1>20, <1>21,
     <1>22, <1>23, <1>24, <1>25 DEF Next, Host, Kernel, Store

LEMMA OrderLength == Types => Len(order) = Cardinality(Stubs)
<1> SUFFICES ASSUME Types PROVE Len(order) = Cardinality(Stubs)
  OBVIOUS
<1>1. order \in Seq(Stubs) /\ DOMAIN order = 1..Cardinality(Stubs)
  <2>1. order \in [1..Cardinality(Stubs) -> Stubs]
    BY DEF Types
  <2> QED
    BY <2>1, StubCount, SeqDef
<1>2. Len(order) \in Nat /\ DOMAIN order = 1..Len(order)
  BY <1>1
<1> QED
  BY <1>1, <1>2, StubCount

LEMMA PhaseInit == Init => Phase
BY SearchAssumption DEF Init, Phase, Storing

LEMMA PhaseNext == Types /\ Phase /\ [Next]_vars => Phase'
<1> SUFFICES ASSUME Types, Phase, [Next]_vars PROVE Phase'
  OBVIOUS
<1> USE SearchAssumption DEF Storing
<1>1. CASE StartRestart
  BY <1>1 DEF StartRestart, Phase
<1>2. CASE StepAll
  BY <1>2 DEF StepAll, Phase, Types
<1>3. CASE ReadBack
  BY <1>3 DEF ReadBack, Phase, Types
<1>4. CASE EndSeries
  BY <1>4 DEF EndSeries, Phase
<1>5. CASE EndRestart
  BY <1>5 DEF EndRestart, Phase
<1>6. CASE WriteUnroutedNets
  BY <1>6 DEF WriteUnroutedNets, Phase
<1>7. ASSUME NEW s \in Stubs, KernelSkip(s) PROVE Phase'
  BY <1>7 DEF KernelSkip, Phase
<1>8. ASSUME NEW s \in Stubs, KernelStart(s) PROVE Phase'
  BY <1>8 DEF KernelStart, Phase
<1>9. CASE KernelDeadEnd
  BY <1>9 DEF KernelDeadEnd, Phase, IdleItem
<1>10. CASE KernelSuccess
  BY <1>10 DEF KernelSuccess, Phase, IdleItem
<1>11. CASE KernelPop
  BY <1>11 DEF KernelPop, Phase
<1>12. CASE KernelPassPip
  BY <1>12 DEF KernelPassPip, Phase
<1>13. CASE KernelAddPip
  BY <1>13 DEF KernelAddPip, Phase
<1>14. CASE KernelStuck
  BY <1>14 DEF KernelStuck, ExpandedAll, Phase, IdleItem
<1>15. CASE KernelContinue
  BY <1>15 DEF KernelContinue, ExpandedAll, Phase
<1>16. CASE KernelSuspend
  BY <1>16 DEF KernelSuspend, ExpandedAll, Phase, IdleItem
<1>17. CASE StoreSkip
  BY <1>17 DEF StoreSkip, Phase, NextCommand
<1>18. CASE StoreBegin
  BY <1>18, OrderLength DEF StoreBegin, Phase
<1>19. CASE WalkParent
  BY <1>19 DEF WalkParent, Phase
<1>20. CASE WalkEnd
  BY <1>20 DEF WalkEnd, Phase
<1>21. CASE StoreRefuse
  BY <1>21 DEF StoreRefuse, Phase, NextCommand
<1>22. CASE StoreForward
  BY <1>22 DEF StoreForward, Phase
<1>23. CASE StoreRoute
  BY <1>23 DEF StoreRoute, Phase, NextCommand
<1>24. CASE Done
  BY <1>24 DEF Done, Phase
<1>25. CASE UNCHANGED vars
  BY <1>25 DEF Phase
<1> QED
  BY <1>1, <1>2, <1>3, <1>4, <1>5, <1>6, <1>7, <1>8, <1>9, <1>10, <1>11,
     <1>12, <1>13, <1>14, <1>15, <1>16, <1>17, <1>18, <1>19, <1>20, <1>21,
     <1>22, <1>23, <1>24, <1>25 DEF Next, Host, Kernel, Store

(* Nonlinear facts about entry ids. *)
LEMMA NextRound ==
  ASSUME NEW k \in Nat
  PROVE  /\ CounterMax * k \in Nat
         /\ CounterMax * (k + 1) = CounterMax * k + CounterMax
         /\ k * CounterMax = CounterMax * k
BY SearchAssumption

LEMMA CountsInit == Init => Counts
BY SearchAssumption DEF Init, Counts, Rounds, Storing

(* The store phase moves through the draw commands; the searches and what  *)
(* is read back from them stay. *)
LEMMA StoreKeepsSearches ==
  ASSUME Store \/ Done \/ UNCHANGED vars
  PROVE  /\ di' = di /\ series' = series /\ item' = item /\ todo' = todo
         /\ heads' = heads /\ explored' = explored /\ snaps' = snaps
         /\ cur_heads' = cur_heads /\ count_index' = count_index
         /\ parent' = parent /\ order' = order
         /\ pc' = pc \/ (Storing /\ Storing')
BY DEF Store, Done, StoreSkip, StoreBegin, WalkParent, WalkEnd, StoreRefuse,
       StoreForward, StoreRoute, NextCommand, Storing

(* A work item that ends with a count of this series or the full one. *)
LEMMA FinishCounts ==
  ASSUME Types, Phase, Counts, pc = "kernel", item # None,
         NEW count \in Nat, NEW state \in 0..2, Finish(count, state),
         count <= CounterMax * (series + 1),
         state = 0 => count = CounterMax * (series + 1),
         UNCHANGED <<pc, series, todo>>, item' = None
  PROVE  Counts'
<1>1. ASSUME NEW s \in Stubs, s # item
      PROVE  di'[s] = di[s] /\ Rounds(s)' = Rounds(s)
  BY <1>1, NoneAssumption DEF Types, Finish, Rounds, Storing
<1>2. ASSUME NEW s \in Stubs, s = item
      PROVE  di'[s] = [count |-> count, state |-> state]
             /\ Rounds(s)' = series + 1
  BY <1>2, NoneAssumption DEF Types, Phase, Finish, Rounds, Storing
<1>3. ASSUME NEW s \in Stubs
      PROVE  /\ di'[s].count <= CounterMax * Rounds(s)'
             /\ di'[s].state = 0 => di'[s].count = CounterMax * Rounds(s)'
  <2>1. CASE s = item
    BY <1>2, <2>1
  <2>2. CASE s # item
    BY <1>1, <2>2 DEF Counts
  <2> QED
    BY <2>1, <2>2
<1> QED
  BY <1>3 DEF Counts

LEMMA CountsNext == Types /\ Phase /\ Counts /\ [Next]_vars => Counts'
<1> SUFFICES ASSUME Types, Phase, Counts, [Next]_vars PROVE Counts'
  OBVIOUS
<1>a. series \in Nat /\ CounterMax \in Nat /\ count_index \in 0..(CounterMax - 1)
  BY SearchAssumption DEF Types
<1>b. /\ CounterMax * series \in Nat
      /\ CounterMax * (series + 1) = CounterMax * series + CounterMax
      /\ series * CounterMax = CounterMax * series
  BY <1>a, NextRound
<1>c. \A s \in Stubs : di[s].count \in Nat
  BY DEF Types
<1>d. /\ ExploredId \in Nat
      /\ ExploredId <= CounterMax * (series + 1)
      /\ ExploredId + 1 <= CounterMax * (series + 1)
  BY <1>a, <1>b DEF ExploredId
<1>1. CASE StartRestart
  BY <1>1 DEF StartRestart, Counts, Rounds, Storing
<1>2. CASE StepAll
  BY <1>2 DEF StepAll, Counts, Rounds, Storing
<1>3. CASE ReadBack
  BY <1>3, NoneAssumption DEF ReadBack, Counts, Rounds, Storing
<1>4. CASE EndSeries
  BY <1>4 DEF EndSeries, Counts, Rounds, Storing
<1>5. CASE EndRestart
  <2>1. \A s \in Stubs : di'[s].count = 0 /\ Rounds(s)' = 0
    BY <1>5 DEF EndRestart, Rounds, Storing
  <2> QED
    BY <2>1, <1>a DEF Counts
<1>6. CASE WriteUnroutedNets
  BY <1>6 DEF WriteUnroutedNets, Counts, Rounds, Storing
<1>7. ASSUME NEW s \in Stubs, KernelSkip(s) PROVE Counts'
  <2>1. ASSUME NEW t \in Stubs
        PROVE  /\ di'[t].count <= CounterMax * Rounds(t)'
               /\ di'[t].state = 0 => di'[t].count = CounterMax * Rounds(t)'
    <3>1. CASE t = s
      <4>1. Rounds(t) = series /\ Rounds(t)' = series + 1
        BY <1>7, <3>1, NoneAssumption DEF KernelSkip, Rounds, Storing
      <4> QED
        BY <1>7, <1>a, <1>b, <1>c, <3>1, <4>1 DEF KernelSkip, Counts
    <3>2. CASE t # s
      <4>1. Rounds(t)' = Rounds(t)
        BY <1>7, <3>2 DEF KernelSkip, Rounds, Storing
      <4> QED
        BY <1>7, <4>1 DEF KernelSkip, Counts
    <3> QED
      BY <3>1, <3>2
  <2> QED
    BY <2>1 DEF Counts
<1>8. ASSUME NEW s \in Stubs, KernelStart(s) PROVE Counts'
  BY <1>8, NoneAssumption DEF KernelStart, Counts, Rounds, Storing
<1>9. CASE KernelDeadEnd
  <2>1. ExploredId \in Nat /\ ExploredId <= CounterMax * (series + 1)
    BY <1>9, <1>d DEF KernelDeadEnd
  <2> QED
    BY <1>9, <2>1, FinishCounts DEF KernelDeadEnd, IdleItem
<1>10. CASE KernelSuccess
  <2>1. ExploredId + 1 \in Nat /\ ExploredId + 1 <= CounterMax * (series + 1)
    BY <1>10, <1>d DEF KernelSuccess
  <2> QED
    BY <1>10, <2>1, FinishCounts DEF KernelSuccess, IdleItem
<1>11. CASE KernelPop
  BY <1>11 DEF KernelPop, Counts, Rounds, Storing
<1>12. CASE KernelPassPip
  BY <1>12 DEF KernelPassPip, Counts, Rounds, Storing
<1>13. CASE KernelAddPip
  BY <1>13 DEF KernelAddPip, Counts, Rounds, Storing
<1>14. CASE KernelStuck
  <2>1. item # None
    BY <1>14 DEF KernelStuck, ExpandedAll, Phase
  <2>2. ExploredId \in Nat /\ ExploredId <= CounterMax * (series + 1)
    BY <1>14, <2>1, <1>d DEF KernelStuck, ExpandedAll
  <2> QED
    BY <1>14, <2>1, <2>2, FinishCounts DEF KernelStuck, ExpandedAll, IdleItem
<1>15. CASE KernelContinue
  BY <1>15 DEF KernelContinue, ExpandedAll, Counts, Rounds, Storing
<1>16. CASE KernelSuspend
  <2>1. item # None
    BY <1>16 DEF KernelSuspend, ExpandedAll, Phase
  <2>2. series * CounterMax + CounterMax \in Nat
        /\ series * CounterMax + CounterMax = CounterMax * (series + 1)
    BY <1>a, <1>b
  <2> QED
    BY <1>16, <2>1, <2>2, FinishCounts DEF KernelSuspend, ExpandedAll, IdleItem
<1>17. CASE Store \/ Done \/ UNCHANGED vars
  BY <1>17, StoreKeepsSearches DEF Counts, Rounds, Storing
<1> QED
  BY <1>1, <1>2, <1>3, <1>4, <1>5, <1>6, <1>7, <1>8, <1>9, <1>10, <1>11,
     <1>12, <1>13, <1>14, <1>15, <1>16, <1>17 DEF Next, Host, Kernel

-----------------------------------------------------------------------------
(* The histories. *)

(* Entry id lies in series id \div CounterMax. *)
LEMMA EntryPlace ==
  ASSUME NEW id \in Nat
  PROVE  /\ id \div CounterMax \in Nat
         /\ id % CounterMax \in 0..(CounterMax - 1)
         /\ id = CounterMax * (id \div CounterMax) + (id % CounterMax)
BY SearchAssumption

LEMMA PlaceUnique ==
  ASSUME NEW k \in Nat, NEW c \in 0..(CounterMax - 1),
         NEW q \in Nat, NEW r \in 0..(CounterMax - 1),
         CounterMax * k + c = CounterMax * q + r
  PROVE  k = q /\ c = r
<1>1. CounterMax * (k - q) = r - c
  BY SearchAssumption
<1>2. k - q <= 0
  <2> SUFFICES ASSUME k - q >= 1 PROVE FALSE
    OBVIOUS
  <2>1. CounterMax * (k - q) >= CounterMax
    BY SearchAssumption
  <2> QED
    BY <1>1, <2>1, SearchAssumption
<1>3. k - q >= 0
  <2> SUFFICES ASSUME k - q <= -1 PROVE FALSE
    OBVIOUS
  <2>1. CounterMax * (k - q) <= -CounterMax
    BY SearchAssumption
  <2> QED
    BY <1>1, <2>1, SearchAssumption
<1>4. k = q
  BY <1>2, <1>3
<1> QED
  BY <1>1, <1>4, SearchAssumption

LEMMA PlaceBelow ==
  ASSUME NEW id \in Nat, NEW k \in Nat, id < CounterMax * k
  PROVE  id \div CounterMax < k
<1> DEFINE q == id \div CounterMax
           r == id % CounterMax
<1>1. q \in Nat /\ r \in Nat /\ id = CounterMax * q + r
  BY EntryPlace
<1> HIDE DEF q, r
<1> SUFFICES ASSUME q >= k PROVE FALSE
  BY <1>1 DEF q
<1>2. CounterMax * q >= CounterMax * k
  BY <1>1, SearchAssumption
<1> QED
  BY <1>1, <1>2, SearchAssumption

LEMMA KnownBound ==
  ASSUME Types, Phase, Counts, NEW s \in Stubs
  PROVE  /\ Known(s) \in Nat
         /\ Known(s) <= CounterMax * (series + 1)
         /\ Storing => Known(s) <= CounterMax * Len(snaps)
         /\ di[s].count <= Known(s) \/ item = s
<1>1. series \in Nat /\ CounterMax \in Nat
      /\ count_index \in 0..(CounterMax - 1) /\ di[s].count \in Nat
  BY SearchAssumption DEF Types
<1>2. /\ CounterMax * series \in Nat
      /\ CounterMax * (series + 1) = CounterMax * series + CounterMax
      /\ series * CounterMax = CounterMax * series
  BY <1>1, NextRound
<1>3. ExploredId \in Nat /\ ExploredId + 1 <= CounterMax * (series + 1)
  BY <1>1, <1>2 DEF ExploredId
<1>4. di[s].count <= CounterMax * (series + 1)
  <2>1. Rounds(s) \in {series, series + 1}
    BY DEF Rounds
  <2> QED
    BY <1>1, <1>2, <2>1 DEF Counts
<1>5. Storing => item = None /\ Len(snaps) = series + 1
  BY DEF Phase, Storing
<1> QED
  BY <1>1, <1>2, <1>3, <1>4, <1>5, NoneAssumption DEF Known

(* No step but the end of a restart changes an entry that counts. *)
LEMMA HistoryKept ==
  ASSUME Types, Phase, Counts, [Next]_vars, ~EndRestart,
         NEW s \in Stubs, NEW id \in Nat, id < Known(s)
  PROVE  HistoryAt(s, id)' = HistoryAt(s, id)
<1>0. series + 1 \in Nat /\ id < CounterMax * (series + 1)
  <2>1. series + 1 \in Nat
    BY DEF Types
  <2>2. CounterMax * (series + 1) \in Nat
    BY <2>1, NextRound
  <2>3. Known(s) \in Nat /\ Known(s) <= CounterMax * (series + 1)
    BY KnownBound
  <2> QED
    BY <2>1, <2>2, <2>3
<1>1. CASE UNCHANGED <<snaps, explored>>
  BY <1>1 DEF HistoryAt
<1>2. CASE KernelPop \/ KernelSuccess
  <2> DEFINE h == [pip |-> cur_heads[1].pip, parent |-> cur_heads[1].parent]
  <2>1. /\ snaps' = snaps
        /\ explored' = [explored EXCEPT ![item][count_index] = h]
        /\ pc = "kernel" /\ item # None /\ parent = None
    BY <1>2 DEF KernelPop, KernelSuccess, LogHead
  <2>2. CASE s # item
    <3>1. explored'[s] = explored[s]
      BY <2>1, <2>2 DEF Types
    <3> QED
      BY <2>1, <3>1 DEF HistoryAt
  <2>3. CASE s = item /\ id \div CounterMax < Len(snaps)
    BY <2>1, <2>3 DEF HistoryAt
  <2>4. CASE s = item /\ ~(id \div CounterMax < Len(snaps))
    <3> DEFINE q == id \div CounterMax
               r == id % CounterMax
    <3>1. Len(snaps) = series /\ series \in Nat
          /\ count_index \in 0..(CounterMax - 1)
      BY <2>1 DEF Phase, Storing, Types
    <3>2. Known(s) = series * CounterMax + count_index
      BY <2>1, <2>4 DEF Known, ExploredId
    <3>3. q \in Nat /\ r \in 0..(CounterMax - 1) /\ id = CounterMax * q + r
      BY EntryPlace
    <3>4. q < series + 1
      BY <1>0, PlaceBelow
    <3>5. q = series
      BY <2>4, <3>1, <3>3, <3>4
    <3>6. series * CounterMax = CounterMax * series
          /\ CounterMax * series \in Nat
      BY <3>1, NextRound
    <3>7. r # count_index
      <4> HIDE DEF q, r
      <4> QED
        BY <3>1, <3>2, <3>3, <3>5, <3>6
    <3>8. explored'[s][r] = explored[s][r]
      BY <2>1, <2>4, <3>3, <3>7 DEF Types, History
    <3> QED
      BY <2>1, <2>4, <3>8 DEF HistoryAt
  <2> QED
    BY <2>2, <2>3, <2>4
<1>3. CASE ReadBack
  <2>1. /\ snaps \in Seq([Stubs -> History]) /\ explored \in [Stubs -> History]
        /\ snaps' = Append(snaps, explored) /\ explored' = explored
        /\ Len(snaps) = series /\ series \in Nat
    BY <1>3 DEF ReadBack, Types, Phase, Storing
  <2>2. id \div CounterMax \in Nat /\ id \div CounterMax < series + 1
    BY <1>0, PlaceBelow, EntryPlace
  <2>3. Len(snaps') = series + 1
    BY <2>1
  <2>4. CASE id \div CounterMax < series
    <3>1. snaps'[(id \div CounterMax) + 1] = snaps[(id \div CounterMax) + 1]
      BY <2>1, <2>2, <2>4
    <3> QED
      BY <2>1, <2>2, <2>3, <2>4, <3>1 DEF HistoryAt
  <2>5. CASE id \div CounterMax = series
    <3>1. snaps'[(id \div CounterMax) + 1] = explored
      BY <2>1, <2>5
    <3> QED
      BY <2>1, <2>3, <2>5, <3>1 DEF HistoryAt
  <2> QED
    BY <2>1, <2>2, <2>4, <2>5
<1>4. UNCHANGED <<snaps, explored>> \/ KernelPop \/ KernelSuccess \/ ReadBack
  BY StoreKeepsSearches
     DEF Next, Host, Kernel, StartRestart, StepAll, EndSeries,
         WriteUnroutedNets, KernelSkip, KernelStart, KernelDeadEnd,
         KernelPassPip, KernelAddPip, KernelStuck, KernelContinue,
         KernelSuspend
<1> QED
  BY <1>1, <1>2, <1>3, <1>4

(* How many entries count: only an expansion adds one. *)
LEMMA KnownNext ==
  ASSUME Types, Phase, Counts, [Next]_vars, NEW s \in Stubs
  PROVE  \/ Known(s)' = Known(s)
         \/ /\ Known(s)' \in Nat /\ Known(s)' <= Known(s)
            /\ EndRestart \/ di'[s].state = 2
         \/ /\ KernelPop \/ KernelSuccess
            /\ s = item
            /\ Known(s) = ExploredId
            /\ Known(s)' = ExploredId + 1
<1> USE NoneAssumption DEF Storing
<1>0. Known(s) \in Nat /\ di[s].count \in Nat /\ ExploredId \in Nat
      /\ series \in Nat /\ count_index \in Nat /\ CounterMax \in Nat
  BY KnownBound, ExploredIdType, SearchAssumption DEF Types
<1>1. CASE StartRestart \/ StepAll \/ ReadBack \/ EndSeries \/ WriteUnroutedNets
  BY <1>0, <1>1 DEF StartRestart, StepAll, ReadBack, EndSeries,
                    WriteUnroutedNets, Phase, Known
<1>2. CASE EndRestart
  BY <1>0, <1>2 DEF EndRestart, Phase, Known
<1>3. ASSUME NEW t \in Stubs, KernelSkip(t)
      PROVE  Known(s)' = Known(s)
  BY <1>0, <1>3 DEF KernelSkip, Known, ExploredId
<1>4. ASSUME NEW t \in Stubs, KernelStart(t)
      PROVE  Known(s)' = Known(s)
  <2>1. CASE s = t
    <3>1. di[s].count = CounterMax * series
      BY <1>4, <2>1 DEF KernelStart, Counts, Rounds
    <3>2. Known(s) = di[s].count
      BY <1>4 DEF KernelStart, Known
    <3>3. Known(s)' = series * CounterMax + 0
      BY <1>4, <2>1 DEF KernelStart, Known, ExploredId, Phase
    <3> QED
      BY <1>0, <3>1, <3>2, <3>3, NextRound
  <2>2. CASE s # t
    BY <1>0, <1>4, <2>2 DEF KernelStart, Known
  <2> QED
    BY <2>1, <2>2
<1>5. CASE KernelDeadEnd \/ KernelStuck
  <2>1. /\ item # None /\ item' = None
        /\ di' = [di EXCEPT ![item] = [count |-> ExploredId, state |-> 2]]
    BY <1>5 DEF KernelDeadEnd, KernelStuck, ExpandedAll, Phase, Finish, IdleItem
  <2> QED
    BY <1>0, <2>1 DEF Known, Types
<1>6. CASE KernelSuccess
  <2>1. /\ item # None /\ item' = None /\ parent = None
        /\ di' = [di EXCEPT ![item] = [count |-> ExploredId + 1, state |-> 1]]
    BY <1>6 DEF KernelSuccess, Finish, IdleItem
  <2> QED
    BY <1>0, <1>6, <2>1 DEF Known, Types
<1>7. CASE KernelPop
  <2>1. /\ item # None /\ item' = item /\ parent = None /\ parent' # None
        /\ di' = di /\ series' = series /\ count_index' = count_index
    BY <1>7 DEF KernelPop
  <2> QED
    BY <1>0, <1>7, <2>1 DEF Known, ExploredId
<1>8. CASE KernelPassPip \/ KernelAddPip
  BY <1>0, <1>8 DEF KernelPassPip, KernelAddPip, Known, ExploredId
<1>9. CASE KernelContinue
  <2>1. /\ item' = item /\ parent # None /\ parent' = None /\ di' = di
        /\ series' = series /\ count_index' = count_index + 1
    BY <1>9 DEF KernelContinue, ExpandedAll
  <2>2. series * CounterMax \in Nat
    BY <1>0
  <2> QED
    BY <1>0, <2>1, <2>2 DEF Known, ExploredId
<1>10. CASE KernelSuspend
  <2>1. /\ item # None /\ item' = None /\ parent # None
        /\ di' = [di EXCEPT ![item] =
                    [count |-> series * CounterMax + CounterMax, state |-> 0]]
        /\ count_index + 1 = CounterMax
    BY <1>10 DEF KernelSuspend, ExpandedAll, Phase, Finish, IdleItem
  <2>2. series * CounterMax \in Nat
    BY <1>0
  <2>3. ExploredId + 1 = series * CounterMax + CounterMax
    BY <1>0, <2>1, <2>2 DEF ExploredId
  <2> QED
    BY <1>0, <2>1, <2>3 DEF Known, Types
<1>11. CASE Store \/ Done \/ UNCHANGED vars
  BY <1>0, <1>11, StoreKeepsSearches DEF Known, ExploredId
<1> QED
  BY <1>1, <1>2, <1>3, <1>4, <1>5, <1>6, <1>7, <1>8, <1>9, <1>10, <1>11
     DEF Next, Host, Kernel

LEMMA ExploredIdPlace ==
  ASSUME Types, Phase, pc = "kernel"
  PROVE  /\ ~(ExploredId \div CounterMax < Len(snaps))
         /\ ExploredId % CounterMax = count_index
<1>1. /\ series \in Nat /\ count_index \in 0..(CounterMax - 1)
      /\ Len(snaps) = series
  BY DEF Types, Phase, Storing
<1>2. ExploredId = CounterMax * series + count_index
  BY <1>1, NextRound DEF ExploredId
<1>3. ExploredId \in Nat
  BY ExploredIdType
<1> DEFINE q == ExploredId \div CounterMax
           r == ExploredId % CounterMax
<1>4. q \in Nat /\ r \in 0..(CounterMax - 1)
      /\ CounterMax * series + count_index = CounterMax * q + r
  BY <1>2, <1>3, EntryPlace
<1>5. series = q /\ count_index = r
  <2> HIDE DEF q, r
  <2> QED
    BY <1>1, <1>4, PlaceUnique
<1> QED
  BY <1>1, <1>5

(* The head that is popped, or that succeeds, is the entry it adds. *)
LEMMA Logged ==
  ASSUME Types, Phase, KernelPop \/ KernelSuccess, NEW s \in Stubs, s = item,
         NEW id \in Nat, id = ExploredId
  PROVE  HistoryAt(s, id)' =
           [pip |-> cur_heads[1].pip, parent |-> cur_heads[1].parent]
<1>1. /\ pc = "kernel" /\ item # None /\ snaps' = snaps
      /\ explored' = [explored EXCEPT ![item][count_index] =
           [pip |-> cur_heads[1].pip, parent |-> cur_heads[1].parent]]
  BY DEF KernelPop, KernelSuccess, LogHead
<1>2. ~(id \div CounterMax < Len(snaps)) /\ id % CounterMax = count_index
  BY <1>1, ExploredIdPlace
<1>3. explored'[s][count_index] =
        [pip |-> cur_heads[1].pip, parent |-> cur_heads[1].parent]
  BY <1>1 DEF Types, History
<1> QED
  BY <1>1, <1>2, <1>3 DEF HistoryAt

(* The head in front extends the history of the item. *)
LEMMA FrontExtends ==
  ASSUME Types, Phase, BeamForest, pc = "kernel", item # None,
         cur_heads[1] # None
  PROVE  Extends(item, cur_heads[1], Known(item))
<1>1. 1 \in 1..BeamWidth
  BY WidthAssumption
<1>2. item \in Stubs /\ di[item].state = 0
  BY DEF Types, Phase
<1> QED
  BY <1>1, <1>2 DEF BeamForest

LEMMA HistoryForestInit == Init => HistoryForest
BY NoneAssumption DEF Init, HistoryForest, Known

LEMMA HistoryForestNext ==
  ASSUME Types, Phase, Counts, HistoryForest, BeamForest, [Next]_vars
  PROVE  HistoryForest'
<1>1. CASE EndRestart
  <2>1. \A s \in Stubs : Known(s)' = 0
    BY <1>1, NoneAssumption DEF EndRestart, Phase, Known
  <2> QED
    BY <2>1 DEF HistoryForest
<1>2. CASE ~EndRestart
  <2> SUFFICES ASSUME NEW s \in Stubs, NEW id \in 0..(Known(s)' - 1)
               PROVE  /\ HistoryAt(s, id)'.pip # None
                      /\ Extends(s, HistoryAt(s, id), id)'
    BY DEF HistoryForest
  <2>1. Known(s)' \in Nat /\ id \in Nat /\ id < Known(s)'
    BY KnownNext, KnownBound, ExploredIdType
  <2>2. CASE id < Known(s)
    <3>1. HistoryAt(s, id)' = HistoryAt(s, id)
      BY <1>2, <2>1, <2>2, HistoryKept
    <3>2. /\ HistoryAt(s, id).pip # None
          /\ Extends(s, HistoryAt(s, id), id)
      BY <2>1, <2>2, KnownBound DEF HistoryForest
    <3>3. CASE HistoryAt(s, id).parent = NoParent
      BY <3>1, <3>2, <3>3 DEF Extends, NoParent
    <3>4. CASE HistoryAt(s, id).parent \in 0..(id - 1)
      <4>1. PICK p \in 0..(id - 1) : p = HistoryAt(s, id).parent
        BY <3>4
      <4>2. p \in Nat /\ p < Known(s)
        BY <2>1, <2>2, KnownBound
      <4>3. HistoryAt(s, p)' = HistoryAt(s, p)
        BY <1>2, <4>2, HistoryKept
      <4>4. Node0[HistoryAt(s, id).pip] = Node1[HistoryAt(s, p).pip]
        BY <2>1, <3>2, <4>1 DEF Extends, NoParent
      <4> QED
        BY <3>1, <3>2, <4>1, <4>3, <4>4 DEF Extends
    <3> QED
      BY <3>2, <3>3, <3>4 DEF Extends
  <2>3. CASE ~(id < Known(s))
    <3>1. /\ KernelPop \/ KernelSuccess
          /\ s = item /\ id = ExploredId /\ id = Known(s)
      BY <2>1, <2>3, KnownNext, ExploredIdType, KnownBound
    <3>2. HistoryAt(s, id)' =
            [pip |-> cur_heads[1].pip, parent |-> cur_heads[1].parent]
      BY <2>1, <3>1, Logged
    <3>3. /\ pc = "kernel" /\ item # None /\ cur_heads[1] # None
      BY <3>1 DEF KernelPop, KernelSuccess
    <3>4. Extends(s, cur_heads[1], id)
      BY <3>1, <3>3, FrontExtends
    <3>5. cur_heads[1].pip # None
      BY <3>3, FrontType, NoneAssumption DEF BeamHead
    <3>6. CASE cur_heads[1].parent = NoParent
      BY <3>2, <3>4, <3>5, <3>6 DEF Extends, NoParent
    <3>7. CASE cur_heads[1].parent # NoParent
      <4>1. PICK p \in 0..(id - 1) : p = cur_heads[1].parent
        BY <3>4, <3>7 DEF Extends
      <4>2. HistoryAt(s, p)' = HistoryAt(s, p)
        BY <1>2, <2>1, <3>1, <4>1, HistoryKept
      <4>3. Node0[cur_heads[1].pip] = Node1[HistoryAt(s, p).pip]
        BY <3>4, <3>7, <4>1 DEF Extends
      <4> QED
        BY <3>2, <3>5, <4>1, <4>2, <4>3 DEF Extends
    <3> QED
      BY <3>6, <3>7
  <2> QED
    BY <2>2, <2>3
<1> QED
  BY <1>1, <1>2

(* A head that extends the history of a stub still does after a step. *)
LEMMA ExtendsKept ==
  ASSUME Types, Phase, Counts, [Next]_vars, ~EndRestart,
         NEW s \in Stubs, NEW e, NEW k \in Nat, k <= Known(s),
         Extends(s, e, k), NEW m \in Nat, k <= m
  PROVE  Extends(s, e, m)'
<1>1. CASE e.parent = NoParent
  BY <1>1 DEF Extends, NoParent
<1>2. CASE e.parent # NoParent
  <2>1. e.parent \in 0..(k - 1) /\ Node0[e.pip] = Node1[HistoryAt(s, e.parent).pip]
    BY <1>2 DEF Extends
  <2>2. e.parent \in Nat /\ e.parent < Known(s)
    BY <2>1, KnownBound
  <2>3. HistoryAt(s, e.parent)' = HistoryAt(s, e.parent)
    BY <2>2, HistoryKept
  <2> QED
    BY <2>1, <2>3 DEF Extends
<1> QED
  BY <1>1, <1>2

(* The heads a stub may expand. *)
BeamOf(s) == IF item = s THEN cur_heads ELSE heads[s]

LEMMA BeamOfType ==
  ASSUME Types, NEW s \in Stubs
  PROVE  BeamOf(s) \in BeamSet
BY DEF Types, BeamOf

(* Where the heads of the next state come from. *)
LEMMA BeamNext ==
  ASSUME Types, Phase, [Next]_vars, NEW s \in Stubs, di'[s].state = 0,
         pc' \notin {"restart", "done"}, NEW j \in 1..BeamWidth,
         NEW e, e = BeamOf(s)'[j], e # None
  PROVE  \/ /\ di[s].state = 0 /\ pc \notin {"restart", "done"}
            /\ \E i \in 1..BeamWidth : e = BeamOf(s)[i]
         \/ StartRestart /\ e = FirstBeam(s)[j]
         \/ /\ KernelAddPip /\ s = item
            /\ e = HeadOf(ExpandedPips[pip_i])
<1> USE NoneAssumption DEF Storing
<1>1. CASE StartRestart
  BY <1>1 DEF StartRestart, Phase, BeamOf
<1>2. CASE StepAll \/ ReadBack \/ EndSeries
  BY <1>2 DEF StepAll, ReadBack, EndSeries, BeamOf
<1>3. CASE EndRestart \/ WriteUnroutedNets
  BY <1>3 DEF EndRestart, WriteUnroutedNets
<1>4. ASSUME NEW t \in Stubs, KernelSkip(t) \/ KernelStart(t)
      PROVE  /\ di[s].state = 0 /\ pc \notin {"restart", "done"}
             /\ e = BeamOf(s)[j]
  BY <1>4 DEF KernelSkip, KernelStart, BeamOf
<1>5. CASE KernelDeadEnd \/ KernelStuck \/ KernelSuccess \/ KernelSuspend
  <2>1. /\ item # None /\ item' = None /\ pc = "kernel" /\ di[item].state = 0
    BY <1>5 DEF KernelDeadEnd, KernelStuck, KernelSuccess, KernelSuspend,
                ExpandedAll, Phase, IdleItem
  <2>2. CASE s = item
    <3>1. ~KernelDeadEnd /\ ~KernelStuck /\ ~KernelSuccess
      BY <2>2 DEF KernelDeadEnd, KernelStuck, KernelSuccess, Finish, Types
    <3>2. heads'[s] = cur_heads
      BY <1>5, <2>2, <3>1 DEF KernelSuspend, Types
    <3> QED
      BY <2>1, <2>2, <3>2 DEF BeamOf
  <2>3. CASE s # item
    <3>1. di'[s] = di[s] /\ heads'[s] = heads[s]
      BY <1>5, <2>3 DEF KernelDeadEnd, KernelStuck, KernelSuccess,
                        KernelSuspend, Finish, Types
    <3> QED
      BY <2>1, <2>3, <3>1 DEF BeamOf
  <2> QED
    BY <2>2, <2>3
<1>6. CASE KernelPop
  <2>1. /\ item # None /\ item' = item /\ pc = "kernel" /\ di' = di
        /\ heads' = heads /\ cur_heads' = Shift(cur_heads)
    BY <1>6 DEF KernelPop
  <2>2. CASE s = item
    <3>1. e = Shift(cur_heads)[j]
      BY <2>1, <2>2 DEF BeamOf
    <3>2. j < BeamWidth /\ e = cur_heads[j + 1]
      BY <3>1 DEF Shift
    <3>3. j + 1 \in 1..BeamWidth
      BY <3>2, WidthAssumption
    <3> QED
      BY <2>1, <2>2, <3>2, <3>3 DEF BeamOf
  <2>3. CASE s # item
    BY <2>1, <2>3 DEF BeamOf
  <2> QED
    BY <2>2, <2>3
<1>7. CASE KernelAddPip
  <2> DEFINE h == HeadOf(ExpandedPips[pip_i])
             S == {cur_heads[i] : i \in 1..BeamWidth} \cup {h}
  <2>1. /\ item' = item /\ pc = "kernel" /\ di' = di
        /\ heads' = heads /\ cur_heads' = Insert(cur_heads, h)
    BY <1>7 DEF KernelAddPip
  <2>2. CASE s = item
    <3>1. cur_heads \in [1..BeamWidth -> S \cup {None}] /\ h \in S
      BY DEF Types, BeamSet
    <3> HIDE DEF h, S
    <3>2. Insert(cur_heads, h) \in [1..BeamWidth -> S \cup {None}]
      BY <3>1, InsertKeepsHeads
    <3>3. e \in S
      BY <2>1, <2>2, <3>2 DEF BeamOf
    <3> QED
      BY <1>7, <2>1, <2>2, <3>3 DEF BeamOf, S, h
  <2>3. CASE s # item
    BY <2>1, <2>3 DEF BeamOf
  <2> QED
    BY <2>2, <2>3
<1>8. CASE KernelPassPip \/ KernelContinue
  BY <1>8 DEF KernelPassPip, KernelContinue, ExpandedAll, BeamOf
<1>9. CASE Store
  <2>1. Storing
    BY <1>9 DEF Store, StoreSkip, StoreBegin, WalkParent, WalkEnd,
                StoreRefuse, StoreForward, StoreRoute
  <2> QED
    BY <1>9, <2>1, StoreKeepsSearches DEF BeamOf
<1>10. CASE Done \/ UNCHANGED vars
  BY <1>10 DEF Done, BeamOf
<1> QED
  BY <1>1, <1>2, <1>3, <1>4, <1>5, <1>6, <1>7, <1>8, <1>9, <1>10
     DEF Next, Host, Kernel

LEMMA FirstBeamExtends ==
  ASSUME NEW s \in Stubs, NEW j \in 1..BeamWidth, FirstBeam(s)[j] # None,
         NEW e, e = FirstBeam(s)[j]
  PROVE  e.parent = NoParent /\ Node0[e.pip] \in Sources[NetOf[s]]
<1> DEFINE n == NetOf[s]
<1>1. /\ j <= Len(SourcePips[n])
      /\ e = [cost |-> 0, height |-> 0, parent |-> NoParent,
              pip |-> SourcePips[n][j]]
  BY DEF FirstBeam
<1>2. n \in Nets /\ SourcePips[n] \in Seq(Pips)
  BY NetlistAssumption
<1>3. j \in DOMAIN SourcePips[n]
  BY <1>1, <1>2, WidthAssumption
<1> QED
  BY <1>1, <1>2, <1>3, NetlistAssumption

LEMMA BeamForestInit == Init => BeamForest
BY DEF Init, BeamForest

LEMMA BeamForestNext ==
  ASSUME Types, Phase, Counts, BeamForest, ParentLogged, [Next]_vars
  PROVE  BeamForest'
<1> SUFFICES ASSUME NEW s \in Stubs, di'[s].state = 0,
                    pc' \notin {"restart", "done"}, NEW j \in 1..BeamWidth,
                    NEW e, e = BeamOf(s)'[j], e # None,
                    NEW m, m = Known(s)'
             PROVE  Extends(s, e, m)'
  BY DEF BeamForest, BeamOf
<1>1. ~EndRestart
  BY DEF EndRestart
<1>2. /\ m \in Nat
      /\ \/ m = Known(s)
         \/ (KernelPop \/ KernelSuccess) /\ m = Known(s) + 1
  <2>1. \/ Known(s)' = Known(s)
        \/ EndRestart \/ di'[s].state = 2
        \/ /\ KernelPop \/ KernelSuccess
           /\ Known(s) = ExploredId /\ Known(s)' = ExploredId + 1
    BY KnownNext
  <2>2. Known(s) \in Nat
    BY KnownBound
  <2> QED
    BY <1>1, <2>1, <2>2
<1>3. CASE /\ di[s].state = 0 /\ pc \notin {"restart", "done"}
           /\ \E i \in 1..BeamWidth : e = BeamOf(s)[i]
  <2>1. PICK k \in Nat : k = Known(s)
    BY KnownBound
  <2>2. Extends(s, e, k)
    BY <1>3, <2>1 DEF BeamForest, BeamOf
  <2> QED
    BY <1>1, <1>2, <2>1, <2>2, ExtendsKept
<1>4. CASE StartRestart /\ e = FirstBeam(s)[j]
  BY <1>4, FirstBeamExtends DEF Extends
<1>5. CASE KernelAddPip /\ s = item /\ e = HeadOf(ExpandedPips[pip_i])
  <2>1. PICK p \in Nat : p = ExploredId
    BY ExploredIdType
  <2>2. /\ parent # None /\ pip_i \in 1..Len(ExpandedPips)
        /\ item # None
    BY <1>5 DEF KernelAddPip, Types, Phase
  <2>3. m = p + 1
    BY <1>2, <1>5, <2>1, <2>2 DEF Known, KernelAddPip, KernelPop, KernelSuccess
  <2>4. p < Known(s)
    BY <1>5, <2>1, <2>2 DEF Known
  <2>5. HistoryAt(s, p)' = HistoryAt(s, p)
    BY <1>1, <2>1, <2>4, HistoryKept
  <2>6. HistoryAt(s, p).pip = parent.pip
    BY <1>5, <2>1, <2>2 DEF ParentLogged
  <2>7. /\ e.parent = p
        /\ Node0[e.pip] = Node1[parent.pip]
    BY <1>5, <2>1, <2>2, ExpandedPipType DEF HeadOf
  <2> QED
    BY <2>1, <2>3, <2>5, <2>6, <2>7 DEF Extends
<1> QED
  BY <1>3, <1>4, <1>5, BeamNext

LEMMA ParentLoggedNext ==
  ASSUME Types, Phase, ParentLogged, [Next]_vars
  PROVE  ParentLogged'
<1>1. CASE KernelPop
  <2>1. PICK s \in Stubs : s = item
    BY <1>1 DEF KernelPop, Types
  <2>2. PICK id \in Nat : id = ExploredId
    BY ExploredIdType
  <2>3. HistoryAt(s, id)'.pip = cur_heads[1].pip
    BY <1>1, <2>1, <2>2, Logged
  <2>4. /\ item' = s /\ ExploredId' = id /\ parent' = cur_heads[1]
    BY <1>1, <2>1, <2>2 DEF KernelPop, ExploredId
  <2> QED
    BY <2>3, <2>4 DEF ParentLogged
<1>2. CASE KernelPassPip \/ KernelAddPip
  BY <1>2 DEF KernelPassPip, KernelAddPip, ParentLogged, HistoryAt, ExploredId
<1>3. CASE Host \/ (\E s \in Stubs : KernelSkip(s) \/ KernelStart(s))
  <2>1. item = None /\ parent' = parent
    BY <1>3 DEF Host, StartRestart, StepAll, ReadBack, EndSeries, EndRestart,
                WriteUnroutedNets, KernelSkip, KernelStart, Phase
  <2> QED
    BY <2>1 DEF Phase, ParentLogged
<1>4. CASE KernelDeadEnd \/ KernelSuccess \/ KernelStuck \/ KernelContinue
             \/ KernelSuspend
  <2>1. parent' = None
    BY <1>4 DEF KernelDeadEnd, KernelSuccess, KernelStuck, KernelContinue,
                KernelSuspend, IdleItem
  <2> QED
    BY <2>1 DEF ParentLogged
<1>5. CASE Store \/ Done \/ UNCHANGED vars
  BY <1>5, StoreKeepsSearches DEF ParentLogged, HistoryAt, ExploredId
<1> QED
  BY <1>1, <1>2, <1>3, <1>4, <1>5 DEF Next, Kernel

LEMMA FoundNext ==
  ASSUME Types, Phase, Counts, Found, [Next]_vars
  PROVE  Found'
<1> SUFFICES ASSUME NEW s \in Stubs, di'[s].state = 1, di'[s].count # 0
             PROVE  Node1[HistoryAt(s, di[s].count - 1)'.pip] = StubNode[s]
  BY DEF Found
<1>1. ~EndRestart
  BY DEF EndRestart
<1>2. CASE di'[s] = di[s]
  <2>1. item # s
    BY <1>2, NoneAssumption DEF Phase
  <2>2. PICK id \in Nat : id = di[s].count - 1 /\ id < Known(s)
    BY <1>2, <2>1 DEF Types, Known
  <2>3. HistoryAt(s, id)' = HistoryAt(s, id)
    BY <1>1, <2>2, HistoryKept
  <2>4. di'[s].count - 1 = id /\ Node1[HistoryAt(s, id).pip] = StubNode[s]
    BY <1>2, <2>2 DEF Found
  <2> QED
    BY <2>3, <2>4
<1>3. CASE s = item /\ KernelSuccess
  <2>1. PICK id \in Nat : id = ExploredId
    BY ExploredIdType
  <2>2. HistoryAt(s, id)'.pip = cur_heads[1].pip
    BY <1>3, <2>1, Logged
  <2>3. di'[s].count - 1 = id
    BY <1>3, <2>1 DEF KernelSuccess, Finish, Types
  <2>4. Node1[cur_heads[1].pip] = StubNode[s]
    BY <1>3 DEF KernelSuccess
  <2> QED
    BY <2>2, <2>3, <2>4
<1>4. di'[s] = di[s] \/ (s = item /\ KernelSuccess)
  <2>1. CASE Host \/ (\E t \in Stubs : KernelSkip(t) \/ KernelStart(t))
    BY <1>1, <2>1 DEF Host, StartRestart, StepAll, ReadBack, EndSeries,
                      WriteUnroutedNets, KernelSkip, KernelStart
  <2>2. CASE KernelPop \/ KernelPassPip \/ KernelAddPip \/ KernelContinue
    BY <2>2 DEF KernelPop, KernelPassPip, KernelAddPip, KernelContinue
  <2>3. CASE KernelDeadEnd \/ KernelStuck \/ KernelSuspend
    BY <2>3 DEF KernelDeadEnd, KernelStuck, KernelSuspend, Finish, Types
  <2>4. CASE KernelSuccess
    BY <2>4 DEF KernelSuccess, Finish, Types
  <2>5. CASE Store \/ Done \/ UNCHANGED vars
    BY <2>5, StoreKeepsSearches
  <2> QED
    BY <2>1, <2>2, <2>3, <2>4, <2>5 DEF Next, Kernel
<1> QED
  BY <1>2, <1>3, <1>4

LEMMA KernelInvInit == Init => KernelInv
<1> SUFFICES ASSUME Init PROVE KernelInv
  OBVIOUS
<1>1. Types /\ Phase /\ Counts /\ HistoryForest /\ BeamForest
  BY TypesInit, PhaseInit, CountsInit, HistoryForestInit, BeamForestInit
<1>2. ParentLogged /\ Found
  BY DEF Init, ParentLogged, Found
<1> QED
  BY <1>1, <1>2 DEF KernelInv

LEMMA KernelInvNext == KernelInv /\ [Next]_vars => KernelInv'
BY TypesNext, PhaseNext, CountsNext, HistoryForestNext, BeamForestNext,
   ParentLoggedNext, FoundNext DEF KernelInv

THEOREM KernelInvariant == Spec => []KernelInv
BY KernelInvInit, KernelInvNext, PTL DEF Spec

(* For every device, netlist and beam, and any number of series and        *)
(* restarts: the parent of every history entry is an earlier entry of the  *)
(* stub, which its pip leaves. *)
THEOREM HistoriesAreForests == Spec => []HistoryForest
<1>1. KernelInv => HistoryForest
  BY DEF KernelInv
<1> QED
  BY <1>1, KernelInvariant, PTL

(* So are the heads that a later series of the kernel resumes with. *)
THEOREM BeamsExtendHistories == Spec => []BeamForest
<1>1. KernelInv => BeamForest
  BY DEF KernelInv
<1> QED
  BY <1>1, KernelInvariant, PTL

(* Every beam is in the order of its costs: the one that is expanded, and   *)
(* those the device keeps for a later series. *)
BeamsSorted == Sorted(cur_heads) /\ \A s \in Stubs : Sorted(heads[s])

LEMMA NoBeamSorted == Sorted(NoBeam)
BY DEF Sorted, NoBeam, AtMost

LEMMA FirstBeamSorted == ASSUME NEW s \in Stubs PROVE Sorted(FirstBeam(s))
<1>1. Len(SourcePips[NetOf[s]]) \in Nat
  BY NetlistAssumption
<1>2. ASSUME NEW i \in 1..BeamWidth, NEW j \in 1..BeamWidth, i < j
      PROVE  AtMost(FirstBeam(s)[i], FirstBeam(s)[j])
  <2>1. CASE FirstBeam(s)[j] = None
    BY <2>1 DEF AtMost
  <2>2. CASE FirstBeam(s)[j] # None
    <3>1. s \notin SiteLess /\ j <= Len(SourcePips[NetOf[s]])
      BY <2>2 DEF FirstBeam
    <3>2. i <= Len(SourcePips[NetOf[s]])
      BY <1>1, <1>2, <3>1, WidthAssumption
    <3>3. /\ FirstBeam(s)[i] = [cost |-> 0, height |-> 0, parent |-> NoParent,
                                pip |-> SourcePips[NetOf[s]][i]]
          /\ FirstBeam(s)[j] = [cost |-> 0, height |-> 0, parent |-> NoParent,
                                pip |-> SourcePips[NetOf[s]][j]]
      BY <3>1, <3>2 DEF FirstBeam
    <3>4. FirstBeam(s)[i] # None
      <4>1. FirstBeam(s) \in BeamSet
        BY FirstBeamType
      <4>2. i \in DOMAIN SourcePips[NetOf[s]]
        BY <1>1, <3>2, NetlistAssumption, WidthAssumption
      <4>3. SourcePips[NetOf[s]][i] \in Pips
        BY <4>2, NetlistAssumption
      <4>4. FirstBeam(s)[i] \in BeamHead
        BY <3>3, <4>3 DEF BeamHead, NoParent
      <4> QED
        BY <4>4, NoneAssumption
    <3> QED
      BY <3>3, <3>4 DEF AtMost
  <2> QED
    BY <2>1, <2>2
<1> QED
  BY <1>2 DEF Sorted

LEMMA HeadsHaveCosts == Heads(BeamHead)
BY NoneAssumption DEF Heads, BeamHead

LEMMA BeamsSortedInit == Init => BeamsSorted
BY NoBeamSorted, FirstBeamSorted DEF Init, BeamsSorted

LEMMA BeamsSortedNext ==
  ASSUME Types, Phase, BeamsSorted, [Next]_vars
  PROVE  BeamsSorted'
<1> USE DEF BeamsSorted
<1>1. CASE StartRestart
  BY <1>1, FirstBeamSorted DEF StartRestart, kernel
<1>2. CASE \E s \in Stubs : KernelStart(s)
  BY <1>2 DEF KernelStart, device
<1>3. CASE KernelPop
  BY <1>3, ShiftSorted DEF KernelPop
<1>4. CASE KernelAddPip
  <2>1. /\ parent # None /\ pip_i \in 1..Len(ExpandedPips) /\ item # None
        /\ cur_heads' = Insert(cur_heads, HeadOf(ExpandedPips[pip_i]))
        /\ heads' = heads
    BY <1>4 DEF KernelAddPip, Types, Phase, device
  <2>2. PICK h \in BeamHead : h = HeadOf(ExpandedPips[pip_i])
    BY <2>1, ExpandedPipType, HeadOfType
  <2>3. cur_heads \in [1..BeamWidth -> BeamHead \cup {None}]
    BY DEF Types, BeamSet
  <2>4. Sorted(Insert(cur_heads, h))
    BY <2>2, <2>3, HeadsHaveCosts, InsertSorted
  <2> QED
    BY <2>1, <2>2, <2>4
<1>5. CASE KernelSuspend
  <2>1. /\ cur_heads' = NoBeam
        /\ heads' = [heads EXCEPT ![item] = cur_heads]
    BY <1>5 DEF KernelSuspend, IdleItem
  <2>2. ASSUME NEW s \in Stubs PROVE Sorted(heads'[s])
    <3>1. heads'[s] = heads[s] \/ heads'[s] = cur_heads
      BY <2>1 DEF Types
    <3> QED
      BY <3>1
  <2> QED
    BY <2>1, <2>2, NoBeamSorted
<1>6. CASE KernelDeadEnd \/ KernelSuccess \/ KernelStuck
  BY <1>6, NoBeamSorted DEF KernelDeadEnd, KernelSuccess, KernelStuck, IdleItem
<1>7. CASE UNCHANGED <<heads, cur_heads>>
  BY <1>7
<1>8. CASE StepAll \/ ReadBack \/ EndSeries \/ EndRestart \/ WriteUnroutedNets
  BY <1>7, <1>8 DEF StepAll, ReadBack, EndSeries, EndRestart, WriteUnroutedNets, device, kernel
<1>9. CASE (\E s \in Stubs : KernelSkip(s)) \/ KernelPassPip \/ KernelContinue
  BY <1>7, <1>9 DEF KernelSkip, KernelPassPip, KernelContinue, device
<1>10. CASE Store
  BY <1>7, <1>10 DEF Store, StoreSkip, StoreBegin, WalkParent, WalkEnd,
       StoreRefuse, StoreForward, StoreRoute, device, kernel
<1>11. CASE Done \/ UNCHANGED vars
  BY <1>7, <1>11 DEF Done, vars
<1> QED
  BY <1>1, <1>2, <1>3, <1>4, <1>5, <1>6, <1>8, <1>9, <1>10, <1>11
     DEF Next, Host, Kernel

(* For every width of the beam and of the part of it that heads go into,   *)
(* every number of first heads and any costs: what the kernel expands next *)
(* is a cheapest head of its beam, in every series. *)
THEOREM FrontsAreCheapest == Spec => []FrontIsCheapest
<1>1. Init => BeamsSorted
  BY BeamsSortedInit
<1>2. KernelInv /\ BeamsSorted /\ [Next]_vars => BeamsSorted'
  BY BeamsSortedNext DEF KernelInv
<1>3. KernelInv /\ BeamsSorted => FrontIsCheapest
  <2>1. ASSUME NEW beam \in BeamSet, Sorted(beam) PROVE Front(beam)
    <3>1. SUFFICES ASSUME NEW j \in 1..BeamWidth, beam[j] # None
                   PROVE  beam[1] # None /\ beam[1].cost <= beam[j].cost
      BY DEF Front
    <3>2. CASE j = 1
      <4>1. beam[j] \in BeamHead
        BY <3>1 DEF BeamSet
      <4> QED
        BY <3>1, <3>2, <4>1 DEF BeamHead
    <3>3. CASE j # 1
      <4>1. 1 \in 1..BeamWidth /\ 1 < j
        BY <3>3, WidthAssumption
      <4>2. AtMost(beam[1], beam[j])
        BY <4>1, <2>1 DEF Sorted
      <4> QED
        BY <3>1, <4>2 DEF AtMost
    <3> QED
      BY <3>2, <3>3
  <2>2. ASSUME KernelInv, BeamsSorted PROVE FrontIsCheapest
    <3>1. cur_heads \in BeamSet /\ \A s \in Stubs : heads[s] \in BeamSet
      BY <2>2 DEF KernelInv, Types
    <3>2. Sorted(cur_heads) /\ \A s \in Stubs : Sorted(heads[s])
      BY <2>2 DEF BeamsSorted
    <3> QED
      BY <3>1, <3>2, <2>1 DEF FrontIsCheapest
  <2> QED
    BY <2>2
<1> QED
  BY <1>1, <1>2, <1>3, KernelInvariant, PTL DEF Spec

-----------------------------------------------------------------------------
(* The store phase. *)

LEMMA StubAtType ==
  ASSUME Types, di_index <= Len(order)
  PROVE  StubAt \in Stubs /\ NetAt \in Nets
<1>1. di_index \in 1..Cardinality(Stubs)
  BY OrderLength, StubCount DEF Types
<1> QED
  BY <1>1, NetlistAssumption DEF Types, StubAt, NetAt

LEMMA WalkedStub ==
  ASSUME Types, Phase, Walked
  PROVE  /\ Storing /\ di_index <= Len(order)
         /\ StubAt \in Stubs /\ NetAt \in Nets
<1>1. Storing /\ di_index <= Len(order)
  BY OrderLength DEF Phase, Storing, Walked
<1> QED
  BY <1>1, StubAtType

(* Entries below the count of the stub are the history's. *)
LEMMA EntryIsHistory ==
  ASSUME Types, Phase, Counts, HistoryForest, Walked,
         NEW id \in Nat, id < di[StubAt].count
  PROVE  /\ EntryAt(id) = HistoryAt(StubAt, id)
         /\ EntryAt(id).pip \in Pips
         /\ Extends(StubAt, EntryAt(id), id)
<1> DEFINE s == StubAt
<1>1. Storing /\ s \in Stubs /\ item = None /\ series \in Nat
      /\ Len(snaps) = series + 1
  BY WalkedStub DEF Phase, Storing, Walked, Types
<1>2. Known(s) = di[s].count
  BY <1>1, NoneAssumption DEF Known
<1> HIDE DEF s
<1>3. Known(s) \in Nat /\ Known(s) <= CounterMax * (series + 1)
  BY <1>1, KnownBound
<1>4. CounterMax * (series + 1) \in Nat /\ series + 1 \in Nat
  BY <1>1, NextRound
<1>5. id < CounterMax * (series + 1)
  BY <1>2, <1>3, <1>4 DEF s
<1>6. id \div CounterMax < Len(snaps)
  BY <1>1, <1>4, <1>5, PlaceBelow
<1>7. EntryAt(id) = HistoryAt(s, id)
  BY <1>6 DEF EntryAt, HistoryAt, s
<1>8. HistoryAt(s, id).pip # None /\ Extends(s, HistoryAt(s, id), id)
  BY <1>1, <1>2, <1>3 DEF HistoryForest, s
<1>9. HistoryAt(s, id) \in Entry
  <2>1. id \div CounterMax \in Nat /\ id % CounterMax \in 0..(CounterMax - 1)
    BY EntryPlace
  <2>2. (id \div CounterMax) + 1 \in 1..Len(snaps)
    BY <1>6, <2>1, <1>1
  <2>3. snaps[(id \div CounterMax) + 1] \in [Stubs -> History]
    BY <2>2 DEF Types
  <2> QED
    BY <1>1, <1>6, <2>1, <2>3 DEF HistoryAt, History
<1> QED
  BY <1>7, <1>8, <1>9 DEF Entry, s

(* What the walk reads stays until the next draw command. *)
LEMMA WalkKeeps ==
  ASSUME WalkParent \/ WalkEnd \/ StoreForward \/ Done \/ UNCHANGED vars
  PROVE  /\ StubAt' = StubAt /\ NetAt' = NetAt /\ di' = di
         /\ is_routed' = is_routed /\ owner' = owner /\ snaps' = snaps
         /\ claimed' = claimed
BY DEF WalkParent, WalkEnd, StoreForward, Done, StubAt, NetAt

(* The actions that are not between StoreBegin and the next draw command. *)
Elsewhere ==
  Host \/ Kernel \/ StoreSkip \/ StoreRefuse \/ StoreRoute

LEMMA ElsewhereResets ==
  ASSUME Walk, Forward, Elsewhere
  PROVE  /\ ~Walked' /\ cur_history' = NoParent /\ ids' = << >>
         /\ ri' = 0 /\ seen' = {}
<1>1. CASE StoreSkip \/ StoreRefuse \/ StoreRoute
  BY <1>1 DEF StoreSkip, StoreRefuse, StoreRoute, NextCommand, Walked
<1>2. CASE Host
  BY <1>2 DEF Host, StartRestart, StepAll, ReadBack, EndSeries, EndRestart,
              WriteUnroutedNets, Walk, Forward, Walked
<1>3. CASE Kernel
  BY <1>3 DEF Kernel, KernelSkip, KernelStart, KernelDeadEnd, KernelSuccess,
              KernelPop, KernelPassPip, KernelAddPip, KernelStuck,
              KernelContinue, KernelSuspend, ExpandedAll, Walk, Forward, Walked
<1> QED
  BY <1>1, <1>2, <1>3 DEF Elsewhere

LEMMA WalkInit == Init => Walk /\ Forward
BY DEF Init, Walk, Forward, Walked, NoParent

(* The facts of Walk about ids that do not mention pc. *)
Chain ==
  \A i \in 1..Len(ids) :
    /\ ids[i] <= di[StubAt].count - i
    /\ i = 1 => ids[i] = di[StubAt].count - 1
    /\ i < Len(ids) => ids[i + 1] = EntryAt(ids[i]).parent

(* Each entry of the walk is one of the history, and its parent is earlier. *)
LEMMA ChainEntry ==
  ASSUME KernelInv, Walk, Walked, NEW i \in 1..Len(ids)
  PROVE  /\ ids[i] \in Nat /\ ids[i] < di[StubAt].count
         /\ EntryAt(ids[i]) = HistoryAt(StubAt, ids[i])
         /\ EntryAt(ids[i]).pip \in Pips
         /\ Extends(StubAt, EntryAt(ids[i]), ids[i])
<1>1. ids \in Seq(Nat) /\ ids[i] <= di[StubAt].count - i
  BY DEF Walk
<1>2. ids[i] \in Nat /\ Len(ids) \in Nat
  BY <1>1
<1>3. di[StubAt].count \in Nat
  BY WalkedStub DEF KernelInv, Types
<1>4. ids[i] < di[StubAt].count
  BY <1>1, <1>2, <1>3
<1> QED
  BY <1>2, <1>4, EntryIsHistory DEF KernelInv

LEMMA WalkNextBegin ==
  ASSUME KernelInv, Walk, Forward, StoreBegin
  PROVE  Walk'
<1>1. ids' = << >> /\ pc' = "walk" /\ ids' = ids
  BY DEF StoreBegin, Walk, Walked
<1>2. StubAt' = StubAt /\ Storable(StubAt) /\ di' = di /\ is_routed' = is_routed
  BY DEF StoreBegin, StubAt
<1>3. Storable(StubAt)'
  BY <1>2 DEF Storable
<1>4. cur_history' = di[StubAt].count - 1 /\ di[StubAt].count \in Nat
  BY StubAtType DEF StoreBegin, KernelInv, Types
<1> QED
  BY <1>1, <1>2, <1>3, <1>4 DEF Walk, Walked

LEMMA WalkNextParent ==
  ASSUME KernelInv, Walk, Forward, WalkParent
  PROVE  Walk'
<1> DEFINE n == di[StubAt].count
<1>1. /\ pc = "walk" /\ pc' = "walk" /\ Walked /\ Storable(StubAt)
      /\ ids' = Append(ids, cur_history)
      /\ cur_history' = EntryAt(cur_history).parent
      /\ cur_history # NoParent /\ Len(ids) < n
      /\ ids \in Seq(Nat) /\ cur_history \in Int
  BY DEF WalkParent, Walking, Walk, Walked
<1>2. StubAt' = StubAt /\ di' = di /\ is_routed' = is_routed /\ snaps' = snaps
  BY WalkKeeps
<1>3. n \in Nat /\ Len(ids) \in Nat
  BY <1>1, WalkedStub DEF KernelInv, Types
<1> HIDE DEF n
<1>4. cur_history \in Nat /\ cur_history <= n - (Len(ids) + 1)
  <2>1. CASE ids = << >>
    BY <1>1, <1>3, <2>1 DEF Walk, n
  <2>2. CASE ids # << >>
    <3>1. Len(ids) \in 1..Len(ids)
      BY <1>1, <2>2
    <3>2. cur_history = EntryAt(ids[Len(ids)]).parent
      BY <1>1, <2>2 DEF Walk
    <3>3. Extends(StubAt, EntryAt(ids[Len(ids)]), ids[Len(ids)])
          /\ ids[Len(ids)] \in Nat
      BY <1>1, <3>1, ChainEntry
    <3>4. cur_history \in 0..(ids[Len(ids)] - 1)
      BY <1>1, <3>2, <3>3 DEF Extends
    <3>5. ids[Len(ids)] <= n - Len(ids)
      BY <1>1, <3>1 DEF Walk, n
    <3> QED
      BY <1>3, <3>3, <3>4, <3>5
  <2> QED
    BY <2>1, <2>2
<1>5. ids' \in Seq(Nat) /\ Len(ids') = Len(ids) + 1 /\ ids' # << >>
      /\ ids'[Len(ids) + 1] = cur_history
      /\ \A i \in 1..Len(ids) : ids'[i] = ids[i]
  BY <1>1, <1>4
<1>6. EntryAt(cur_history).parent \in Int
  <2>1. cur_history < n
    BY <1>3, <1>4
  <2>2. Extends(StubAt, EntryAt(cur_history), cur_history)
    BY <1>1, <1>4, <2>1, EntryIsHistory DEF KernelInv, n
  <2> QED
    BY <1>4, <2>2 DEF Extends, NoParent
<1>8. Chain'
  <2> SUFFICES ASSUME NEW i \in 1..Len(ids')
               PROVE  /\ ids'[i] <= n - i
                      /\ i = 1 => ids'[i] = n - 1
                      /\ i < Len(ids') => ids'[i + 1] = EntryAt(ids[i])'.parent
    BY <1>2 DEF Chain, n
  <2>1. CASE i \in 1..Len(ids)
    <3>1. /\ ids[i] <= n - i
          /\ i = 1 => ids[i] = n - 1
          /\ i < Len(ids) => ids[i + 1] = EntryAt(ids[i]).parent
      BY <1>1, <2>1 DEF Walk, n
    <3>2. PICK id : id = ids[i]
      OBVIOUS
    <3>3. EntryAt(ids[i])' = EntryAt(id)
      <4>1. ids'[i] = id
        BY <1>5, <2>1, <3>2
      <4> QED
        BY <4>1, <1>2 DEF EntryAt
    <3>4. CASE i < Len(ids)
      BY <1>3, <1>5, <2>1, <3>1, <3>2, <3>3, <3>4
    <3>5. CASE i = Len(ids)
      <4>1. cur_history = EntryAt(id).parent
        BY <1>1, <1>3, <2>1, <3>2, <3>5 DEF Walk
      <4> QED
        BY <1>3, <1>5, <2>1, <3>1, <3>2, <3>3, <3>5, <4>1
    <3> QED
      BY <1>3, <2>1, <3>4, <3>5
  <2>2. CASE i = Len(ids) + 1
    <3>1. Len(ids) = 0 => cur_history = n - 1
      BY <1>1 DEF Walk, n
    <3> QED
      BY <1>3, <1>4, <1>5, <2>2, <3>1
  <2> QED
    BY <1>3, <1>5, <2>1, <2>2
<1>9. cur_history' = EntryAt(ids[Len(ids)])'.parent
  <2>1. ids'[Len(ids')] = cur_history
    BY <1>5
  <2> QED
    BY <1>1, <1>2, <2>1 DEF EntryAt
<1>10. Storable(StubAt)'
  BY <1>1, <1>2 DEF Storable
<1> QED
  BY <1>1, <1>5, <1>6, <1>8, <1>9, <1>10 DEF Walk, Walked, Chain

(* The walk ends at an entry without a parent, which leaves a source node. *)
LEMMA WalkEndsAtSource ==
  ASSUME KernelInv, Walk, Forward, WalkEnd
  PROVE  /\ ids # << >> /\ Len(ids) \in 1..Len(ids)
         /\ EntryAt(ids[Len(ids)]).parent = NoParent
         /\ Node0[EntryAt(ids[Len(ids)]).pip] \in Sources[NetAt]
         /\ pc' = "forward"
<1> DEFINE n == di[StubAt].count
           last == ids[Len(ids)]
<1>1. /\ pc = "walk" /\ Walked /\ Storable(StubAt)
      /\ cur_history = NoParent \/ ~(Len(ids) < n)
      /\ ids \in Seq(Nat) /\ Len(ids) \in Nat
  BY DEF WalkEnd, Walking, Walk, Walked
<1>2. n \in Nat /\ n # 0
  BY <1>1, WalkedStub DEF KernelInv, Types, Storable
<1>3. ids # << >>
  BY <1>1, <1>2 DEF Walk, NoParent
<1>4. Len(ids) \in 1..Len(ids) /\ last \in Nat
  BY <1>1, <1>3
<1>5. last <= n - Len(ids) /\ cur_history = EntryAt(last).parent
  BY <1>1, <1>3, <1>4 DEF Walk
<1>6. Extends(StubAt, EntryAt(last), last)
  BY <1>1, <1>4, ChainEntry
<1> HIDE DEF n, last
<1>7. EntryAt(last).parent = NoParent
  BY <1>1, <1>2, <1>4, <1>5, <1>6 DEF Extends
<1>8. Node0[EntryAt(last).pip] \in Sources[NetAt]
  BY <1>6, <1>7 DEF Extends, NoParent, NetAt
<1> QED
  BY <1>3, <1>4, <1>7, <1>8 DEF WalkEnd, last

LEMMA WalkNext ==
  ASSUME KernelInv, Walk, Forward, [Next]_vars
  PROVE  Walk'
<1>1. CASE Elsewhere
  <2>1. /\ pc' \notin {"walk", "forward", "throw"}
        /\ cur_history' = NoParent /\ ids' = << >>
    BY <1>1, ElsewhereResets DEF Walked
  <2> QED
    BY <2>1 DEF Walk, Walked, NoParent
<1>2. CASE StoreBegin
  BY <1>2, WalkNextBegin
<1>3. CASE WalkParent
  BY <1>3, WalkNextParent
<1>4. CASE WalkEnd \/ StoreForward
  <2>1. /\ Walked /\ pc' = "forward" /\ ids' = ids /\ cur_history' = cur_history
        /\ ids # << >> /\ EntryAt(ids[Len(ids)]).parent = NoParent
    BY <1>4, WalkEndsAtSource DEF WalkEnd, StoreForward, Walk, Walked
  <2>2. StubAt' = StubAt /\ di' = di /\ is_routed' = is_routed /\ snaps' = snaps
    BY <1>4, WalkKeeps
  <2>3. Storable(StubAt)'
    BY <2>1, <2>2 DEF Storable, Walk
  <2>4. Chain'
    BY <2>1, <2>2 DEF Walk, Chain, EntryAt
  <2>5. EntryAt(ids[Len(ids)])'.parent = NoParent
    BY <2>1, <2>2 DEF EntryAt
  <2> QED
    BY <2>1, <2>3, <2>4, <2>5 DEF Walk, Walked, Chain
<1>5. CASE Done \/ UNCHANGED vars
  <2>1. /\ pc' = pc /\ ids' = ids /\ cur_history' = cur_history
        /\ StubAt' = StubAt /\ di' = di /\ is_routed' = is_routed
        /\ snaps' = snaps
    BY <1>5, WalkKeeps DEF Done
  <2> QED
    BY <2>1 DEF Walk, Walked, Storable, EntryAt
<1> QED
  BY <1>1, <1>2, <1>3, <1>4, <1>5 DEF Next, Store, Elsewhere

LEMMA ForwardNext ==
  ASSUME KernelInv, Walk, Forward, [Next]_vars
  PROVE  Forward'
<1>1. CASE Elsewhere
  BY <1>1, ElsewhereResets DEF Forward, Walked
<1>2. CASE StoreBegin \/ WalkParent
  BY <1>2 DEF StoreBegin, WalkParent, Forward
<1>3. CASE WalkEnd
  <2>1. /\ ri' = Len(ids) /\ ids' = ids /\ seen' = {}
        /\ Len(ids) \in 1..Len(ids) /\ ids \in Seq(Nat)
    BY <1>3, WalkEndsAtSource DEF WalkEnd, Forward, Walk
  <2>2. Passed' = {}
    BY <2>1 DEF Passed
  <2>3. PassedSeen' /\ PassedOnce' /\ PassedFree'
    BY <2>1, <2>2 DEF PassedSeen, PassedOnce, PassedFree
  <2>4. pc' = "forward" /\ ri' \in 1..Len(ids)' /\ ri' \in Nat
    BY <1>3, <2>1, WalkEndsAtSource
  <2> QED
    BY <2>3, <2>4 DEF Forward
<1>4. CASE StoreForward
  <2>1. /\ pc = "forward" /\ ~Refused(PipAt(ri)) /\ ri > 1 /\ ri \in 1..Len(ids)
        /\ seen' = seen \cup {Node1[PipAt(ri)]}
        /\ ri' = ri - 1 /\ ids' = ids /\ ids \in Seq(Nat)
    BY <1>4 DEF StoreForward, Forward, Walk
  <2>2. /\ snaps' = snaps /\ StubAt' = StubAt /\ NetAt' = NetAt /\ owner' = owner
    BY <1>4, WalkKeeps
  <2>3. \A i : PipAt(i)' = PipAt(i)
    BY <2>1, <2>2 DEF PipAt, EntryAt
  <2>4. Passed' = Passed \cup {ri}
    BY <2>1 DEF Passed
  <2>5. ri' \in 1..Len(ids)' /\ ri' \in Nat
    BY <2>1
  <2>6. PassedSeen'
    BY <2>1, <2>3, <2>4 DEF Forward, PassedSeen
  <2>7. PassedOnce'
    BY <2>1, <2>3, <2>4 DEF Forward, PassedSeen, PassedOnce, Refused
  <2>8. PassedFree'
    BY <2>1, <2>2, <2>3, <2>4 DEF Forward, PassedFree, Refused, Foreign
  <2>9. pc' = "forward"
    BY <1>4 DEF StoreForward
  <2> QED
    BY <2>5, <2>6, <2>7, <2>8, <2>9 DEF Forward
<1>5. CASE Done \/ UNCHANGED vars
  <2>1. /\ pc' = pc /\ ids' = ids /\ ri' = ri /\ seen' = seen
        /\ snaps' = snaps /\ StubAt' = StubAt /\ NetAt' = NetAt /\ owner' = owner
    BY <1>5, WalkKeeps DEF Done
  <2>2. \A i : PipAt(i)' = PipAt(i)
    BY <2>1 DEF PipAt, EntryAt
  <2>3. /\ PassedSeen => PassedSeen'
        /\ PassedOnce => PassedOnce'
        /\ PassedFree => PassedFree'
    BY <2>1, <2>2 DEF Passed, PassedSeen, PassedOnce, PassedFree, Foreign
  <2> QED
    BY <2>1, <2>3 DEF Forward
<1> QED
  BY <1>1, <1>2, <1>3, <1>4, <1>5 DEF Next, Store, Elsewhere

LEMMA PipAtType ==
  ASSUME KernelInv, Walk, Walked, NEW i \in 1..Len(ids)
  PROVE  PipAt(i) \in Pips
BY ChainEntry DEF PipAt

LEMMA BehindType ==
  ASSUME KernelInv, Walk, Forward, pc = "forward"
  PROVE  /\ Behind \in Seq(Pips) /\ Len(Behind) = Len(ids) - ri
         /\ Append(Behind, PipAt(ri)) =
              [i \in 1..(Len(ids) - ri + 1) |-> PipAt(Len(ids) + 1 - i)]
         /\ PipAt(ri) \in Pips
<1>1. Walked /\ ri \in 1..Len(ids) /\ ids \in Seq(Nat)
  BY DEF Walked, Forward, Walk
<1>2. Len(ids) - ri \in Nat
  BY <1>1
<1>3. \A i \in 1..(Len(ids) - ri) : PipAt(Len(ids) + 1 - i) \in Pips
  <2> SUFFICES ASSUME NEW i \in 1..(Len(ids) - ri)
               PROVE  PipAt(Len(ids) + 1 - i) \in Pips
    OBVIOUS
  <2>1. Len(ids) + 1 - i \in 1..Len(ids)
    BY <1>1
  <2> QED
    BY <1>1, <2>1, PipAtType
<1>4. Behind \in [1..(Len(ids) - ri) -> Pips]
  BY <1>3 DEF Behind
<1>5. Behind \in Seq(Pips) /\ Len(Behind) = Len(ids) - ri
  BY <1>2, <1>4, SeqDef, LenProperties
<1>6. PipAt(ri) \in Pips
  BY <1>1, PipAtType
<1> DEFINE longer == [i \in 1..(Len(ids) - ri + 1) |-> PipAt(Len(ids) + 1 - i)]
<1>7. Append(Behind, PipAt(ri)) \in Seq(Pips)
      /\ Len(Append(Behind, PipAt(ri))) = Len(ids) - ri + 1
  BY <1>5, <1>6
<1>8. longer \in Seq(Pips) /\ Len(longer) = Len(ids) - ri + 1
  <2>1. longer \in [1..(Len(ids) - ri + 1) -> Pips]
    <3> SUFFICES ASSUME NEW i \in 1..(Len(ids) - ri + 1)
                 PROVE  PipAt(Len(ids) + 1 - i) \in Pips
      OBVIOUS
    <3>1. Len(ids) + 1 - i \in 1..Len(ids)
      BY <1>1
    <3> QED
      BY <1>1, <3>1, PipAtType
  <2>2. Len(ids) - ri + 1 \in Nat
    BY <1>2
  <2> HIDE DEF longer
  <2> QED
    BY <2>1, <2>2, SeqDef, LenProperties
<1>9. ASSUME NEW i \in 1..(Len(ids) - ri + 1)
      PROVE  Append(Behind, PipAt(ri))[i] = longer[i]
  <2>1. CASE i = Len(ids) - ri + 1
    <3>1. Append(Behind, PipAt(ri))[i] = PipAt(ri)
      BY <1>2, <1>5, <1>6, <2>1
    <3>2. Len(ids) + 1 - i = ri
      BY <1>1, <2>1
    <3> QED
      BY <1>9, <3>1, <3>2
  <2>2. CASE i \in 1..(Len(ids) - ri)
    <3>1. Append(Behind, PipAt(ri))[i] = Behind[i]
      BY <1>5, <1>6, <2>2
    <3> QED
      BY <2>2, <3>1 DEF Behind
  <2>3. i = Len(ids) - ri + 1 \/ i \in 1..(Len(ids) - ri)
    <3>1. PICK d \in Nat : d = Len(ids) - ri
      BY <1>2
    <3>2. i \in 1..(d + 1)
      BY <3>1
    <3> QED
      BY <3>1, <3>2
  <2> QED
    BY <2>1, <2>2, <2>3
<1>10. Append(Behind, PipAt(ri)) = longer
  <2> HIDE DEF longer
  <2> QED
    BY <1>7, <1>8, <1>9, SeqEqual
<1> QED
  BY <1>5, <1>6, <1>10

(* The route that is stored: a path of the device from a source to a stub. *)
LEMMA WalkedPathIsRoute ==
  ASSUME KernelInv, Walk, Forward, StoreRoute
  PROVE  /\ WalkedPath \in Seq(Pips)
         /\ Routing!IsRoute(NetAt, WalkedPath)
         /\ NodesOf(WalkedPath) = WalkedNodes
         /\ WalkedPath = Append(Behind, PipAt(ri))
         /\ \A x \in WalkedNodes : x \in Nodes /\ owner[x] \in {None, NetAt}
<1> DEFINE L == Len(ids)
<1>1. /\ pc = "forward" /\ Walked /\ ri = 1 /\ L \in Nat /\ L >= 1
      /\ ids \in Seq(Nat) /\ ~Refused(PipAt(1)) /\ ri \in 1..L
  BY DEF StoreRoute, Walked, Forward, Walk
<1>2. /\ WalkedPath = Append(Behind, PipAt(ri))
      /\ WalkedPath \in Seq(Pips) /\ Len(WalkedPath) = L
  <2>1. L - ri + 1 = L
    BY <1>1
  <2>2. WalkedPath = Append(Behind, PipAt(ri))
    BY <1>1, <2>1, BehindType DEF WalkedPath
  <2>3. Len(Append(Behind, PipAt(ri))) = Len(Behind) + 1
        /\ Append(Behind, PipAt(ri)) \in Seq(Pips)
    BY <1>1, BehindType
  <2> QED
    BY <1>1, <2>1, <2>2, <2>3, BehindType
<1>3. \A i \in 1..L : WalkedPath[i] = PipAt(L + 1 - i)
  BY DEF WalkedPath
<1>4. DOMAIN WalkedPath = 1..L
  BY DEF WalkedPath
<1>5. \A i \in 1..L : /\ L + 1 - i \in 1..L
                      /\ L + 1 - (L + 1 - i) = i
                      /\ WalkedPath[L + 1 - i] = PipAt(i)
  BY <1>1, <1>3
<1>6. NodesOf(WalkedPath) = WalkedNodes
  <2>1. {Node0[WalkedPath[i]] : i \in 1..L} = {Node0[PipAt(i)] : i \in 1..L}
    BY <1>3, <1>5
  <2>2. {Node1[WalkedPath[i]] : i \in 1..L} = {Node1[PipAt(i)] : i \in 1..L}
    BY <1>3, <1>5
  <2> QED
    BY <1>4, <2>1, <2>2 DEF NodesOf, WalkedNodes
<1>7. \A i \in 1..L : ~Foreign(Node0[PipAt(i)]) /\ ~Foreign(Node1[PipAt(i)])
  <2>1. \A i \in 2..L : ~Foreign(Node0[PipAt(i)]) /\ ~Foreign(Node1[PipAt(i)])
    BY <1>1 DEF Forward, PassedFree, Passed
  <2>2. ~Foreign(Node0[PipAt(1)]) /\ ~Foreign(Node1[PipAt(1)])
    BY <1>1 DEF Refused
  <2> QED
    BY <1>1, <2>1, <2>2
<1>8. \A i \in 1..L : PipAt(i) \in Pips
  BY <1>1, PipAtType
<1>9. \A x \in WalkedNodes : x \in Nodes /\ owner[x] \in {None, NetAt}
  BY <1>7, <1>8, DeviceAssumption DEF WalkedNodes, Foreign
<1>10. \A i, j \in 1..L : Node1[PipAt(i)] = Node1[PipAt(j)] => i = j
  <2>1. /\ PassedSeen /\ PassedOnce /\ Passed = 2..L
        /\ Node1[PipAt(1)] \notin seen
    BY <1>1 DEF Forward, Refused, Passed
  <2>2. \A i \in 2..L : Node1[PipAt(i)] # Node1[PipAt(1)]
    BY <2>1 DEF PassedSeen
  <2>3. \A i, j \in 2..L : Node1[PipAt(i)] = Node1[PipAt(j)] => i = j
    BY <2>1 DEF PassedOnce
  <2>4. \A i \in 1..L : i = 1 \/ i \in 2..L
    BY <1>1
  <2> QED
    BY <2>2, <2>3, <2>4
<1>11. \A i \in 1..(L - 1) : Node1[PipAt(i + 1)] = Node0[PipAt(i)]
  <2> SUFFICES ASSUME NEW i \in 1..(L - 1)
               PROVE  Node1[PipAt(i + 1)] = Node0[PipAt(i)]
    OBVIOUS
  <2>1. i \in 1..L /\ i + 1 \in 1..L /\ i < L
    BY <1>1
  <2>2. ids[i + 1] = EntryAt(ids[i]).parent
    BY <1>1, <2>1 DEF Walk
  <2>3. Extends(StubAt, EntryAt(ids[i]), ids[i])
    BY <1>1, <2>1, ChainEntry
  <2>4. ids[i + 1] \in Nat /\ EntryAt(ids[i + 1]) = HistoryAt(StubAt, ids[i + 1])
    BY <1>1, <2>1, ChainEntry
  <2>5. Node0[EntryAt(ids[i]).pip] = Node1[HistoryAt(StubAt, ids[i + 1]).pip]
    BY <2>2, <2>3, <2>4 DEF Extends, NoParent
  <2> QED
    BY <2>4, <2>5 DEF PipAt
<1>12. Node0[PipAt(L)] \in Sources[NetAt]
  <2>1. L \in 1..L /\ EntryAt(ids[L]).parent = NoParent
    BY <1>1 DEF Walk
  <2>2. Extends(StubAt, EntryAt(ids[L]), ids[L]) /\ ids[L] \in Nat
    BY <1>1, <2>1, ChainEntry
  <2> QED
    BY <2>1, <2>2 DEF Extends, NoParent, NetAt, PipAt
<1>13. Node1[PipAt(1)] = StubNode[StubAt]
  <2>1. 1 \in 1..L /\ Storable(StubAt) /\ ids[1] = di[StubAt].count - 1
    BY <1>1 DEF Walk
  <2>2. EntryAt(ids[1]) = HistoryAt(StubAt, ids[1])
    BY <1>1, <2>1, ChainEntry
  <2>3. StubAt \in Stubs
    BY <1>1, WalkedStub DEF KernelInv
  <2> QED
    BY <2>1, <2>2, <2>3 DEF Storable, KernelInv, Found, PipAt
<1>14. Routing!IsPath(WalkedPath)
  <2>1. WalkedPath # << >>
    <3>1. 1 \in DOMAIN WalkedPath
      BY <1>1, <1>4
    <3> QED
      BY <3>1
  <2>2. ASSUME NEW i \in 1..(L - 1)
        PROVE  Node1[WalkedPath[i]] = Node0[WalkedPath[i + 1]]
    <3>1. i \in 1..L /\ i + 1 \in 1..L /\ L - i \in 1..(L - 1)
          /\ L + 1 - i = (L - i) + 1 /\ L + 1 - (i + 1) = L - i
      BY <1>1
    <3> QED
      BY <1>3, <1>11, <3>1
  <2>3. ASSUME NEW i \in 1..L, NEW j \in 1..L,
               Node1[WalkedPath[i]] = Node1[WalkedPath[j]]
        PROVE  i = j
    <3>1. L + 1 - i \in 1..L /\ L + 1 - j \in 1..L
      BY <1>5
    <3>2. L + 1 - i = L + 1 - j
      BY <1>3, <1>10, <2>3, <3>1
    <3> QED
      BY <1>1, <3>2
  <2> QED
    BY <1>2, <1>4, <2>1, <2>2, <2>3 DEF Routing!IsPath
<1>15. Routing!IsRoute(NetAt, WalkedPath)
  <2>1. WalkedPath[1] = PipAt(L) /\ WalkedPath[L] = PipAt(1)
    BY <1>1, <1>3
  <2>2. StubAt \in Stubs /\ NetOf[StubAt] = NetAt
    BY <1>1, WalkedStub DEF KernelInv, NetAt
  <2> QED
    BY <1>2, <1>12, <1>13, <1>14, <2>1, <2>2 DEF Routing!IsRoute
<1> QED
  BY <1>2, <1>6, <1>9, <1>15

LEMMA WrittenInit == Init => Written /\ Committed /\ ClaimsOwned
<1> SUFFICES ASSUME Init PROVE Written /\ Committed /\ ClaimsOwned
  OBVIOUS
<1>1. << >> \in Seq(Pips) /\ DOMAIN << >> = {}
  OBVIOUS
<1>2. claimed = [n \in Nets |-> << >>] /\ pc = "restart"
      /\ is_routed = [n \in Nets |-> FALSE] /\ out = [n \in Nets |-> Blank]
  BY DEF Init
<1>3. Written
  BY <1>1, <1>2 DEF Written, Blank
<1>4. Committed
  BY <1>1, <1>2 DEF Committed
<1>5. ClaimsOwned
  BY <1>1, <1>2 DEF ClaimsOwned, NodesOf
<1> QED
  BY <1>3, <1>4, <1>5

(* Every net but the one that is stored keeps what is written for it. *)
LEMMA OutNext ==
  ASSUME KernelInv, Walk, Written, [Next]_vars
  PROVE  \/ out' = out
         \/ WriteUnroutedNets
         \/ /\ NetAt \in Nets /\ ~is_routed[NetAt]
            /\ StoreBegin \/ StoreRefuse \/ StoreForward \/ StoreRoute
            /\ \A n \in Nets \ {NetAt} : out'[n] = out[n]
<1>1. CASE StoreBegin
  BY <1>1, StubAtType DEF StoreBegin, Storable, NetAt, KernelInv, Written
<1>2. CASE StoreRefuse \/ StoreForward \/ StoreRoute
  <2>1. Walked
    BY <1>2 DEF StoreRefuse, StoreForward, StoreRoute, Walked
  <2>2. NetAt \in Nets /\ ~is_routed[NetAt]
    BY <2>1, WalkedStub DEF KernelInv, Walk, Storable, NetAt
  <2> QED
    BY <1>2, <2>2 DEF StoreRefuse, StoreForward, StoreRoute, Written
<1>3. CASE ~(StoreBegin \/ StoreRefuse \/ StoreForward \/ StoreRoute)
  BY <1>3 DEF Next, Host, Kernel, Store, Done, StartRestart, StepAll, ReadBack,
    EndSeries, EndRestart, KernelSkip, KernelStart, KernelDeadEnd,
    KernelSuccess, KernelPop, KernelPassPip, KernelAddPip, KernelStuck,
    KernelContinue, KernelSuspend, ExpandedAll, StoreSkip, WalkParent, WalkEnd
<1> QED
  BY <1>1, <1>2, <1>3

OutSet == [kind : {"blank", "input", "built"}, path : Seq(Pips), stub : BOOLEAN]

LEMMA WrittenNext ==
  ASSUME KernelInv, Walk, Forward, Written, [Next]_vars
  PROVE  Written'
<1>a. out \in [Nets -> OutSet]
  BY DEF Written, OutSet
<1>b. pc = "forward" => Behind \in Seq(Pips) /\ PipAt(ri) \in Pips
  BY BehindType
<1>c. pc = "forward" => AddBranch(PipAt(ri)) \in OutSet
  <2> SUFFICES ASSUME pc = "forward" PROVE AddBranch(PipAt(ri)) \in OutSet
    OBVIOUS
  <2>1. NetAt \in Nets
    BY WalkedStub DEF Walked, KernelInv
  <2>2. out[NetAt] \in OutSet /\ out[NetAt].path \in Seq(Pips)
    BY <1>a, <2>1 DEF OutSet
  <2>3. Append(out[NetAt].path, PipAt(ri)) \in Seq(Pips)
    BY <1>b, <2>2
  <2> QED
    BY <2>2, <2>3 DEF AddBranch, OutSet
<1>1. out' \in [Nets -> OutSet]
  <2>1. CASE WriteUnroutedNets
    BY <1>a, <2>1 DEF WriteUnroutedNets, Input, OutSet
  <2>2. CASE StoreBegin
    <3>1. [Blank EXCEPT !.kind = "built"] \in OutSet
      <4>1. << >> \in Seq(Pips)
        OBVIOUS
      <4>2. Blank \in OutSet
        BY <4>1 DEF Blank, OutSet
      <4> QED
        BY <4>2 DEF OutSet
    <3> QED
      BY <1>a, <2>2, <3>1 DEF StoreBegin
  <2>3. CASE StoreRefuse \/ StoreForward
    BY <1>a, <1>c, <2>3 DEF StoreRefuse, StoreForward
  <2>4. CASE StoreRoute
    <3>1. AddBranch(PipAt(1)) \in OutSet
      BY <1>c, <2>4 DEF StoreRoute
    <3>2. [AddBranch(PipAt(1)) EXCEPT !.stub = ~IsMulti(NetAt)] \in OutSet
      BY <3>1 DEF OutSet, IsMulti
    <3> QED
      BY <1>a, <2>4, <3>2 DEF StoreRoute
  <2> QED
    BY <1>a, <2>1, <2>2, <2>3, <2>4, OutNext
<1>2. CASE Elsewhere
  <2>1. ~Walked'
    BY <1>2, ElsewhereResets
  <2> QED
    BY <1>1, <2>1 DEF Written, Walked, OutSet
<1>3. CASE StoreBegin
  <2>1. NetAt' = NetAt /\ NetAt \in Nets /\ pc' = "walk"
    BY <1>3, StubAtType DEF StoreBegin, NetAt, StubAt, KernelInv
  <2>2. out'[NetAt].path = << >>
    BY <1>3, <1>a, <2>1 DEF StoreBegin, Blank
  <2> QED
    BY <1>1, <2>1, <2>2 DEF Written, OutSet, IsMulti
<1>4. CASE WalkParent
  BY <1>1, <1>4, WalkKeeps DEF WalkParent, Written, OutSet, IsMulti
<1>5. CASE WalkEnd
  <2>1. /\ pc = "walk" /\ pc' = "forward" /\ out' = out /\ NetAt' = NetAt
        /\ ri' = Len(ids) /\ ids' = ids /\ Len(ids) \in Nat
    BY <1>5, WalkEndsAtSource, WalkKeeps DEF WalkEnd, Walk
  <2>2. Behind' = << >>
    BY <2>1 DEF Behind
  <2> QED
    BY <1>1, <2>1, <2>2 DEF Written, OutSet, IsMulti
<1>6. CASE StoreForward
  <2>1. /\ pc = "forward" /\ pc' = "forward" /\ NetAt' = NetAt /\ NetAt \in Nets
        /\ ri' = ri - 1 /\ ids' = ids /\ ri \in 1..Len(ids) /\ Len(ids) \in Nat
        /\ out' = [out EXCEPT ![NetAt] = AddBranch(PipAt(ri))]
    BY <1>6, WalkKeeps, WalkedStub DEF StoreForward, Forward, Walk, Walked, KernelInv
  <2>2. \A i : PipAt(i)' = PipAt(i)
    BY <1>6, <2>1, WalkKeeps DEF PipAt, EntryAt
  <2>3. Behind' = Append(Behind, PipAt(ri))
    <3>1. Len(ids)' - ri' = Len(ids) - ri + 1
      BY <2>1
    <3> QED
      BY <2>1, <2>2, <3>1, BehindType DEF Behind
  <2>4. ~IsMulti(NetAt) => out'[NetAt].path = Behind'
    BY <1>a, <2>1, <2>3 DEF AddBranch, Written, OutSet
  <2> QED
    BY <1>1, <2>1, <2>4 DEF Written, OutSet, IsMulti
<1>7. CASE Done \/ UNCHANGED vars
  <2>1. out' = out /\ pc' = pc /\ NetAt' = NetAt /\ Behind' = Behind
    BY <1>7 DEF Done, NetAt, StubAt, Behind, PipAt, EntryAt
  <2> QED
    BY <1>1, <2>1 DEF Written, OutSet, IsMulti
<1> QED
  BY <1>2, <1>3, <1>4, <1>5, <1>6, <1>7 DEF Next, Store, Elsewhere

(* Only a stored route changes an owner, a routed net or a claim. *)
LEMMA OnlyStoreRoute ==
  ASSUME [Next]_vars
  PROVE  \/ StoreRoute
         \/ owner' = owner /\ is_routed' = is_routed /\ claimed' = claimed
BY DEF Next, Host, Kernel, Store, Done, StartRestart, StepAll, ReadBack,
  EndSeries, EndRestart, WriteUnroutedNets, KernelSkip, KernelStart,
  KernelDeadEnd, KernelSuccess, KernelPop, KernelPassPip, KernelAddPip,
  KernelStuck, KernelContinue, KernelSuspend, ExpandedAll, StoreSkip,
  StoreBegin, WalkParent, WalkEnd, StoreRefuse, StoreForward

(* The net a route is stored for has none yet. *)
LEMMA StoredNet ==
  ASSUME KernelInv, Walk, StoreRoute
  PROVE  NetAt \in Nets /\ ~is_routed[NetAt]
<1>1. Walked
  BY DEF StoreRoute, Walked
<1> QED
  BY <1>1, WalkedStub DEF KernelInv, Walk, Storable, NetAt

LEMMA CommittedNext ==
  ASSUME KernelInv, StoreInv, [Next]_vars
  PROVE  Committed'
<1> USE DEF StoreInv
<1>1. is_routed \in [Nets -> BOOLEAN]
  BY DEF KernelInv, Types
<1>2. CASE StoreRoute
  <2>1. /\ NetAt \in Nets /\ ~is_routed[NetAt] /\ pc = "forward"
        /\ pc' = "store"
        /\ claimed' = [claimed EXCEPT ![NetAt] = WalkedPath]
        /\ is_routed' = [is_routed EXCEPT ![NetAt] = TRUE]
        /\ out' = [out EXCEPT ![NetAt] =
                      [AddBranch(PipAt(1)) EXCEPT !.stub = ~IsMulti(NetAt)]]
    BY <1>2, StoredNet DEF StoreRoute, NextCommand
  <2>2. WalkedPath \in Seq(Pips) /\ Routing!IsRoute(NetAt, WalkedPath)
    BY <1>2, WalkedPathIsRoute
  <2>3. claimed' \in [Nets -> Seq(Pips)]
    BY <2>1, <2>2 DEF Committed
  <2>4. ~IsMulti(NetAt) => out'[NetAt].stub /\ out'[NetAt].path = WalkedPath
    <3> SUFFICES ASSUME ~IsMulti(NetAt)
                 PROVE  out'[NetAt].stub /\ out'[NetAt].path = WalkedPath
      OBVIOUS
    <3>1. out[NetAt] \in OutSet /\ out[NetAt].path = Behind
      BY <2>1 DEF Written, OutSet
    <3>2. ri = 1 /\ WalkedPath = Append(Behind, PipAt(1))
      BY <1>2, WalkedPathIsRoute DEF StoreRoute
    <3>3. out'[NetAt] = [AddBranch(PipAt(1)) EXCEPT !.stub = TRUE]
      BY <2>1 DEF Written
    <3>4. AddBranch(PipAt(1)) = [out[NetAt] EXCEPT !.path = WalkedPath]
      BY <3>1, <3>2 DEF AddBranch, OutSet
    <3> QED
      BY <3>1, <3>3, <3>4 DEF OutSet
  <2>5. ASSUME NEW n \in Nets, n # NetAt
        PROVE  /\ claimed'[n] = claimed[n]
               /\ is_routed'[n] = is_routed[n]
               /\ out'[n] = out[n]
    BY <1>1, <2>1, <2>5 DEF Committed, Written
  <2>6. is_routed'[NetAt] /\ claimed'[NetAt] = WalkedPath
    BY <1>1, <2>1, <2>2 DEF Committed
  <2> QED
    BY <2>1, <2>2, <2>3, <2>4, <2>5, <2>6 DEF Committed, IsMulti
<1>3. CASE ~StoreRoute
  <2>1. is_routed' = is_routed /\ claimed' = claimed
    BY <1>3, OnlyStoreRoute
  <2>2. CASE WriteUnroutedNets
    <3>1. \A n \in Nets : IF IsMulti(n) \/ ~is_routed[n]
                           THEN out'[n] = Input ELSE out'[n] = out[n]
      BY <2>2 DEF WriteUnroutedNets
    <3> QED
      BY <2>1, <3>1 DEF Committed, IsMulti
  <2>3. CASE ~WriteUnroutedNets
    <3>1. \A n \in Nets : is_routed[n] => out'[n] = out[n]
      BY <1>3, <2>3, OutNext
    <3>2. pc' = "done" => pc = "done" /\ out' = out
      BY <2>3 DEF Next, Host, Kernel, Store, Done, StartRestart, StepAll,
        ReadBack, EndSeries, EndRestart, KernelSkip, KernelStart,
        KernelDeadEnd, KernelSuccess, KernelPop, KernelPassPip, KernelAddPip,
        KernelStuck, KernelContinue, KernelSuspend, ExpandedAll, StoreSkip,
        StoreBegin, WalkParent, WalkEnd, StoreRefuse, StoreForward,
        StoreRoute, NextCommand
    <3> QED
      BY <2>1, <3>1, <3>2 DEF Committed, IsMulti
  <2> QED
    BY <2>2, <2>3
<1> QED
  BY <1>2, <1>3

LEMMA ClaimsOwnedNext ==
  ASSUME KernelInv, StoreInv, [Next]_vars
  PROVE  ClaimsOwned'
<1> USE DEF StoreInv
<1>1. CASE StoreRoute
  <2>1. /\ NetAt \in Nets /\ ~is_routed[NetAt]
        /\ claimed' = [claimed EXCEPT ![NetAt] = WalkedPath]
        /\ owner' = [x \in Nodes |->
                       IF x \in WalkedNodes THEN NetAt ELSE owner[x]]
    BY <1>1, StoredNet DEF StoreRoute
  <2>2. /\ NodesOf(WalkedPath) = WalkedNodes
        /\ \A x \in WalkedNodes : x \in Nodes /\ owner[x] \in {None, NetAt}
    BY <1>1, WalkedPathIsRoute
  <2>3. claimed'[NetAt] = WalkedPath
    BY <2>1 DEF Committed
  <2>4. ASSUME NEW x \in NodesOf(claimed'[NetAt]) PROVE owner'[x] = NetAt
    BY <2>1, <2>2, <2>3
  <2>5. ASSUME NEW n \in Nets, n # NetAt, NEW x \in NodesOf(claimed'[n])
        PROVE  owner'[x] = n
    <3>1. claimed'[n] = claimed[n] /\ claimed[n] \in Seq(Pips)
      BY <2>1, <2>5 DEF Committed
    <3>2. owner[x] = n
      BY <3>1, <2>5 DEF ClaimsOwned
    <3>3. x \in Nodes
      BY <3>1, DeviceAssumption DEF NodesOf
    <3>4. x \notin WalkedNodes
      BY <2>2, <2>5, <3>2, NoneAssumption
    <3> QED
      BY <2>1, <3>2, <3>3, <3>4
  <2> QED
    BY <2>4, <2>5 DEF ClaimsOwned, NodesOf
<1>2. CASE ~StoreRoute
  BY <1>2, OnlyStoreRoute DEF ClaimsOwned, NodesOf
<1> QED
  BY <1>1, <1>2

LEMMA StoreInvNext == KernelInv /\ StoreInv /\ [Next]_vars => StoreInv'
BY WalkNext, ForwardNext, WrittenNext, CommittedNext, ClaimsOwnedNext
   DEF StoreInv

(* The host stores only whole routes, of nodes that are free or of the     *)
(* net, whatever the kernel found and however old the owners it read were. *)
THEOREM StoreInvariant == Spec => []StoreInv
<1>1. Init => StoreInv
  BY WalkInit, WrittenInit DEF StoreInv
<1>2. KernelInv /\ StoreInv /\ [Next]_vars => StoreInv'
  BY StoreInvNext
<1> QED
  BY <1>1, <1>2, KernelInvariant, PTL DEF Spec

-----------------------------------------------------------------------------
(* The properties of the runs. *)

(* A count never runs past the histories read back. *)
LEMMA CountBound ==
  ASSUME KernelInv, NEW s \in Stubs
  PROVE  di[s].count \in 0..(SeriesMax * CounterMax)
<1>1. /\ di[s].count \in Nat /\ series \in 0..SeriesMax
      /\ di[s].count <= CounterMax * Rounds(s)
  BY DEF KernelInv, Types, Counts
<1>2. Rounds(s) \in 0..SeriesMax
  BY <1>1, SearchAssumption DEF KernelInv, Phase, Rounds, Storing
<1>3. CounterMax * Rounds(s) <= SeriesMax * CounterMax
  <2>1. PICK d \in Nat : SeriesMax = Rounds(s) + d
    <3>1. SeriesMax - Rounds(s) \in Nat /\ SeriesMax \in Nat /\ Rounds(s) \in Nat
      BY <1>2, SearchAssumption
    <3>2. SeriesMax = Rounds(s) + (SeriesMax - Rounds(s))
      BY <3>1
    <3> QED
      BY <3>1, <3>2
  <2>2. PICK r \in Nat : r = Rounds(s)
    BY <1>2
  <2>3. (r + d) * CounterMax = CounterMax * r + CounterMax * d
        /\ CounterMax * d \in Nat /\ CounterMax * r \in Nat
    BY <2>1, <2>2, SearchAssumption
  <2> QED
    BY <2>1, <2>2, <2>3
<1>4. SeriesMax * CounterMax \in Nat /\ CounterMax * Rounds(s) \in Nat
  BY <1>2, SearchAssumption
<1> QED
  BY <1>1, <1>3, <1>4

(* Every variable has its type: in particular a count never passes the     *)
(* histories of the series run so far (baseInstance and count of a draw    *)
(* command, src/kernels/node_router.cl). *)
THEOREM TypeCorrect == Spec => []TypeOK
<1>1. KernelInv /\ StoreInv => TypeOK
  <2> SUFFICES ASSUME KernelInv, StoreInv PROVE TypeOK
    OBVIOUS
  <2>1. di \in [Stubs -> [count : 0..(SeriesMax * CounterMax), state : 0..2]]
    BY CountBound DEF KernelInv, Types
  <2>2. di_index \in 1..(Len(order) + 1)
    BY OrderLength DEF KernelInv, Types
  <2>3. seen \in SUBSET Nodes
    <3>1. CASE pc = "forward"
      <4>1. Walked /\ Passed \subseteq 1..Len(ids) /\ PassedSeen
        BY <3>1 DEF StoreInv, Walk, Forward, Walked, Passed
      <4> QED
        BY <4>1, PipAtType, DeviceAssumption DEF PassedSeen, StoreInv
    <3>2. CASE pc # "forward"
      BY <3>2 DEF StoreInv, Forward
    <3> QED
      BY <3>1, <3>2
  <2>4. /\ ids \in Seq(Nat) /\ cur_history \in Int /\ ri \in Nat
        /\ claimed \in [Nets -> Seq(Pips)]
        /\ out \in [Nets -> [kind : {"blank", "input", "built"},
                             path : Seq(Pips), stub : BOOLEAN]]
    BY DEF StoreInv, Walk, Forward, Written, Committed
  <2> QED
    BY <2>1, <2>2, <2>3, <2>4 DEF KernelInv, Types, TypeOK
<1> QED
  BY <1>1, KernelInvariant, StoreInvariant, PTL

(* No two stored routes share a node, although the stubs of a series all   *)
(* search with the owners of its start: store_possibly_routed_nets looks   *)
(* at the owners again before it takes a route. *)
THEOREM DisjointRoutes == Spec => []RoutesDisjoint
<1>1. StoreInv => RoutesDisjoint
  BY DEF StoreInv, ClaimsOwned, RoutesDisjoint
<1> QED
  BY <1>1, StoreInvariant, PTL

(* at() never throws: the walk from a success ends at a pip that leaves a  *)
(* source node of the net. *)
THEOREM LookupSucceeds == Spec => []NoThrow
<1>1. StoreInv => NoThrow
  BY DEF StoreInv, Walk, NoThrow
<1> QED
  BY <1>1, StoreInvariant, PTL

(* Every net is written as it was read, or with one whole route from one   *)
(* of its sources to its stub. *)
THEOREM WrittenWhole == Spec => []OutputWhole
<1>1. StoreInv => OutputWhole
  BY DEF StoreInv, Committed, OutputWhole
<1> QED
  BY <1>1, StoreInvariant, PTL

(* A node that belongs to a net is never taken from it. *)
THEOREM OwnersStay == Spec => OwnersKept
<1> DEFINE Kept == \A x \in Nodes : owner[x] # None => owner'[x] = owner[x]
<1>1. KernelInv /\ StoreInv /\ [Next]_vars => [Kept]_vars
  <2> SUFFICES ASSUME KernelInv, StoreInv, [Next]_vars PROVE Kept
    OBVIOUS
  <2>1. CASE StoreRoute
    <3>1. owner' = [x \in Nodes |->
                     IF x \in WalkedNodes THEN NetAt ELSE owner[x]]
          /\ \A x \in WalkedNodes : owner[x] \in {None, NetAt}
      BY <2>1, WalkedPathIsRoute DEF StoreRoute, StoreInv
    <3> QED
      BY <3>1
  <2> QED
    BY <2>1, OnlyStoreRoute
<1> QED
  BY <1>1, KernelInvariant, StoreInvariant, PTL DEF Spec, OwnersKept

(* A routed net keeps its route, and what is written for it, through every *)
(* later series, restart and the final write. *)
THEOREM RoutesStay == Spec => RoutesKept
<1> DEFINE Kept == \A n \in Nets : is_routed[n] =>
                     /\ is_routed'[n]
                     /\ claimed'[n] = claimed[n]
                     /\ ~IsMulti(n) => out'[n] = out[n]
<1>1. KernelInv /\ StoreInv /\ [Next]_vars => [Kept]_vars
  <2> SUFFICES ASSUME KernelInv, StoreInv, [Next]_vars,
                      NEW n \in Nets, is_routed[n]
               PROVE  /\ is_routed'[n]
                      /\ claimed'[n] = claimed[n]
                      /\ ~IsMulti(n) => out'[n] = out[n]
    OBVIOUS
  <2>1. ~IsMulti(n) => out'[n] = out[n]
    <3>1. CASE WriteUnroutedNets
      BY <3>1 DEF WriteUnroutedNets
    <3>2. CASE ~WriteUnroutedNets
      BY <3>2, OutNext DEF StoreInv
    <3> QED
      BY <3>1, <3>2
  <2>2. is_routed'[n] /\ claimed'[n] = claimed[n]
    <3>1. CASE StoreRoute
      <4>1. ~is_routed[NetAt] /\ is_routed' = [is_routed EXCEPT ![NetAt] = TRUE]
            /\ claimed' = [claimed EXCEPT ![NetAt] = WalkedPath]
        BY <3>1, StoredNet DEF StoreRoute, StoreInv
      <4> QED
        BY <4>1 DEF StoreInv, Committed, KernelInv, Types
    <3>2. CASE ~StoreRoute
      BY <3>2, OnlyStoreRoute
    <3> QED
      BY <3>1, <3>2
  <2> QED
    BY <2>1, <2>2
<1> QED
  BY <1>1, KernelInvariant, StoreInvariant, PTL DEF Spec, RoutesKept

(* The router implements NetRouting: seen from outside, a route is taken   *)
(* in one step, all its nodes at once, and nothing else ever changes. *)
THEOREM ImplementsNetRouting == Spec => RoutingSpec
<1>1. Init => Routing!Init
  <2> SUFFICES ASSUME Init PROVE Routing!Init
    OBVIOUS
  <2>1. owner \in [Nodes -> Nets \cup {None}]
    BY NetlistAssumption DEF Init
  <2> QED
    BY <2>1 DEF Init, Routing!Init
<1>2. KernelInv /\ StoreInv /\ [Next]_vars => [Routing!Next]_(Routing!vars)
  <2> SUFFICES ASSUME KernelInv, StoreInv, [Next]_vars
               PROVE  Routing!Next \/ UNCHANGED Routing!vars
    OBVIOUS
  <2>1. CASE StoreRoute
    <3>1. /\ NetAt \in Nets /\ ~is_routed[NetAt]
          /\ claimed' = [claimed EXCEPT ![NetAt] = WalkedPath]
          /\ is_routed' = [is_routed EXCEPT ![NetAt] = TRUE]
          /\ owner' = [x \in Nodes |->
                         IF x \in WalkedNodes THEN NetAt ELSE owner[x]]
      BY <2>1, StoredNet DEF StoreRoute, StoreInv
    <3>2. /\ Routing!IsRoute(NetAt, WalkedPath)
          /\ NodesOf(WalkedPath) = WalkedNodes
          /\ \A x \in WalkedNodes : owner[x] \in {None, NetAt}
      BY <2>1, WalkedPathIsRoute DEF StoreInv
    <3>3. DOMAIN claimed = Nets
      BY DEF StoreInv, Committed
    <3>4. claimed'[NetAt] = WalkedPath /\ DOMAIN claimed' = Nets
          /\ \A m \in Nets \ {NetAt} : claimed'[m] = claimed[m]
      BY <3>1, <3>3
    <3>5. Routing!NodesOf(WalkedPath) = WalkedNodes
      BY <3>2 DEF Routing!NodesOf, NodesOf
    <3>6. Routing!Take(NetAt)
      BY <3>1, <3>2, <3>4, <3>5 DEF Routing!Take
    <3> QED
      BY <3>1, <3>6 DEF Routing!Next
  <2>2. CASE ~StoreRoute
    BY <2>2, OnlyStoreRoute DEF Routing!vars
  <2> QED
    BY <2>1, <2>2
<1> QED
  BY <1>1, <1>2, KernelInvariant, StoreInvariant, PTL
     DEF Spec, RoutingSpec, Routing!Spec

-----------------------------------------------------------------------------
(* What is given up: a search that lost no head ends in a dead end only when no     *)
(* route is left, and a route that was found is not taken only when it could not be. *)

USE DEF Sought

-----------------------------------------------------------------------------
(* What the recursive definitions of Reachable and Ancestors compute. *)

(* Iterating a function from a start: the recursive definition has a value. *)
Iterates(run, start, step, last) ==
  run[0] = start /\ \A k \in 1..last : run[k] = step[run[k - 1]]

LEMMA IterateExists ==
  ASSUME NEW S, NEW step, \A x \in S : step[x] \in S, NEW start \in S,
         NEW last \in Nat
  PROVE  \E run \in [0..last -> S] : Iterates(run, start, step, last)
<1> USE DEF Iterates
<1> DEFINE Good(n, run) ==
             /\ run \in [0..n -> S]
             /\ Iterates(run, start, step, n)
           Bad == {n \in Nat : ~\E run : Good(n, run)}
<1>1. SUFFICES Bad = {}
  <2>1. last \notin Bad
    BY <1>1
  <2> QED
    BY <2>1
<1>2. SUFFICES ASSUME Bad # {} PROVE FALSE
  OBVIOUS
<1>3. PICK n \in Bad : \A m \in Bad : n <= m
  BY <1>2, LeastNat
<1>4. CASE n = 0
  <2>1. Good(0, [k \in 0..0 |-> start])
    OBVIOUS
  <2> QED
    BY <1>4, <2>1
<1>5. CASE n # 0
  <2>1. n - 1 \in Nat /\ n - 1 \notin Bad
    <3> HIDE DEF Good
    <3> QED
      BY <1>3, <1>5
  <2>2. PICK run : Good(n - 1, run)
    BY <2>1
  <2> DEFINE next == [k \in 0..n |-> IF k = n THEN step[run[n - 1]] ELSE run[k]]
  <2>3. next \in [0..n -> S]
    BY <2>1, <2>2
  <2>4. ASSUME NEW k \in 0..n
        PROVE  next[k] = IF k = 0 THEN start ELSE step[next[k - 1]]
    <3>1. CASE k = n
      BY <3>1, <1>5, <2>1
    <3>2. CASE k # n
      <4>1. k \in 0..(n - 1)
        BY <3>2, <2>1
      <4>2. run[k] = IF k = 0 THEN start ELSE step[run[k - 1]]
        BY <4>1, <2>2
      <4>3. CASE k = 0
        BY <4>3, <4>2, <3>2
      <4>4. CASE k # 0
        <5>1. next[k] = run[k] /\ next[k - 1] = run[k - 1]
          BY <4>1, <4>4, <3>2
        <5> QED
          BY <5>1, <4>2, <4>4
      <4> QED
        BY <4>3, <4>4
    <3> QED
      BY <3>1, <3>2
  <2> HIDE DEF next
  <2>5. Good(n, next)
    <3>1. next[0] = start
      BY <2>4
    <3>2. ASSUME NEW k \in 1..n PROVE next[k] = step[next[k - 1]]
      BY <2>4
    <3> QED
      BY <2>3, <3>1, <3>2
  <2> QED
    BY <2>5
<1> QED
  BY <1>4, <1>5

(* C holds the sources of the net of s, and the nodes that free pips lead  *)
(* to from its nodes. *)
Encloses(s, C) ==
  /\ Sources[NetOf[s]] \subseteq C
  /\ \A p \in Pips : Node0[p] \in C /\ ~Blocked(s, Node1[p]) => Node1[p] \in C

LEMMA ReachableEnclosed ==
  ASSUME NEW s \in Stubs, NEW C \in SUBSET Nodes, Encloses(s, C)
  PROVE  Reachable(s) \subseteq C
<1> DEFINE N == Cardinality(Nodes)
           Wider(B) == B \cup {Node1[p] : p \in
                         {q \in Pips : Node0[q] \in B /\ ~Blocked(s, Node1[q])}}
           start == Sources[NetOf[s]]
           step == [B \in SUBSET Nodes |-> Wider(B)]
           IsReach(f) == f = [k \in 0..N |-> IF k = 0 THEN start
                                             ELSE Wider(f[k - 1])]
           reach == CHOOSE f : IsReach(f)
<1>1. N \in Nat
  BY SlicesAssumption, FS_CardinalityType
<1>2. start \in SUBSET Nodes
  BY NetlistAssumption
<1>3. step \in [SUBSET Nodes -> SUBSET Nodes]
  BY DeviceAssumption
<1>4. PICK run \in [0..N -> SUBSET Nodes] : Iterates(run, start, step, N)
  <2> DEFINE S == SUBSET Nodes
  <2>1. N \in Nat /\ start \in S /\ \A B \in S : step[B] \in S
    BY <1>1, <1>2, <1>3
  <2> HIDE DEF N, start, step, S
  <2>2. \E run \in [0..N -> S] : Iterates(run, start, step, N)
    BY <2>1, IterateExists
  <2> QED
    BY <2>2 DEF S
<1>5. IsReach(run)
  <2>1. ASSUME NEW B \in SUBSET Nodes PROVE step[B] = Wider(B)
    OBVIOUS
  <2>2. ASSUME NEW k \in 0..N, k # 0 PROVE run[k - 1] \in SUBSET Nodes
    <3>1. k - 1 \in 0..N
      BY <1>1, <2>2
    <3> QED
      BY <1>4, <3>1
  <2> HIDE DEF step, Wider, N, start
  <2> QED
    BY <1>1, <1>4, <2>1, <2>2 DEF Iterates
<1>6. IsReach(reach)
  <2> HIDE DEF IsReach
  <2> QED
    BY <1>5
<1>7. Reachable(s) = reach[N]
  BY DEF Reachable
<1> HIDE DEF reach
<1> DEFINE Bad == {k \in 0..N : ~(reach[k] \subseteq C)}
<1>8. Bad = {}
  <2> SUFFICES ASSUME Bad # {} PROVE FALSE
    OBVIOUS
  <2>1. PICK k \in Bad : \A m \in Bad : k <= m
    <3>1. Bad \subseteq Nat
      BY <1>1
    <3> HIDE DEF Bad
    <3> QED
      BY <3>1, LeastNat
  <2>2. k \in 0..N /\ k \in Nat
    BY <1>1
  <2>3. CASE k = 0
    <3>1. reach[k] = start
      BY <1>6, <2>2, <2>3
    <3> QED
      BY <2>1, <3>1 DEF Encloses
  <2>4. CASE k # 0
    <3>1. k - 1 \in 0..N /\ k - 1 \notin Bad
      BY <1>1, <2>1, <2>2, <2>4
    <3>2. reach[k - 1] \subseteq C
      BY <3>1
    <3>3. reach[k] = Wider(reach[k - 1])
      <4> HIDE DEF Wider, start, N
      <4> QED
        BY <1>6, <2>2, <2>4
    <3>4. Wider(reach[k - 1]) \subseteq C
      BY <3>2 DEF Encloses
    <3> QED
      BY <2>1, <3>3, <3>4
  <2> QED
    BY <2>3, <2>4
<1> QED
  BY <1>1, <1>7, <1>8

(* Following the parents up from an entry: the recursive definition of     *)
(* Ancestors has a value. *)
Gathers(f, up, last) ==
  \A id \in 0..last :
    f[id] = {id} \cup (IF up[id] = NoParent THEN {} ELSE f[up[id]])

LEMMA GatherExists ==
  ASSUME NEW last \in Nat, NEW up,
         \A id \in 0..last : up[id] = NoParent \/ up[id] \in 0..(id - 1)
  PROVE  \E f \in [0..last -> SUBSET Nat] : Gathers(f, up, last)
<1> DEFINE Good(n, f) == f \in [0..n -> SUBSET Nat] /\ Gathers(f, up, n)
           Bad == {n \in 0..last : ~\E f : Good(n, f)}
<1>1. SUFFICES Bad = {}
  <2>1. last \notin Bad
    BY <1>1
  <2> QED
    BY <2>1
<1>2. SUFFICES ASSUME Bad # {} PROVE FALSE
  OBVIOUS
<1>3. PICK n \in Bad : \A m \in Bad : n <= m
  <2>1. Bad \subseteq Nat
    OBVIOUS
  <2> HIDE DEF Bad
  <2> QED
    BY <1>2, <2>1, LeastNat
<1>4. n \in 0..last /\ n \in Nat
  OBVIOUS
<1>5. CASE n = 0
  <2> DEFINE f == [id \in 0..0 |-> {0}]
  <2>1. up[0] = NoParent
    BY <1>4
  <2>2. Good(0, f)
    BY <2>1 DEF Gathers
  <2> HIDE DEF Good, f
  <2> QED
    BY <1>5, <2>2
<1>6. CASE n # 0
  <2>1. n - 1 \in 0..last /\ n - 1 \in Nat /\ n - 1 \notin Bad
    <3> HIDE DEF Good
    <3> QED
      BY <1>3, <1>4, <1>6
  <2>2. PICK f : Good(n - 1, f)
    BY <2>1
  <2> DEFINE top == {n} \cup (IF up[n] = NoParent THEN {} ELSE f[up[n]])
             g == [id \in 0..n |-> IF id = n THEN top ELSE f[id]]
  <2>3. up[n] = NoParent \/ up[n] \in 0..(n - 1)
    BY <1>4
  <2>4. top \in SUBSET Nat
    BY <1>4, <2>2, <2>3
  <2>5. g \in [0..n -> SUBSET Nat]
    <3>1. \A id \in 0..n : id # n => f[id] \in SUBSET Nat
      BY <1>4, <2>2
    <3> HIDE DEF top
    <3> QED
      BY <2>4, <3>1
  <2>6. ASSUME NEW id \in 0..n
        PROVE  g[id] = {id} \cup (IF up[id] = NoParent THEN {} ELSE g[up[id]])
    <3>1. CASE id = n
      <4>1. up[n] # NoParent => g[up[n]] = f[up[n]]
        BY <1>4, <2>3
      <4> QED
        BY <3>1, <4>1
    <3>2. CASE id # n
      <4>1. id \in 0..(n - 1) /\ id \in 0..last
        BY <1>4, <3>2
      <4>2. f[id] = {id} \cup (IF up[id] = NoParent THEN {} ELSE f[up[id]])
        BY <2>2, <4>1 DEF Gathers
      <4>3. up[id] # NoParent => up[id] \in 0..(id - 1)
        BY <4>1
      <4>4. up[id] # NoParent => g[up[id]] = f[up[id]]
        BY <1>4, <4>1, <4>3
      <4>5. g[id] = f[id]
        BY <3>2
      <4> HIDE DEF g
      <4> QED
        BY <4>2, <4>4, <4>5
    <3> QED
      BY <3>1, <3>2
  <2> HIDE DEF g
  <2>7. Good(n, g)
    BY <2>5, <2>6 DEF Gathers
  <2> HIDE DEF Good
  <2> QED
    BY <2>7
<1> QED
  BY <1>5, <1>6

-----------------------------------------------------------------------------
(* Dead ends. *)

(* What the search of s has seen: the sources, and the nodes its history   *)
(* enters. *)
Visited(s) ==
  Sources[NetOf[s]]
    \cup {Node1[HistoryAt(s, id).pip] : id \in 0..(Known(s) - 1)}

Ahead(s, x) ==
  \E j \in 1..BeamWidth : BeamOf(s)[j] # None /\ Node1[BeamOf(s)[j].pip] = x

(* p is one of the pips of the expanded node that are still to be tried. *)
Untried(s, p) ==
  /\ item = s
  /\ parent # None
  /\ \E i \in DOMAIN ExpandedPips : i >= pip_i /\ ExpandedPips[i] = p

Pursued(s, p) ==
  \/ Blocked(s, Node1[p])
  \/ Node1[p] \in Visited(s)
  \/ Ahead(s, Node1[p])
  \/ Untried(s, p)

Searching(s) == di[s].state = 0 /\ pc \notin {"restart", "done"}

(* A search that has lost no head has tried every pip that leaves a node   *)
(* it has seen, or is about to. *)
SearchIsWhole ==
  \A s \in Sought :
    Searching(s) /\ s \notin dropped =>
      /\ StubNode[s] \notin Visited(s)
      /\ \A p \in Pips : Node0[p] \in Visited(s) => Pursued(s, p)

(* Each expansion starts with the first pip. *)
FirstPip == parent = None => pip_i = 1

(* What it has seen when it gives up encloses the sources, from then on. *)
DeadEnds ==
  \A s \in Sought :
    di[s].state = 2 /\ s \notin dropped =>
      \E C \in SUBSET Nodes : Encloses(s, C) /\ StubNode[s] \notin C

SearchInv == FirstPip /\ SearchIsWhole /\ DeadEnds

LEMMA OwnersGrow ==
  ASSUME KernelInv, StoreInv, [Next]_vars, NEW x \in Nodes, owner[x] # None
  PROVE  owner'[x] = owner[x]
<1>1. CASE StoreRoute
  <2>1. /\ owner' = [y \in Nodes |->
                       IF y \in WalkedNodes THEN NetAt ELSE owner[y]]
        /\ \A y \in WalkedNodes : owner[y] \in {None, NetAt}
    BY <1>1, WalkedPathIsRoute DEF StoreRoute, StoreInv
  <2> QED
    BY <2>1
<1> QED
  BY <1>1, OnlyStoreRoute

LEMMA BlockedStays ==
  ASSUME KernelInv, StoreInv, [Next]_vars, NEW s \in Stubs, NEW x \in Nodes,
         Blocked(s, x)
  PROVE  Blocked(s, x)'
BY OwnersGrow DEF Blocked

LEMMA EnclosesStays ==
  ASSUME KernelInv, StoreInv, [Next]_vars, NEW s \in Stubs,
         NEW C \in SUBSET Nodes, Encloses(s, C)
  PROVE  Encloses(s, C)'
BY BlockedStays, DeviceAssumption DEF Encloses

LEMMA EntryType ==
  ASSUME KernelInv, NEW s \in Stubs, NEW id \in 0..(Known(s) - 1)
  PROVE  HistoryAt(s, id).pip \in Pips
<1>1. Known(s) \in Nat /\ id \in Nat
  BY KnownBound DEF KernelInv
<1>2. HistoryAt(s, id) \in Entry
  <2>1. id \div CounterMax \in Nat /\ id % CounterMax \in 0..(CounterMax - 1)
    BY <1>1, EntryPlace
  <2>2. CASE id \div CounterMax < Len(snaps)
    <3>1. (id \div CounterMax) + 1 \in 1..Len(snaps)
      BY <2>1, <2>2 DEF KernelInv, Types
    <3>2. snaps[(id \div CounterMax) + 1] \in [Stubs -> History]
      BY <3>1 DEF KernelInv, Types
    <3> QED
      BY <2>1, <2>2, <3>2 DEF HistoryAt, History
  <2>3. CASE ~(id \div CounterMax < Len(snaps))
    <3>1. explored[s] \in History
      BY DEF KernelInv, Types
    <3> QED
      BY <2>1, <2>3, <3>1 DEF HistoryAt, History
  <2> QED
    BY <2>2, <2>3
<1>3. HistoryAt(s, id).pip # None
  BY DEF KernelInv, HistoryForest
<1> QED
  BY <1>2, <1>3 DEF Entry

LEMMA VisitedType ==
  ASSUME KernelInv, NEW s \in Stubs
  PROVE  Visited(s) \in SUBSET Nodes
<1>1. ASSUME NEW id \in 0..(Known(s) - 1)
      PROVE  Node1[HistoryAt(s, id).pip] \in Nodes
  BY EntryType, DeviceAssumption
<1>2. Sources[NetOf[s]] \subseteq Nodes
  BY NetlistAssumption
<1> QED
  BY <1>1, <1>2 DEF Visited

(* A search that goes on was on before the step, unless the step restarts  *)
(* it. *)
LEMMA SearchingBefore ==
  ASSUME KernelInv, [Next]_vars, NEW s \in Stubs, Searching(s)', ~StartRestart
  PROVE  Searching(s)
<1>1. CASE Host
  BY <1>1 DEF Host, StepAll, ReadBack, EndSeries, EndRestart,
              WriteUnroutedNets, Searching
<1>2. CASE \E t \in Stubs : KernelSkip(t) \/ KernelStart(t)
  BY <1>2 DEF KernelSkip, KernelStart, Searching
<1>3. CASE KernelDeadEnd \/ KernelSuccess \/ KernelStuck \/ KernelSuspend
  <2>1. pc = "kernel" /\ item # None /\ di[item].state = 0
    BY <1>3 DEF KernelDeadEnd, KernelSuccess, KernelStuck, KernelSuspend,
                ExpandedAll, KernelInv, Phase
  <2>2. s # item => di'[s] = di[s]
    BY <1>3 DEF KernelDeadEnd, KernelSuccess, KernelStuck, KernelSuspend,
                Finish, KernelInv, Types
  <2> QED
    BY <2>1, <2>2 DEF Searching
<1>4. CASE KernelPop \/ KernelPassPip \/ KernelAddPip \/ KernelContinue
  BY <1>4 DEF KernelPop, KernelPassPip, KernelAddPip, KernelContinue,
              ExpandedAll, Searching
<1>5. CASE Store \/ Done \/ UNCHANGED vars
  BY <1>5, StoreKeepsSearches DEF Searching, Storing
<1> QED
  BY <1>1, <1>2, <1>3, <1>4, <1>5 DEF Next, Kernel

LEMMA VisitedKept ==
  ASSUME KernelInv, [Next]_vars, NEW s \in Stubs, Searching(s)',
         ~(KernelPop /\ s = item), ~StartRestart
  PROVE  Visited(s)' = Visited(s)
<1>1. ~EndRestart /\ di'[s].state = 0
  BY DEF EndRestart, Searching
<1>2. ~(KernelSuccess /\ s = item)
  BY <1>1 DEF KernelSuccess, Finish, KernelInv, Types
<1>3. Known(s)' = Known(s) /\ Known(s) \in Nat
  BY <1>1, <1>2, KnownNext, KnownBound DEF KernelInv
<1>4. ASSUME NEW id \in 0..(Known(s) - 1)
      PROVE  HistoryAt(s, id)' = HistoryAt(s, id)
  <2>1. id \in Nat /\ id < Known(s)
    BY <1>3
  <2> QED
    BY <1>1, <2>1, HistoryKept DEF KernelInv
<1> QED
  BY <1>3, <1>4 DEF Visited

LEMMA VisitedByPop ==
  ASSUME KernelInv, [Next]_vars, NEW s \in Stubs, KernelPop, s = item
  PROVE  Visited(s)' = Visited(s) \cup {Node1[cur_heads[1].pip]}
<1>1. ~EndRestart
  BY DEF EndRestart, KernelPop
<1>2. PICK k \in Nat : k = ExploredId
  BY ExploredIdType DEF KernelInv
<1>3. Known(s) = k /\ Known(s)' = k + 1
  BY <1>2, NoneAssumption DEF KernelPop, Known, ExploredId
<1>4. ASSUME NEW id \in 0..(k - 1)
      PROVE  HistoryAt(s, id)' = HistoryAt(s, id)
  <2>1. id \in Nat /\ id < Known(s)
    BY <1>3
  <2> QED
    BY <1>1, <2>1, HistoryKept DEF KernelInv
<1>5. HistoryAt(s, k)'.pip = cur_heads[1].pip
  BY <1>2, Logged DEF KernelInv
<1>6. 0..k = 0..(k - 1) \cup {k}
  OBVIOUS
<1> QED
  BY <1>3, <1>4, <1>5, <1>6 DEF Visited

LEMMA FirstPipInit == Init => FirstPip
BY DEF Init, FirstPip

LEMMA FirstPipNext ==
  ASSUME KernelInv, FirstPip, [Next]_vars
  PROVE  FirstPip'
<1>1. CASE KernelDeadEnd \/ KernelSuccess \/ KernelStuck \/ KernelSuspend
             \/ KernelContinue
  BY <1>1 DEF KernelDeadEnd, KernelSuccess, KernelStuck, KernelSuspend,
              KernelContinue, IdleItem, FirstPip
<1>2. CASE KernelPop \/ KernelPassPip \/ KernelAddPip
  <2>1. parent' # None
    BY <1>2, FrontType DEF KernelPop, KernelPassPip, KernelAddPip
  <2> QED
    BY <2>1 DEF FirstPip
<1>3. CASE Host \/ \E s \in Stubs : KernelSkip(s) \/ KernelStart(s)
  BY <1>3 DEF Host, StartRestart, StepAll, ReadBack, EndSeries, EndRestart,
              WriteUnroutedNets, KernelSkip, KernelStart, FirstPip
<1>4. CASE Store \/ Done \/ UNCHANGED vars
  BY <1>4 DEF Store, Done, StoreSkip, StoreBegin, WalkParent, WalkEnd,
              StoreRefuse, StoreForward, StoreRoute, FirstPip
<1> QED
  BY <1>1, <1>2, <1>3, <1>4 DEF Next, Kernel

(* A restart sets out from every pip that leaves a source. *)
LEMMA RestartIsWhole ==
  ASSUME KernelInv, StartRestart, NEW s \in Sought, di[s].state = 0
  PROVE  /\ StubNode[s] \notin Visited(s)'
         /\ \A p \in Pips : Node0[p] \in Visited(s)' => Pursued(s, p)'
<1> DEFINE n == NetOf[s]
<1>1. /\ pc = "restart" /\ series = 0 /\ item = None /\ s \in Stubs
  BY DEF StartRestart, KernelInv, Phase
<1>2. di[s].count = 0
  <2>1. Rounds(s) = 0
    BY <1>1 DEF Rounds, Storing
  <2>2. di[s].count = CounterMax * Rounds(s)
    BY DEF KernelInv, Counts
  <2> QED
    BY <2>1, <2>2, SearchAssumption
<1>3. Known(s)' = 0
  BY <1>1, <1>2, NoneAssumption DEF StartRestart, Known
<1>4. Visited(s)' = Sources[n]
  BY <1>3 DEF Visited
<1>5. ASSUME NEW p \in Pips, Node0[p] \in Sources[n]
      PROVE  Ahead(s, Node1[p])'
  <2>1. n \in Nets /\ SourcePips[n] \in Seq(Pips) /\ Len(SourcePips[n]) <= BeamWidth
    BY NetlistAssumption, SearchAssumption
  <2>2. PICK i \in DOMAIN SourcePips[n] : SourcePips[n][i] = p
    BY <1>5, <2>1, NetlistAssumption, StubsAssumption
  <2>3. i \in 1..BeamWidth /\ i <= Len(SourcePips[n])
    BY <2>1, WidthAssumption
  <2>4. FirstBeam(s)[i] = [cost |-> 0, height |-> 0, parent |-> NoParent,
                           pip |-> p]
    BY <2>2, <2>3 DEF FirstBeam
  <2>5. FirstBeam(s)[i] \in BeamHead
    BY <2>4 DEF BeamHead, NoParent
  <2>6. FirstBeam(s)[i] # None /\ FirstBeam(s)[i].pip = p
    BY <2>4, <2>5, NoneAssumption
  <2>7. BeamOf(s)' = FirstBeam(s)
    BY <1>1, NoneAssumption DEF StartRestart, BeamOf
  <2> QED
    BY <2>3, <2>6, <2>7 DEF Ahead
<1> QED
  BY <1>4, <1>5, NetlistAssumption, StubsAssumption DEF Pursued

(* What a step may do to the pips a search still has to try. *)
LEMMA PursuedStays ==
  ASSUME KernelInv, StoreInv, FirstPip, [Next]_vars, ~StartRestart,
         NEW s \in Stubs, s \notin dropped', Searching(s), Searching(s)',
         NEW p \in Pips, Pursued(s, p)
  PROVE  Pursued(s, p)'
<1> USE NoneAssumption
<1>1. Node1[p] \in Nodes
  BY DeviceAssumption
<1>2. CASE Blocked(s, Node1[p])
  BY <1>1, <1>2, BlockedStays DEF Pursued
<1>3. CASE Node1[p] \in Visited(s)
  <2>1. Node1[p] \in Visited(s)'
    BY <1>3, VisitedKept, VisitedByPop
  <2> QED
    BY <2>1 DEF Pursued
<1>4. ASSUME NEW j \in 1..BeamWidth, BeamOf(s)[j] # None,
             Node1[BeamOf(s)[j].pip] = Node1[p]
      PROVE  Pursued(s, p)'
  <2>1. CASE BeamOf(s)' = BeamOf(s)
    BY <1>4, <2>1 DEF Pursued, Ahead
  <2>2. CASE KernelPop /\ s = item
    <3>1. /\ BeamOf(s) = cur_heads /\ BeamOf(s)' = Shift(cur_heads)
      BY <2>2 DEF KernelPop, BeamOf
    <3>2. CASE j = 1
      <4>1. Node1[p] \in Visited(s)'
        BY <1>4, <2>2, <3>1, <3>2, VisitedByPop
      <4> QED
        BY <4>1 DEF Pursued
    <3>3. CASE j # 1
      <4>1. j - 1 \in 1..BeamWidth /\ j - 1 < BeamWidth /\ (j - 1) + 1 = j
        BY <3>3, WidthAssumption
      <4>2. Shift(cur_heads)[j - 1] = cur_heads[j]
        BY <4>1 DEF Shift
      <4>3. Ahead(s, Node1[p])'
        BY <1>4, <3>1, <4>1, <4>2 DEF Ahead
      <4> QED
        BY <4>3 DEF Pursued
    <3> QED
      BY <3>2, <3>3
  <2>3. CASE KernelAddPip /\ s = item
    <3> DEFINE h == HeadOf(ExpandedPips[pip_i])
               e == BeamOf(s)[j]
    <3>1. /\ BeamOf(s) = cur_heads /\ BeamOf(s)' = Insert(cur_heads, h)
          /\ Overflow(cur_heads, h) = None
      BY <2>3 DEF KernelAddPip, BeamOf
    <3>2. h # None
      <4>1. /\ parent # None /\ item # None /\ pip_i \in 1..Len(ExpandedPips)
        BY <2>3 DEF KernelAddPip, KernelInv, Types, Phase
      <4>2. ExpandedPips[pip_i] \in Pips
        BY <4>1, ExpandedPipType DEF KernelInv
      <4> QED
        BY <4>1, <4>2, HeadOfType DEF KernelInv
    <3> HIDE DEF h
    <3>3. e # None /\ \E i \in 1..BeamWidth : e = cur_heads[i]
      BY <1>4, <3>1
    <3> HIDE DEF e
    <3>4. PICK k \in 1..BeamWidth : Insert(cur_heads, h)[k] = e
      BY <3>1, <3>2, <3>3, InsertLosesNone
    <3>5. Node1[e.pip] = Node1[p]
      BY <1>4 DEF e
    <3>6. Ahead(s, Node1[p])'
      BY <3>1, <3>3, <3>4, <3>5 DEF Ahead
    <3> QED
      BY <3>6 DEF Pursued
  <2>4. \/ BeamOf(s)' = BeamOf(s)
        \/ KernelPop /\ s = item
        \/ KernelAddPip /\ s = item
    <3>1. CASE Host
      BY <3>1 DEF Host, StepAll, ReadBack, EndSeries, EndRestart,
                  WriteUnroutedNets, BeamOf
    <3>2. CASE \E t \in Stubs : KernelSkip(t) \/ KernelStart(t)
      BY <3>2 DEF KernelSkip, KernelStart, BeamOf
    <3>3. CASE KernelPop \/ KernelAddPip \/ KernelPassPip \/ KernelContinue
      BY <3>3 DEF KernelPop, KernelAddPip, KernelPassPip, KernelContinue,
                  ExpandedAll, BeamOf
    <3>4. CASE KernelDeadEnd \/ KernelSuccess \/ KernelStuck
      <4>1. di'[item].state # 0 /\ item \in Stubs
        BY <3>4 DEF KernelDeadEnd, KernelSuccess, KernelStuck, ExpandedAll,
                    Finish, KernelInv, Types, Phase
      <4>2. s # item
        BY <4>1 DEF Searching
      <4> QED
        BY <3>4, <4>2 DEF KernelDeadEnd, KernelSuccess, KernelStuck, IdleItem,
                          BeamOf
    <3>5. CASE KernelSuspend
      BY <3>5 DEF KernelSuspend, ExpandedAll, IdleItem, BeamOf, KernelInv, Types
    <3>6. CASE Store \/ Done \/ UNCHANGED vars
      BY <3>6, StoreKeepsSearches DEF BeamOf
    <3> QED
      BY <3>1, <3>2, <3>3, <3>4, <3>5, <3>6 DEF Next, Kernel
  <2> QED
    BY <2>1, <2>2, <2>3, <2>4
<1>5. ASSUME Untried(s, p) PROVE Pursued(s, p)'
  <2>1. /\ item = s /\ parent # None /\ pc = "kernel"
    BY <1>5 DEF Untried, KernelInv, Phase
  <2>2. PICK i \in DOMAIN ExpandedPips : i >= pip_i /\ ExpandedPips[i] = p
    BY <1>5 DEF Untried
  <2>3. ExpandedPips \in Seq(Pips) /\ i \in 1..Len(ExpandedPips) /\ i \in Nat
        /\ pip_i \in Nat /\ Len(ExpandedPips) \in Nat
    BY <2>1, <2>2, ExpandedPipType DEF KernelInv, Types
  <2>4. CASE KernelPassPip
    <3>1. CASE i = pip_i
      <4>1. Blocked(s, Node1[p])
        BY <2>1, <2>2, <2>4, <3>1 DEF KernelPassPip, InUse, Blocked
      <4> QED
        BY <1>1, <4>1, BlockedStays DEF Pursued
    <3>2. CASE i # pip_i
      <4>1. item' = s /\ parent' = parent /\ pip_i' = pip_i + 1
        BY <2>1, <2>4 DEF KernelPassPip
      <4>2. i >= pip_i'
        BY <2>2, <2>3, <3>2, <4>1
      <4>3. Untried(s, p)'
        BY <2>1, <2>2, <4>1, <4>2 DEF Untried, ExpandedPips
      <4> QED
        BY <4>3 DEF Pursued
    <3> QED
      BY <3>1, <3>2
  <2>5. CASE KernelAddPip
    <3>1. CASE i = pip_i
      <4> DEFINE h == HeadOf(p)
      <4>1. h \in BeamHead /\ h.pip = p
        BY <2>1, HeadOfType DEF HeadOf, KernelInv
      <4>2. h # None
        BY <4>1
      <4>3. /\ Overflow(cur_heads, h) = None
            /\ BeamOf(s)' = Insert(cur_heads, h)
        BY <2>1, <2>2, <2>5, <3>1 DEF KernelAddPip, BeamOf
      <4> HIDE DEF h
      <4>4. PICK k \in 1..BeamWidth : Insert(cur_heads, h)[k] = h
        BY <4>2, <4>3, InsertLosesNone
      <4>5. Ahead(s, Node1[p])'
        BY <4>1, <4>2, <4>3, <4>4 DEF Ahead
      <4> QED
        BY <4>5 DEF Pursued
    <3>2. CASE i # pip_i
      <4>1. item' = s /\ parent' = parent /\ pip_i' = pip_i + 1
        BY <2>1, <2>5 DEF KernelAddPip
      <4>2. i >= pip_i'
        BY <2>2, <2>3, <3>2, <4>1
      <4>3. Untried(s, p)'
        BY <2>1, <2>2, <4>1, <4>2 DEF Untried, ExpandedPips
      <4> QED
        BY <4>3 DEF Pursued
    <3> QED
      BY <3>1, <3>2
  <2>6. ~ExpandedAll
    BY <2>2, <2>3 DEF ExpandedAll
  <2>7. KernelPassPip \/ KernelAddPip \/ Done \/ UNCHANGED vars
    BY <2>1, <2>6 DEF Next, Host, StepAll, StartRestart, ReadBack, EndSeries,
       EndRestart, WriteUnroutedNets, Kernel, KernelSkip, KernelStart,
       KernelDeadEnd, KernelSuccess, KernelPop, KernelStuck, KernelContinue,
       KernelSuspend, Store, StoreSkip, StoreBegin, WalkParent, WalkEnd,
       StoreRefuse, StoreForward, StoreRoute
  <2>8. CASE Done \/ UNCHANGED vars
    BY <1>5, <2>8 DEF Done, Untried, ExpandedPips, Pursued
  <2> QED
    BY <2>4, <2>5, <2>7, <2>8
<1> QED
  BY <1>2, <1>3, <1>4, <1>5 DEF Pursued, Ahead

LEMMA SearchIsWholeInit == Init => SearchIsWhole
BY DEF Init, SearchIsWhole, Searching

LEMMA SearchIsWholeNext ==
  ASSUME KernelInv, StoreInv, FirstPip, SearchIsWhole, [Next]_vars
  PROVE  SearchIsWhole'
<1> SUFFICES ASSUME NEW s \in Sought, Searching(s)', s \notin dropped'
             PROVE  /\ StubNode[s] \notin Visited(s)'
                    /\ \A p \in Pips : Node0[p] \in Visited(s)' => Pursued(s, p)'
  BY DEF SearchIsWhole
<1>1. CASE StartRestart
  <2>1. di[s].state = 0
    BY <1>1 DEF StartRestart, Searching
  <2> QED
    BY <1>1, <2>1, RestartIsWhole
<1>2. CASE ~StartRestart
  <2>1. Searching(s)
    BY <1>2, SearchingBefore
  <2>2. s \notin dropped
    BY <1>2 DEF Next, Host, StepAll, ReadBack, EndSeries, EndRestart,
       WriteUnroutedNets, Kernel, KernelSkip, KernelStart, KernelDeadEnd,
       KernelSuccess, KernelPop, KernelPassPip, KernelAddPip, KernelStuck,
       KernelContinue, KernelSuspend, ExpandedAll, Store, StoreSkip,
       StoreBegin, WalkParent, WalkEnd, StoreRefuse, StoreForward, StoreRoute,
       Done
  <2>3. /\ StubNode[s] \notin Visited(s)
        /\ \A p \in Pips : Node0[p] \in Visited(s) => Pursued(s, p)
    BY <2>1, <2>2 DEF SearchIsWhole
  <2>4. \A p \in Pips : Node0[p] \in Visited(s) => Pursued(s, p)'
    BY <1>2, <2>1, <2>3, PursuedStays
  <2>5. CASE KernelPop /\ s = item
    <3>1. Visited(s)' = Visited(s) \cup {Node1[cur_heads[1].pip]}
      BY <2>5, VisitedByPop
    <3>2. /\ Node1[cur_heads[1].pip] # StubNode[s]
          /\ item' = s /\ parent' = cur_heads[1] /\ parent' # None
          /\ parent = None /\ pip_i' = pip_i
      BY <2>5 DEF KernelPop
    <3>3. pip_i' = 1
      BY <3>2 DEF FirstPip
    <3>4. ASSUME NEW p \in Pips, Node0[p] = Node1[cur_heads[1].pip]
          PROVE  Pursued(s, p)'
      <4>1. PICK i \in DOMAIN Out[Node0[p]] : Out[Node0[p]][i] = p
        BY DeviceAssumption, SlicesAssumption
      <4>2. Out[Node0[p]] \in Seq(Pips)
        BY DeviceAssumption
      <4>3. i >= 1
        BY <4>1, <4>2
      <4>4. ExpandedPips' = Out[Node0[p]]
        BY <3>2, <3>4 DEF ExpandedPips
      <4>5. Untried(s, p)'
        BY <3>2, <3>3, <4>1, <4>3, <4>4 DEF Untried
      <4> QED
        BY <4>5 DEF Pursued
    <3> QED
      BY <2>3, <2>4, <3>1, <3>2, <3>4
  <2>6. CASE ~(KernelPop /\ s = item)
    BY <1>2, <2>3, <2>4, <2>6, VisitedKept
  <2> QED
    BY <2>5, <2>6
<1> QED
  BY <1>1, <1>2

LEMMA DeadEndsInit == Init => DeadEnds
BY DEF Init, DeadEnds

(* A beam without a front head is empty, so what has been seen is closed. *)
LEMMA GivenUp ==
  ASSUME KernelInv, SearchIsWhole, FrontIsCheapest,
         NEW s \in Sought, s = item, s \notin dropped,
         KernelDeadEnd \/ KernelStuck
  PROVE  Encloses(s, Visited(s)) /\ StubNode[s] \notin Visited(s)
<1>1. /\ item # None /\ pc = "kernel" /\ cur_heads[1] = None
      /\ di[s].state = 0
  BY DEF KernelDeadEnd, KernelStuck, ExpandedAll, KernelInv, Phase
<1>2. Searching(s)
  BY <1>1 DEF Searching
<1>3. ASSUME NEW x PROVE ~Ahead(s, x)
  <2>1. \A j \in 1..BeamWidth : cur_heads[j] = None
    BY <1>1 DEF FrontIsCheapest, Front
  <2> QED
    BY <2>1 DEF Ahead, BeamOf
<1>4. ASSUME NEW p \in Pips PROVE ~Untried(s, p)
  <2>1. CASE KernelDeadEnd
    BY <2>1 DEF KernelDeadEnd, Untried
  <2>2. CASE KernelStuck
    <3>1. parent # None /\ pip_i > Len(ExpandedPips)
      BY <2>2 DEF KernelStuck, ExpandedAll
    <3>2. ExpandedPips \in Seq(Pips) /\ pip_i \in Nat
      BY <3>1, ExpandedPipType DEF KernelInv, Types
    <3> QED
      BY <3>1, <3>2 DEF Untried
  <2> QED
    BY <2>1, <2>2
<1>5. /\ StubNode[s] \notin Visited(s)
      /\ \A p \in Pips : Node0[p] \in Visited(s) => Pursued(s, p)
  BY <1>2 DEF SearchIsWhole
<1>6. Sources[NetOf[s]] \subseteq Visited(s)
  BY DEF Visited
<1> QED
  BY <1>3, <1>4, <1>5, <1>6 DEF Encloses, Pursued

LEMMA DeadEndsNext ==
  ASSUME KernelInv, StoreInv, FrontIsCheapest, SearchIsWhole, DeadEnds,
         [Next]_vars
  PROVE  DeadEnds'
<1> SUFFICES ASSUME NEW s \in Sought, di'[s].state = 2,
                    s \notin dropped'
             PROVE  \E C \in SUBSET Nodes :
                      Encloses(s, C)' /\ StubNode[s] \notin C
  BY DEF DeadEnds
<1>1. CASE /\ di[s].state = 2 /\ s \notin dropped
  <2>1. PICK C \in SUBSET Nodes : Encloses(s, C) /\ StubNode[s] \notin C
    BY <1>1 DEF DeadEnds
  <2> QED
    BY <2>1, EnclosesStays
<1>2. CASE (KernelDeadEnd \/ KernelStuck) /\ s = item
  <2>1. s \notin dropped
    BY <1>2 DEF KernelDeadEnd, KernelStuck, ExpandedAll
  <2>2. Encloses(s, Visited(s)) /\ StubNode[s] \notin Visited(s)
    BY <1>2, <2>1, GivenUp
  <2>3. PICK C \in SUBSET Nodes : C = Visited(s)
    BY VisitedType
  <2>4. Encloses(s, C) /\ StubNode[s] \notin C
    BY <2>2, <2>3
  <2> QED
    BY <2>4, EnclosesStays
<1>3. \/ di[s].state = 2 /\ s \notin dropped
      \/ (KernelDeadEnd \/ KernelStuck) /\ s = item
  <2>1. CASE Host
    BY <2>1 DEF Host, StartRestart, StepAll, ReadBack, EndSeries, EndRestart,
                WriteUnroutedNets
  <2>2. CASE \E t \in Stubs : KernelSkip(t) \/ KernelStart(t)
    BY <2>2 DEF KernelSkip, KernelStart
  <2>3. CASE KernelDeadEnd \/ KernelStuck \/ KernelSuccess \/ KernelSuspend
    BY <2>3 DEF KernelDeadEnd, KernelStuck, KernelSuccess, KernelSuspend,
                ExpandedAll, Finish, KernelInv, Types
  <2>4. CASE KernelPop \/ KernelPassPip \/ KernelAddPip \/ KernelContinue
    BY <2>4 DEF KernelPop, KernelPassPip, KernelAddPip, KernelContinue,
                ExpandedAll
  <2>5. CASE Store \/ Done \/ UNCHANGED vars
    BY <2>5 DEF Store, Done, StoreSkip, StoreBegin, WalkParent, WalkEnd,
                StoreRefuse, StoreForward, StoreRoute
  <2> QED
    BY <2>1, <2>2, <2>3, <2>4, <2>5 DEF Next, Kernel
<1> QED
  BY <1>1, <1>2, <1>3

LEMMA DeadEndsAreReal == KernelInv /\ DeadEnds => DeadEndIsReal
<1> SUFFICES ASSUME DeadEnds, NEW s \in Sought, di[s].state = 2,
                    s \notin dropped
             PROVE  StubNode[s] \notin Reachable(s)
  BY DEF DeadEndIsReal
<1>1. PICK C \in SUBSET Nodes : Encloses(s, C) /\ StubNode[s] \notin C
  BY DEF DeadEnds
<1> QED
  BY <1>1, ReachableEnclosed

(* For every device, netlist and beam: a search that loses no head gives   *)
(* up only when no legal route to its stub is left, and none appears later,*)
(* whatever the restarts and the other nets do. *)
THEOREM DeadEndsStay == Spec => []DeadEndIsReal
<1>1. Init => SearchInv
  BY FirstPipInit, SearchIsWholeInit, DeadEndsInit DEF SearchInv
<1>2. KernelInv /\ StoreInv /\ FrontIsCheapest /\ SearchInv /\ [Next]_vars
        => SearchInv'
  BY FirstPipNext, SearchIsWholeNext, DeadEndsNext DEF SearchInv
<1>3. KernelInv /\ SearchInv => DeadEndIsReal
  BY DeadEndsAreReal DEF SearchInv
<1> QED
  BY <1>1, <1>2, <1>3, KernelInvariant, StoreInvariant, FrontsAreCheapest, PTL
     DEF Spec

-----------------------------------------------------------------------------
(* Refused routes. *)

(* A chain of entries, each the parent of the one before. *)
IsChain(s, chain) ==
  /\ chain # << >>
  /\ chain[1] = di[s].count - 1
  /\ \A i \in 1..(Len(chain) - 1) : chain[i + 1] = HistoryAt(s, chain[i]).parent
  /\ \A i \in 1..Len(chain) : chain[i] \in 0..(di[s].count - 1)

(* Where it starts, its entries are ancestors. *)
LEMMA ChainOfAncestors ==
  ASSUME KernelInv, NEW s \in Stubs, item = None, di[s].count # 0,
         NEW chain \in Seq(Nat), IsChain(s, chain), NEW i \in 1..Len(chain)
  PROVE  chain[i] \in Ancestors(s, di[s].count - 1)
<1> DEFINE last == di[s].count - 1
           up == [id \in 0..last |-> HistoryAt(s, id).parent]
           IsAnc(f) == f = [id \in 0..last |->
                              {id} \cup (IF HistoryAt(s, id).parent = NoParent
                                         THEN {}
                                         ELSE f[HistoryAt(s, id).parent])]
           anc == CHOOSE f : IsAnc(f)
<1>1. last \in Nat /\ Known(s) = last + 1
  BY NoneAssumption DEF KernelInv, Types, Known
<1>2. \A id \in 0..last : up[id] = NoParent \/ up[id] \in 0..(id - 1)
  BY <1>1 DEF KernelInv, HistoryForest, Extends
<1>3. PICK f \in [0..last -> SUBSET Nat] : Gathers(f, up, last)
  <2> HIDE DEF last, up
  <2> QED
    BY <1>1, <1>2, GatherExists
<1>4. IsAnc(f)
  <2>1. \A id \in 0..last :
          f[id] = {id} \cup (IF HistoryAt(s, id).parent = NoParent THEN {}
                             ELSE f[HistoryAt(s, id).parent])
    BY <1>3 DEF Gathers
  <2> HIDE DEF last
  <2> QED
    BY <1>3, <2>1
<1>5. IsAnc(anc)
  <2> HIDE DEF IsAnc
  <2> QED
    BY <1>4
<1>6. Ancestors(s, last) = anc[last]
  BY DEF Ancestors
<1>7. \A id \in 0..last :
        anc[id] = {id} \cup (IF HistoryAt(s, id).parent = NoParent THEN {}
                             ELSE anc[HistoryAt(s, id).parent])
  <2> HIDE DEF last, anc
  <2> QED
    BY <1>5
<1> HIDE DEF anc
<1> DEFINE Bad == {k \in 1..Len(chain) : ~(anc[chain[k]] \subseteq anc[last])}
<1>8. Bad = {}
  <2> SUFFICES ASSUME Bad # {} PROVE FALSE
    OBVIOUS
  <2>1. PICK k \in Bad : \A m \in Bad : k <= m
    <3>1. Bad \subseteq Nat
      OBVIOUS
    <3> HIDE DEF Bad
    <3> QED
      BY <3>1, LeastNat
  <2>2. CASE k = 1
    BY <2>1, <2>2 DEF IsChain
  <2>3. CASE k # 1
    <3>1. k - 1 \in 1..(Len(chain) - 1) /\ k - 1 \in 1..Len(chain)
          /\ (k - 1) + 1 = k /\ k - 1 \notin Bad
      BY <2>1, <2>3
    <3>2. anc[chain[k - 1]] \subseteq anc[last]
      BY <3>1
    <3>3. /\ chain[k] = HistoryAt(s, chain[k - 1]).parent
          /\ chain[k] \in 0..last /\ chain[k - 1] \in 0..last
      BY <2>1, <3>1 DEF IsChain
    <3>4. chain[k] # NoParent
      BY <3>3 DEF NoParent
    <3>5. anc[chain[k]] \subseteq anc[chain[k - 1]]
      BY <1>7, <3>3, <3>4
    <3> QED
      BY <2>1, <3>2, <3>5
  <2> QED
    BY <2>2, <2>3
<1>9. chain[i] \in anc[chain[i]]
  BY <1>7 DEF IsChain
<1> QED
  BY <1>6, <1>8, <1>9

LEMMA Descends ==
  ASSUME NEW chain \in Seq(Nat),
         \A i \in 1..(Len(chain) - 1) : chain[i + 1] < chain[i],
         NEW i \in 1..Len(chain), NEW j \in 1..Len(chain), i < j
  PROVE  chain[j] < chain[i]
<1>0. \A k \in 1..Len(chain) : chain[k] \in Nat
  OBVIOUS
<1> DEFINE Bad == {k \in (i + 1)..Len(chain) : ~(chain[k] < chain[i])}
<1>1. Bad = {}
  <2> SUFFICES ASSUME Bad # {} PROVE FALSE
    OBVIOUS
  <2>1. PICK k \in Bad : \A m \in Bad : k <= m
    <3>1. Bad \subseteq Nat
      OBVIOUS
    <3> HIDE DEF Bad
    <3> QED
      BY <3>1, LeastNat
  <2>2. k - 1 \in 1..(Len(chain) - 1) /\ (k - 1) + 1 = k
    OBVIOUS
  <2>3. chain[k] < chain[k - 1] /\ chain[k] \in Nat /\ chain[k - 1] \in Nat
        /\ chain[i] \in Nat
    <3>1. PICK m \in 1..(Len(chain) - 1) : m = k - 1 /\ m + 1 = k
      BY <2>2
    <3>2. chain[m + 1] < chain[m]
      OBVIOUS
    <3>3. m \in 1..Len(chain) /\ k \in 1..Len(chain)
      OBVIOUS
    <3>4. chain[k] < chain[k - 1]
      BY <3>1, <3>2
    <3>5. chain[k - 1] \in Nat
      BY <3>1, <3>3
    <3>6. chain[k] \in Nat /\ chain[i] \in Nat
      <4> HIDE DEF Bad
      <4> QED
        BY <1>0, <3>3
    <3> QED
      BY <3>4, <3>5, <3>6
  <2>6. ~(chain[k] < chain[i])
    OBVIOUS
  <2>4. CASE k = i + 1
    BY <2>2, <2>3, <2>4, <2>6
  <2>5. CASE k # i + 1
    <3>1. k - 1 \notin Bad /\ k - 1 \in (i + 1)..Len(chain)
      BY <2>1, <2>5
    <3>2. chain[k - 1] < chain[i]
      BY <3>1
    <3> HIDE DEF Bad
    <3> QED
      BY <2>3, <2>6, <3>2
  <2> QED
    BY <2>4, <2>5
<1> QED
  BY <1>1

(* A chain that runs in a loop, or through a node of another net. *)
Faulty(s, chain) ==
  \/ \E i, j \in 1..Len(chain) :
       /\ chain[i] # chain[j]
       /\ Node1[HistoryAt(s, chain[i]).pip] = Node1[HistoryAt(s, chain[j]).pip]
  \/ \E i \in 1..Len(chain) :
       \/ Blocked(s, Node0[HistoryAt(s, chain[i]).pip])
       \/ Blocked(s, Node1[HistoryAt(s, chain[i]).pip])

Excused(s) == \E chain \in Seq(Nat) : IsChain(s, chain) /\ Faulty(s, chain)

(* A route was found for s, and its net has none. *)
Lost(s) == di[s].state = 1 /\ di[s].count # 0 /\ ~is_routed[NetOf[s]]

(* The host is past the draw command of s. *)
Handled(s) ==
  \/ pc = "series"
  \/ Storing /\ \E d \in 1..(di_index - 1) : order[d] = s

LossesExcused == \A s \in Stubs : Handled(s) /\ Lost(s) => Excused(s)

(* A stub without a site pin has no head, and never a route. *)
SiteLessIdle ==
  \A s \in SiteLess :
    /\ Searching(s) => /\ \A j \in 1..BeamWidth : BeamOf(s)[j] = None
                       /\ item = s => parent = None
    /\ di[s].state = 1 => di[s].count = 0

OrderFixed == order \in Orders

RefusalInv == OrderFixed /\ SiteLessIdle /\ LossesExcused

LEMMA OrderFixedNext == ASSUME OrderFixed, [Next]_vars PROVE OrderFixed'
BY DEF OrderFixed, Next, Host, Kernel, Store, Done, StartRestart, StepAll,
  ReadBack, EndSeries, EndRestart, WriteUnroutedNets, KernelSkip, KernelStart,
  KernelDeadEnd, KernelSuccess, KernelPop, KernelPassPip, KernelAddPip,
  KernelStuck, KernelContinue, KernelSuspend, ExpandedAll, StoreSkip,
  StoreBegin, WalkParent, WalkEnd, StoreRefuse, StoreForward, StoreRoute

LEMMA SiteLessIdleInit == Init => SiteLessIdle
BY NetlistAssumption DEF Init, SiteLessIdle, Searching

LEMMA SiteLessIdleNext ==
  ASSUME KernelInv, SiteLessIdle, [Next]_vars
  PROVE  SiteLessIdle'
<1> USE NoneAssumption
<1> SUFFICES ASSUME NEW s \in SiteLess
             PROVE  /\ Searching(s)' =>
                         /\ \A j \in 1..BeamWidth : BeamOf(s)'[j] = None
                         /\ item' = s => parent' = None
                    /\ di'[s].state = 1 => di'[s].count = 0
  BY DEF SiteLessIdle
<1>1. s \in Stubs
  BY NetlistAssumption
<1>2. item = s => parent = None /\ cur_heads[1] = None
  <2> SUFFICES ASSUME item = s PROVE parent = None /\ cur_heads[1] = None
    OBVIOUS
  <2>1. Searching(s) /\ 1 \in 1..BeamWidth
    BY <1>1, WidthAssumption DEF Searching, KernelInv, Phase
  <2> QED
    BY <2>1 DEF SiteLessIdle, BeamOf
<1>3. ASSUME Searching(s)', NEW j \in 1..BeamWidth
      PROVE  BeamOf(s)'[j] = None
  <2> SUFFICES ASSUME NEW e, e = BeamOf(s)'[j], e # None PROVE FALSE
    OBVIOUS
  <2>1. di'[s].state = 0 /\ pc' \notin {"restart", "done"}
    BY <1>3 DEF Searching
  <2>2. \/ /\ di[s].state = 0 /\ pc \notin {"restart", "done"}
           /\ \E i \in 1..BeamWidth : e = BeamOf(s)[i]
        \/ StartRestart /\ e = FirstBeam(s)[j]
        \/ /\ KernelAddPip /\ s = item
           /\ e = HeadOf(ExpandedPips[pip_i])
    BY <1>1, <2>1, BeamNext DEF KernelInv
  <2>3. FirstBeam(s)[j] = None
    BY DEF FirstBeam
  <2>4. ~(KernelAddPip /\ s = item)
    BY <1>2 DEF KernelAddPip
  <2>5. Searching(s) => \A i \in 1..BeamWidth : BeamOf(s)[i] = None
    BY DEF SiteLessIdle
  <2> QED
    BY <2>2, <2>3, <2>4, <2>5 DEF Searching
<1>4. ASSUME item' = s PROVE parent' = None
  <2>1. CASE item = s
    <3>1. ~KernelPop
      BY <1>2, <2>1 DEF KernelPop
    <3>2. parent' = None \/ parent' = parent
      BY <3>1, StoreKeepsSearches
         DEF Next, Host, StartRestart, StepAll, ReadBack, EndSeries,
         EndRestart, WriteUnroutedNets, Kernel, KernelSkip, KernelStart,
         KernelDeadEnd, KernelSuccess, KernelPassPip, KernelAddPip,
         KernelStuck, KernelContinue, KernelSuspend, IdleItem
    <3> QED
      BY <1>2, <2>1, <3>2
  <2>2. CASE item # s
    <3>1. KernelStart(s)
      BY <1>1, <1>4, <2>2, StoreKeepsSearches
         DEF Next, Host, StartRestart, StepAll, ReadBack, EndSeries,
         EndRestart, WriteUnroutedNets, Kernel, KernelSkip, KernelStart,
         KernelDeadEnd, KernelSuccess, KernelPop, KernelPassPip, KernelAddPip,
         KernelStuck, KernelContinue, KernelSuspend, IdleItem
    <3> QED
      BY <3>1 DEF KernelStart, KernelInv, Phase
  <2> QED
    BY <2>1, <2>2
<1>5. di'[s].state = 1 => di'[s].count = 0
  <2>1. CASE di'[s] = di[s]
    BY <2>1 DEF SiteLessIdle
  <2>2. CASE EndRestart
    BY <1>1, <2>2 DEF EndRestart
  <2>3. CASE s = item /\ (KernelDeadEnd \/ KernelStuck \/ KernelSuspend)
    BY <1>1, <2>3 DEF KernelDeadEnd, KernelStuck, KernelSuspend, Finish,
                      KernelInv, Types
  <2>4. ~(s = item /\ KernelSuccess)
    BY <1>2 DEF KernelSuccess
  <2>5. \/ di'[s] = di[s] \/ EndRestart
        \/ s = item /\ (KernelDeadEnd \/ KernelStuck \/ KernelSuspend)
    <3>1. CASE KernelDeadEnd \/ KernelSuccess \/ KernelStuck \/ KernelSuspend
      BY <1>1, <2>4, <3>1 DEF KernelDeadEnd, KernelSuccess, KernelStuck,
                              KernelSuspend, Finish, KernelInv, Types
    <3>2. CASE ~(KernelDeadEnd \/ KernelSuccess \/ KernelStuck \/ KernelSuspend)
      BY <3>2, StoreKeepsSearches
         DEF Next, Host, StartRestart, StepAll, ReadBack, EndSeries,
         WriteUnroutedNets, Kernel, KernelSkip, KernelStart,
         KernelPop, KernelPassPip, KernelAddPip, KernelContinue
    <3> QED
      BY <3>1, <3>2
  <2> QED
    BY <2>1, <2>2, <2>3, <2>5
<1> QED
  BY <1>3, <1>4, <1>5

(* A step of the host between two kernels changes no history, and an owner *)
(* only where there was none. *)
LEMMA ExcusedStays ==
  ASSUME KernelInv, StoreInv, [Next]_vars, NEW s \in Stubs, Excused(s),
         item = None, di' = di, snaps' = snaps, explored' = explored
  PROVE  Excused(s)'
<1>1. PICK chain \in Seq(Nat) : IsChain(s, chain) /\ Faulty(s, chain)
  BY DEF Excused
<1>2. \A id : HistoryAt(s, id)' = HistoryAt(s, id)
  BY DEF HistoryAt
<1>3. IsChain(s, chain)'
  BY <1>1, <1>2 DEF IsChain
<1>4. ASSUME NEW i \in 1..Len(chain)
      PROVE  HistoryAt(s, chain[i]).pip \in Pips
  <2>1. chain[i] \in 0..(Known(s) - 1)
    BY <1>1, NoneAssumption DEF IsChain, Known
  <2> QED
    BY <2>1, EntryType
<1>5. ASSUME NEW i \in 1..Len(chain)
      PROVE  /\ Blocked(s, Node0[HistoryAt(s, chain[i]).pip])
                  => Blocked(s, Node0[HistoryAt(s, chain[i]).pip])'
             /\ Blocked(s, Node1[HistoryAt(s, chain[i]).pip])
                  => Blocked(s, Node1[HistoryAt(s, chain[i]).pip])'
  <2>1. PICK p \in Pips : p = HistoryAt(s, chain[i]).pip
    BY <1>4
  <2>2. Node0[p] \in Nodes /\ Node1[p] \in Nodes
    BY DeviceAssumption
  <2>3. /\ Blocked(s, Node0[p]) => Blocked(s, Node0[p])'
        /\ Blocked(s, Node1[p]) => Blocked(s, Node1[p])'
    BY <2>2, BlockedStays
  <2>4. HistoryAt(s, chain[i])'.pip = p
    BY <1>2, <2>1
  <2> QED
    BY <2>1, <2>3, <2>4 DEF Blocked
<1>6. Faulty(s, chain)'
  BY <1>1, <1>2, <1>5 DEF Faulty
<1> QED
  BY <1>3, <1>6 DEF Excused

(* The forward pass refuses a route that runs in a loop or into another    *)
(* net: the ids of the walk are the chain that shows it. *)
LEMMA RefusalExcused ==
  ASSUME KernelInv, StoreInv, StoreRefuse
  PROVE  Excused(StubAt)
<1> DEFINE s == StubAt
<1>0. pc = "forward" /\ Walked
  BY DEF StoreRefuse, Walked
<1>1. /\ s \in Stubs /\ di[s].count \in Nat /\ NetAt = NetOf[s]
  BY <1>0, WalkedStub DEF KernelInv, Types, NetAt
<1>2. /\ ids \in Seq(Nat) /\ ids # << >> /\ ri \in 1..Len(ids)
      /\ Walk
  BY <1>0 DEF StoreInv, Walk, Forward
<1>3. ASSUME NEW i \in 1..Len(ids)
      PROVE  /\ ids[i] \in Nat /\ ids[i] < di[s].count
             /\ EntryAt(ids[i]) = HistoryAt(s, ids[i])
             /\ Extends(s, HistoryAt(s, ids[i]), ids[i])
             /\ i = 1 => ids[i] = di[s].count - 1
             /\ i < Len(ids) => ids[i + 1] = HistoryAt(s, ids[i]).parent
  <2>1. /\ ids[i] \in Nat /\ ids[i] < di[s].count
        /\ EntryAt(ids[i]) = HistoryAt(s, ids[i])
        /\ Extends(s, EntryAt(ids[i]), ids[i])
    BY <1>0, <1>2, ChainEntry
  <2>2. /\ i = 1 => ids[i] = di[s].count - 1
        /\ i < Len(ids) => ids[i + 1] = EntryAt(ids[i]).parent
    BY <1>0, <1>2 DEF Walk
  <2> QED
    BY <2>1, <2>2
<1> HIDE DEF s
<1>4. IsChain(s, ids)
  <2>1. \A i \in 1..(Len(ids) - 1) : ids[i + 1] = HistoryAt(s, ids[i]).parent
    BY <1>2, <1>3
  <2>2. \A i \in 1..Len(ids) : ids[i] \in 0..(di[s].count - 1)
    <3> SUFFICES ASSUME NEW i \in 1..Len(ids)
                 PROVE  ids[i] \in 0..(di[s].count - 1)
      OBVIOUS
    <3>1. ids[i] \in Nat /\ ids[i] < di[s].count
      BY <1>3
    <3> QED
      BY <1>1, <3>1
  <2>3. ids[1] = di[s].count - 1
    BY <1>2, <1>3
  <2> QED
    BY <1>2, <2>1, <2>2, <2>3 DEF IsChain
<1>5. \A i \in 1..(Len(ids) - 1) : ids[i + 1] < ids[i]
  <2> SUFFICES ASSUME NEW i \in 1..(Len(ids) - 1) PROVE ids[i + 1] < ids[i]
    OBVIOUS
  <2>1. i \in 1..Len(ids) /\ i + 1 \in 1..Len(ids) /\ i < Len(ids)
    BY <1>2
  <2>2. ids[i] \in Nat /\ ids[i + 1] \in Nat
        /\ ids[i + 1] = HistoryAt(s, ids[i]).parent
        /\ Extends(s, HistoryAt(s, ids[i]), ids[i])
    BY <1>3, <2>1
  <2> QED
    BY <2>2 DEF Extends, NoParent
<1>6. \A i \in 1..Len(ids) : PipAt(i) = HistoryAt(s, ids[i]).pip
  BY <1>3 DEF PipAt
<1>7. CASE Node1[PipAt(ri)] \in seen
  <2>1. PICK i \in (ri + 1)..Len(ids) : Node1[PipAt(i)] = Node1[PipAt(ri)]
    BY <1>0, <1>7 DEF StoreInv, Forward, PassedSeen, Passed
  <2>2. i \in 1..Len(ids) /\ ri \in 1..Len(ids) /\ ri < i
    BY <1>2
  <2>3. ids[i] < ids[ri]
    BY <1>2, <1>5, <2>2, Descends
  <2>4. ids[i] # ids[ri]
    BY <1>3, <2>2, <2>3
  <2>5. Faulty(s, ids)
    BY <1>6, <2>1, <2>2, <2>4 DEF Faulty
  <2> QED
    BY <1>2, <1>4, <2>5 DEF Excused, s
<1>8. CASE Foreign(Node0[PipAt(ri)]) \/ Foreign(Node1[PipAt(ri)])
  <2>1. Blocked(s, Node0[PipAt(ri)]) \/ Blocked(s, Node1[PipAt(ri)])
    BY <1>1, <1>8 DEF Foreign, Blocked
  <2>2. Faulty(s, ids)
    BY <1>2, <1>6, <2>1 DEF Faulty
  <2> QED
    BY <1>2, <1>4, <2>2 DEF Excused, s
<1> QED
  BY <1>7, <1>8 DEF StoreRefuse, Refused

LEMMA LossesExcusedNext ==
  ASSUME KernelInv, StoreInv, OrderFixed, SiteLessIdle, LossesExcused,
         [Next]_vars
  PROVE  LossesExcused'
<1> SUFFICES ASSUME NEW s \in Stubs, Handled(s)', Lost(s)'
             PROVE  Excused(s)'
  BY DEF LossesExcused
<1>1. CASE StartRestart
  <2>1. di[s].count <= CounterMax * Rounds(s) /\ Rounds(s) = 0
        /\ di[s].count \in Nat
    BY <1>1 DEF StartRestart, KernelInv, Counts, Rounds, Storing, Phase, Types
  <2>2. di[s].count = 0
    BY <2>1, SearchAssumption
  <2> QED
    BY <1>1, <2>2 DEF StartRestart, Lost
<1>2. CASE EndSeries
  <2>1. /\ pc = "store" /\ item = None /\ di_index > Len(order)
        /\ Len(order) = Cardinality(Stubs)
    BY <1>2, OrderLength DEF EndSeries, KernelInv, Phase
  <2>2. PICK d \in DOMAIN order : order[d] = s
    BY StubsAssumption DEF OrderFixed
  <2>3. d \in 1..(di_index - 1)
    BY <2>1, <2>2, StubCount DEF KernelInv, Types
  <2>4. Handled(s) /\ Lost(s)
    BY <1>2, <2>1, <2>2, <2>3 DEF EndSeries, Handled, Storing, Lost
  <2>5. Excused(s)
    BY <2>4 DEF LossesExcused
  <2> QED
    BY <1>2, <2>1, <2>5, ExcusedStays DEF EndSeries
<1>3. CASE StepAll \/ EndRestart \/ WriteUnroutedNets \/ Kernel
  <2>1. pc' \in {"kernel", "restart", "done"}
    BY <1>3 DEF StepAll, EndRestart, WriteUnroutedNets, Kernel, KernelSkip,
       KernelStart, KernelDeadEnd, KernelSuccess, KernelPop, KernelPassPip,
       KernelAddPip, KernelStuck, KernelContinue, KernelSuspend, ExpandedAll
  <2> QED
    BY <2>1 DEF Handled, Storing
<1>4. CASE ReadBack
  BY <1>4 DEF ReadBack, Handled
<1>5. ASSUME Store, Handled(s) PROVE Excused(s)'
  <2>1. /\ Storing /\ item = None /\ di' = di /\ snaps' = snaps
        /\ explored' = explored
    BY <1>5, StoreKeepsSearches
       DEF Store, StoreSkip, StoreBegin, WalkParent, WalkEnd, StoreRefuse,
           StoreForward, StoreRoute, Storing, KernelInv, Phase
  <2>2. is_routed[NetOf[s]] => is_routed'[NetOf[s]]
    <3>1. CASE StoreRoute
      <4>1. is_routed' = [is_routed EXCEPT ![NetAt] = TRUE]
            /\ is_routed \in [Nets -> BOOLEAN]
        BY <3>1 DEF StoreRoute, KernelInv, Types
      <4> QED
        BY <4>1, NetlistAssumption
    <3> QED
      BY <3>1, OnlyStoreRoute
  <2>3. Lost(s)
    BY <2>1, <2>2 DEF Lost
  <2>4. Excused(s)
    BY <1>5, <2>3 DEF LossesExcused
  <2> QED
    BY <2>1, <2>4, ExcusedStays
<1>6. ASSUME Store, ~Handled(s) PROVE Excused(s)'
  <2>1. /\ order' = order /\ Storing /\ item = None /\ di' = di
        /\ snaps' = snaps /\ explored' = explored
    BY <1>6, StoreKeepsSearches
       DEF Store, StoreSkip, StoreBegin, WalkParent, WalkEnd, StoreRefuse,
           StoreForward, StoreRoute, Storing, KernelInv, Phase
  <2>2. PICK d \in 1..(di_index' - 1) : order[d] = s
    <3>1. pc' # "series"
      BY <1>6 DEF Store, StoreSkip, StoreBegin, WalkParent, WalkEnd,
                  StoreRefuse, StoreForward, StoreRoute, NextCommand
    <3> QED
      BY <2>1, <3>1 DEF Handled
  <2>3. d \notin 1..(di_index - 1)
    BY <1>6, <2>1, <2>2 DEF Handled
  <2>4. di_index \in Nat
    BY StubCount DEF KernelInv, Types
  <2>5. /\ StoreSkip \/ StoreRefuse \/ StoreRoute
        /\ d = di_index
    <3>1. CASE StoreSkip \/ StoreRefuse \/ StoreRoute
      <4>1. di_index' = di_index + 1
        BY <3>1 DEF StoreSkip, StoreRefuse, StoreRoute, NextCommand
      <4> QED
        BY <2>2, <2>3, <2>4, <3>1, <4>1
    <3>2. CASE StoreBegin \/ WalkParent \/ WalkEnd \/ StoreForward
      <4>1. di_index' = di_index
        BY <3>2 DEF StoreBegin, WalkParent, WalkEnd, StoreForward
      <4> QED
        BY <2>2, <2>3, <4>1
    <3> QED
      BY <1>6, <3>1, <3>2 DEF Store
  <2>6. s = StubAt
    BY <2>2, <2>5 DEF StubAt
  <2>7. CASE StoreSkip
    <3>1. s \notin SiteLess
      BY <2>1 DEF Lost, SiteLessIdle
    <3>2. Storable(s)
      BY <2>1, <2>7, <3>1 DEF StoreSkip, Lost, Storable
    <3> QED
      BY <2>6, <2>7, <3>2 DEF StoreSkip
  <2>8. CASE StoreRefuse
    <3>1. Excused(s)
      BY <2>6, <2>8, RefusalExcused
    <3> QED
      BY <2>1, <3>1, ExcusedStays
  <2>9. CASE StoreRoute
    <3>1. is_routed'[NetAt] /\ NetAt = NetOf[s]
      BY <2>6, <2>9, NetlistAssumption DEF StoreRoute, NetAt, KernelInv, Types
    <3> QED
      BY <3>1 DEF Lost
  <2> QED
    BY <2>5, <2>7, <2>8, <2>9
<1>7. CASE Done \/ UNCHANGED vars
  <2>1. CASE Done
    BY <2>1 DEF Done, Handled, Storing
  <2>2. CASE UNCHANGED vars
    <3>1. Handled(s) /\ Lost(s)
      BY <2>2 DEF Handled, Storing, Lost
    <3>2. Excused(s)
      BY <3>1 DEF LossesExcused
    <3>3. item = None
      BY <3>1 DEF Handled, Storing, KernelInv, Phase
    <3> QED
      BY <2>2, <3>2, <3>3, ExcusedStays
  <2> QED
    BY <1>7, <2>1, <2>2
<1> QED
  BY <1>1, <1>2, <1>3, <1>4, <1>5, <1>6, <1>7 DEF Next, Host

LEMMA RefusalInvInit == Init => RefusalInv
BY SiteLessIdleInit DEF Init, RefusalInv, OrderFixed, LossesExcused, Handled,
                        Storing

LEMMA RefusalsExcused == KernelInv /\ RefusalInv => RefusedForCause
<1> SUFFICES ASSUME KernelInv, RefusalInv, pc = "series", NEW s \in Stubs,
                    di[s].state = 1, di[s].count # 0, ~is_routed[NetOf[s]],
                    NEW route, route = Ancestors(s, di[s].count - 1)
             PROVE  \/ \E i, j \in route :
                         /\ i # j
                         /\ Node1[HistoryAt(s, i).pip] = Node1[HistoryAt(s, j).pip]
                    \/ \E i \in route :
                         \/ Blocked(s, Node0[HistoryAt(s, i).pip])
                         \/ Blocked(s, Node1[HistoryAt(s, i).pip])
  BY DEF RefusedForCause
<1>1. item = None
  BY DEF KernelInv, Phase
<1>2. PICK chain \in Seq(Nat) : IsChain(s, chain) /\ Faulty(s, chain)
  BY DEF RefusalInv, LossesExcused, Handled, Lost, Excused
<1>3. \A i \in 1..Len(chain) : chain[i] \in route
  BY <1>1, <1>2, ChainOfAncestors
<1> QED
  BY <1>2, <1>3 DEF Faulty

(* For every device, netlist and order of the draw commands: when a series *)
(* has been stored, a route that was found and not taken runs in a loop or *)
(* through a node of another net.  The host loses nothing else. *)
THEOREM LossesHaveCauses == Spec => []RefusedForCause
<1>1. KernelInv /\ StoreInv /\ RefusalInv /\ [Next]_vars => RefusalInv'
  BY OrderFixedNext, SiteLessIdleNext, LossesExcusedNext DEF RefusalInv
<1> QED
  BY <1>1, RefusalInvInit, RefusalsExcused, KernelInvariant, StoreInvariant,
     PTL DEF Spec
=============================================================================
