---------------------------- MODULE MCNodeRouter ----------------------------
(***************************************************************************)
(* Two small devices for NodeRouter.                                       *)
(*                                                                         *)
(* Conflict: nets A and B prefer the same node m, net C has two stubs and  *)
(* wants v like B; a static net G has no stub and blocks some nodes.       *)
(*                                                                         *)
(* Maze: one stub, a graph with cycles and dead ends, and any of its inner *)
(* nodes blocked; a second stub has no site pin.                           *)
(***************************************************************************)
EXTENDS NodeRouter, TLC

(* A device from the list of its pips, which is in pip_body order. *)
PipsOf(list) == {list[i] : i \in DOMAIN list}
FirstNode(list) == [p \in PipsOf(list) |-> p[1]]
SecondNode(list) == [p \in PipsOf(list) |-> p[2]]
Leaving(list, from) == SelectSeq(list, LAMBDA p : p[1] \in from)
NodesIn(list) == {p[1] : p \in PipsOf(list)} \cup {p[2] : p \in PipsOf(list)}
OutOf(list) == [x \in NodesIn(list) |-> Leaving(list, {x})]

(* Owners: the pins of the nets, and a set of nodes blocked by net G. *)
Owners(list, pins, blocked) ==
  [x \in NodesIn(list) |-> IF x \in DOMAIN pins THEN pins[x]
                           ELSE IF x \in blocked THEN "G" ELSE None]

-----------------------------------------------------------------------------
ConflictList ==
  << <<"a", "m">>, <<"a", "u">>, <<"b", "v">>, <<"b", "m">>, <<"c", "v">>,
     <<"c", "w">>, <<"m", "p">>, <<"m", "q">>, <<"u", "p">>, <<"u", "m">>,
     <<"v", "q">>, <<"v", "z">>, <<"w", "z">>, <<"w", "t">>, <<"p", "x">>,
     <<"p", "m">>, <<"q", "y">>, <<"q", "u">> >>

ConflictPips == PipsOf(ConflictList)
ConflictNodes == NodesIn(ConflictList)
ConflictNode0 == FirstNode(ConflictList)
ConflictNode1 == SecondNode(ConflictList)
ConflictOut == OutOf(ConflictList)
ConflictNets == {"A", "B", "C", "G"}
ConflictSources == ("A" :> {"a"}) @@ ("B" :> {"b"}) @@ ("C" :> {"c"})
                     @@ ("G" :> {})
ConflictSourcePips ==
  [n \in ConflictNets |-> Leaving(ConflictList, ConflictSources[n])]
ConflictStubs == {"Ax", "By", "Cz", "Ct"}
ConflictNetOf == ("Ax" :> "A") @@ ("By" :> "B") @@ ("Cz" :> "C")
                   @@ ("Ct" :> "C")
ConflictStubNode == ("Ax" :> "x") @@ ("By" :> "y") @@ ("Cz" :> "z")
                      @@ ("Ct" :> "t")
ConflictBias ==
  [s \in ConflictStubs |-> [p \in ConflictPips |->
     IF p[2] = ConflictStubNode[s] THEN 0
     ELSE IF p[2] \in {"p", "q"} THEN 2
     ELSE IF p[2] = "m" THEN 3 ELSE 4]]

(* Each thread of make_vecs gets its range of stubs with a fetch_add, so   *)
(* the nets come in any order; the stubs of a net stay together. *)
ConflictOrders ==
  { << "Ax", "By", "Cz", "Ct" >>, << "By", "Ax", "Cz", "Ct" >>,
    << "Cz", "Ct", "By", "Ax" >>, << "By", "Cz", "Ct", "Ax" >> }

ConflictPins ==
  ("a" :> "A") @@ ("x" :> "A") @@ ("b" :> "B") @@ ("y" :> "B")
    @@ ("c" :> "C") @@ ("z" :> "C") @@ ("t" :> "C")

ConflictInputs ==
  {Owners(ConflictList, ConflictPins, blocked) :
     blocked \in SUBSET {"m", "u", "v", "q"}}

-----------------------------------------------------------------------------
MazeList ==
  << <<"a", "m">>, <<"a", "u">>, <<"a", "v">>, <<"m", "p">>, <<"m", "u">>,
     <<"u", "p">>, <<"u", "v">>, <<"v", "q">>, <<"p", "q">>, <<"p", "r">>,
     <<"q", "m">>, <<"q", "r">>, <<"r", "x">>, <<"r", "p">> >>

MazePips == PipsOf(MazeList)
MazeNodes == NodesIn(MazeList)
MazeNode0 == FirstNode(MazeList)
MazeNode1 == SecondNode(MazeList)
MazeOut == OutOf(MazeList)
MazeNets == {"A", "B", "G"}
MazeSources == ("A" :> {"a"}) @@ ("B" :> {}) @@ ("G" :> {})
MazeSourcePips == [n \in MazeNets |-> Leaving(MazeList, MazeSources[n])]
MazeStubs == {"Ax", "B0"}
MazeSiteLess == {"B0"}
MazeNetOf == ("Ax" :> "A") @@ ("B0" :> "B")
MazeStubNode == ("Ax" :> "x") @@ ("B0" :> "a")
MazeBias ==
  [s \in MazeStubs |-> [p \in MazePips |->
     IF p[2] = "x" THEN 0 ELSE IF p[2] = "r" THEN 8
     ELSE IF p[2] \in {"p", "q"} THEN 4 ELSE 6]]
MazeOrders == { << "Ax", "B0" >>, << "B0", "Ax" >> }
MazePins == ("a" :> "A") @@ ("x" :> "A")
MazeInputs ==
  {Owners(MazeList, MazePins, blocked) :
     blocked \in SUBSET {"m", "u", "v", "p", "q", "r"}}

-----------------------------------------------------------------------------
(* The insertion loop of the kernel as it is written: <<slots, item>> after *)
(* slot j. *)
Loop(slots, h) ==
  LET run[j \in 0..InsertWidth] ==
        IF j = 0 THEN << slots, h >>
        ELSE LET at == run[j - 1][1][j]
                 head == run[j - 1][2]
             IN  IF Less(head, at)
                 THEN << [run[j - 1][1] EXCEPT ![j] = head], at >>
                 ELSE run[j - 1]
  IN  run[InsertWidth]

(* Insert and Overflow are what the insertion loop computes, for every head *)
(* and every beam of heads of three costs, with or without holes. *)
SomeHeads(of) == [id : of, cost : 0..2]
ASSUME InsertIsTheLoop ==
  \A beam \in [1..BeamWidth -> SomeHeads({"old"}) \cup {None}], h \in SomeHeads({"new"}) :
    << Insert(beam, h), Overflow(beam, h) >> = Loop(beam, h)
=============================================================================
