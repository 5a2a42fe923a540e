-------------------------- MODULE TileRouterProofs --------------------------
(***************************************************************************)
(* What the tile-based router keeps for every device, netlist and table.   *)
(*                                                                         *)
(* The argument is that routing only ever gives a slot a net when it has   *)
(* none or has that one (NetsKept): so what was checked when a path was    *)
(* taken, and what was in the way of the paths that were not, stays.       *)
(***************************************************************************)
EXTENDS TileRouter, TLAPS

\* No path is assigned before routing, nor at the slots still to come.
NothingAhead ==
  /\ pc = "block" => at = 0
  /\ \A s \in Slots : (pc = "block" \/ s >= at) => path_ids[s] = NoPath

\* An assigned path is one the scan gave for the slot and its source, and a stub
\* waits only where paths start.
PathsScanned ==
  \A s \in Slots : path_ids[s] # NoPath =>
    /\ net_ids[s].net \in Nets
    /\ net_source[net_ids[s].net] \in Slots
    /\ path_ids[s] \in Scanned(s, net_source[net_ids[s].net])

WaitWhereStartable == \A s \in Slots : net_ids[s].inbox => s \in Startable

Inv == TypeOK /\ NothingAhead /\ PathsScanned /\ WaitWhereStartable

LEMMA SlotsOfPaths ==
  ASSUME NEW s \in Slots, NEW f \in Slots, NEW id \in Scanned(s, f)
  PROVE  id \in Ids /\ PathSlots[Tile[s]][id] \subseteq Slots
<1>1. PICK i \in DOMAIN Scan[s][f] : id = Scan[s][f][i]
  BY DEF Scanned
<1>2. PathSlots[Tile[s]][id] \subseteq Slots
  BY <1>1, TileRouterAssumption
<1>3. id \in Ids
  BY <1>1, TileRouterAssumption
<1> QED
  BY <1>2, <1>3

LEMMA Marks ==
  /\ \A net \in Nets \cup {NoNet} : /\ Used(net) \in [net : Nets \cup {NoNet}, inbox : BOOLEAN]
                                    /\ Used(net).net = net /\ Used(net).inbox = FALSE
  /\ \A net \in Nets : /\ Inbox(net) \in [net : Nets \cup {NoNet}, inbox : BOOLEAN]
                       /\ Inbox(net).net = net /\ Inbox(net).inbox = TRUE
BY DEF Used, Inbox

LEMMA ResourceTypes ==
  ASSUME TypeOK, visited < Len(resources)
  PROVE  /\ Resource.net \in Nets
         /\ Resource.nodes \subseteq Nodes
         /\ Resource.slots \subseteq Slots
         /\ visited + 1 \in 1..Len(resources)
<1>1. resources \in Seq([net : Nets, kind : Kinds, nodes : SUBSET Nodes, slots : SUBSET Slots])
  BY TileRouterAssumption DEF TypeOK
<1>2. visited \in Nat /\ visited + 1 \in 1..Len(resources)
  BY <1>1 DEF TypeOK
<1> DEFINE R == [net : Nets, kind : Kinds, nodes : SUBSET Nodes, slots : SUBSET Slots]
<1>0. resources \in Seq(R) => \A i \in 1..Len(resources) : resources[i] \in R
  <2> HIDE DEF R
  <2> QED OBVIOUS
<1>3. Resource \in R
  <2>1. resources \in Seq(R)
    BY <1>1
  <2> QED
    BY <1>0, <1>2, <2>1 DEF Resource
<1> QED
  BY <1>2, <1>3

\* What the step takes is one of the candidates, and is available.
LEMMA TakenPath ==
  ASSUME Inv, pc = "route", at < SlotCount, Routable(at), NEW id, Takes(at, id)
  PROVE  /\ at \in Slots
         /\ net_ids[at].net \in Nets
         /\ net_source[net_ids[at].net] \in Slots
         /\ id \in Scanned(at, net_source[net_ids[at].net])
         /\ PathSlots[Tile[at]][id] \subseteq Slots
         /\ Available(at, id)
<1>1. at \in Slots
  BY TileRouterAssumption DEF Inv, TypeOK, Slots
<1>2. net_ids[at].net \in Nets
  BY <1>1 DEF Inv, TypeOK, Routable
<1>3. net_source[net_ids[at].net] \in Slots
  BY <1>2 DEF Inv, TypeOK, Routable
<1>4. id \in Scanned(at, net_source[net_ids[at].net]) /\ Available(at, id)
  BY DEF Takes, Candidates, Scanned
<1> QED
  BY <1>1, <1>2, <1>3, <1>4, SlotsOfPaths

\* Routing changes the net of no slot that has one.
LEMMA NetsKept ==
  ASSUME Inv, Assign
  PROVE  \A s \in Slots : /\ net_ids[s].net # NoNet => net_ids'[s].net = net_ids[s].net
                          /\ net_ids'[s].inbox => net_ids'[s] = net_ids[s]
                          /\ s # at => path_ids'[s] = path_ids[s]
<1>1. PICK id \in Ids :
        /\ Takes(at, id)
        /\ path_ids' = [path_ids EXCEPT ![at] = id]
        /\ net_ids' = [s \in Slots |-> IF s = at \/ s \in PathSlots[Tile[at]][id]
                                       THEN Used(net_ids[at].net) ELSE net_ids[s]]
  BY DEF Assign
<1>2. at \in Slots /\ net_ids[at].net \in Nets /\ Available(at, id)
  BY <1>1, TakenPath DEF Assign
<1> SUFFICES ASSUME NEW s \in Slots
             PROVE  /\ net_ids[s].net # NoNet => net_ids'[s].net = net_ids[s].net
                    /\ net_ids'[s].inbox => net_ids'[s] = net_ids[s]
                    /\ s # at => path_ids'[s] = path_ids[s]
  OBVIOUS
<1>3. s # at => path_ids'[s] = path_ids[s]
  BY <1>1 DEF Inv, TypeOK
<1>4. CASE s = at \/ s \in PathSlots[Tile[at]][id]
  <2>1. net_ids'[s] = Used(net_ids[at].net)
    BY <1>1, <1>4
  <2>2. net_ids'[s].net = net_ids[at].net /\ ~net_ids'[s].inbox
    BY <2>1, <1>2, Marks
  <2>3. net_ids[s].net # NoNet => net_ids[s].net = net_ids[at].net
    BY <1>2, <1>4 DEF Available
  <2> QED
    BY <1>3, <2>2, <2>3
<1>5. CASE ~(s = at \/ s \in PathSlots[Tile[at]][id])
  BY <1>1, <1>3, <1>5
<1> QED
  BY <1>4, <1>5

-----------------------------------------------------------------------------

LEMMA InitInv == Init => Inv
<1> SUFFICES ASSUME Init PROVE Inv
  OBVIOUS
<1>1. Free \in [net : Nets \cup {NoNet}, inbox : BOOLEAN] /\ ~Free.inbox
  BY Marks DEF Free
<1>2. SlotCount \in Nat
  BY TileRouterAssumption
<1>3. resources \in Seq([net : Nets, kind : Kinds, nodes : SUBSET Nodes, slots : SUBSET Slots])
  BY TileRouterAssumption DEF Init
<1>4. 0 \in 0..Len(resources) /\ 0 \in 0..SlotCount
  BY <1>2, <1>3
<1>5. TypeOK
  BY <1>1, <1>4 DEF Init, TypeOK
<1>6. NothingAhead /\ PathsScanned
  BY DEF Init, NothingAhead, PathsScanned
<1>7. WaitWhereStartable
  BY <1>1 DEF Init, WaitWhereStartable
<1> QED
  BY <1>5, <1>6, <1>7 DEF Inv

LEMMA BlockSourceInv == Inv /\ BlockSource => Inv'
<1> SUFFICES ASSUME Inv, BlockSource PROVE Inv'
  OBVIOUS
<1> USE DEF Inv
<1>1. PICK n \in Resource.nodes :
        /\ net_ids' = [s \in Slots |-> IF s \in NodeSlots(n) THEN Used(Resource.net)
                                       ELSE net_ids[s]]
        /\ net_source' = [net_source EXCEPT ![Resource.net] = NodeWires[n][Len(NodeWires[n])]]
  BY DEF BlockSource
<1>2. /\ pc = "block" /\ visited < Len(resources)
      /\ visited' = visited + 1 /\ UNCHANGED <<pc, resources, at, path_ids>>
  BY DEF BlockSource, Blocks, Visit
<1>3. Resource.net \in Nets /\ n \in Nodes /\ visited + 1 \in 0..Len(resources)
  BY <1>1, <1>2, ResourceTypes
<1>4. NodeWires[n] # <<>>
  <2>1. Resource.kind = "source" /\ Known(Resource)
    BY DEF BlockSource, Blocks, Resource
  <2>2. PICK k \in Resource.nodes : Resource.nodes = {k} /\ NodeWires[k] # <<>>
    BY <2>1 DEF Known
  <2> QED
    BY <1>1, <2>2
<1>5. NodeWires[n][Len(NodeWires[n])] \in Slots
  BY <1>3, <1>4, TileRouterAssumption
<1>6. \A s \in Slots : net_ids'[s] = Used(Resource.net) \/ net_ids'[s] = net_ids[s]
  BY <1>1
<1>7. net_ids' \in [Slots -> [net : Nets \cup {NoNet}, inbox : BOOLEAN]]
  BY <1>1, <1>3, Marks DEF TypeOK
<1>8. net_source' \in [Nets -> Slots \cup {NoSlot}]
  BY <1>1, <1>5 DEF TypeOK
<1>9. \A s \in Slots : net_ids'[s].inbox => net_ids'[s] = net_ids[s]
  BY <1>3, <1>6, Marks
<1>10. TypeOK'
  BY <1>2, <1>3, <1>7, <1>8, <1>9 DEF TypeOK
<1>11. NothingAhead' /\ PathsScanned'
  BY <1>2 DEF NothingAhead, PathsScanned
<1>12. WaitWhereStartable'
  BY <1>9 DEF WaitWhereStartable
<1> QED
  BY <1>10, <1>11, <1>12

LEMMA WaitsAtStartable == \A s \in Slots : WaitsAt(s) \subseteq Startable
BY DEF WaitsAt, IsFirst

LEMMA BlockStubInv == Inv /\ BlockStub => Inv'
<1> SUFFICES ASSUME Inv, BlockStub PROVE Inv'
  OBVIOUS
<1> USE DEF Inv
<1>1. PICK s \in Resource.slots :
        net_ids' = [u \in Slots |-> IF u \in WaitsAt(s) THEN Inbox(Resource.net) ELSE net_ids[u]]
  BY DEF BlockStub
<1>2. /\ pc = "block" /\ visited < Len(resources)
      /\ visited' = visited + 1 /\ UNCHANGED <<pc, resources, at, path_ids, net_source>>
  BY DEF BlockStub, Blocks, Visit
<1>3. Resource.net \in Nets /\ s \in Slots /\ visited + 1 \in 0..Len(resources)
  BY <1>1, <1>2, ResourceTypes
<1>4. net_ids' \in [Slots -> [net : Nets \cup {NoNet}, inbox : BOOLEAN]]
  BY <1>1, <1>3, Marks DEF TypeOK
<1>5. \A u \in Slots : net_ids'[u].inbox => net_ids'[u].net # NoNet
  BY <1>1, <1>3, Marks, TileRouterAssumption DEF TypeOK
<1>6. TypeOK'
  BY <1>2, <1>3, <1>4, <1>5 DEF TypeOK
<1>7. NothingAhead' /\ PathsScanned'
  BY <1>2 DEF NothingAhead, PathsScanned
<1>8. WaitWhereStartable'
  BY <1>1, <1>3, WaitsAtStartable DEF WaitWhereStartable
<1> QED
  BY <1>6, <1>7, <1>8

LEMMA AssignInv == Inv /\ Assign => Inv'
<1> SUFFICES ASSUME Inv, Assign PROVE Inv'
  OBVIOUS
<1>1. PICK id \in Ids :
        /\ Takes(at, id)
        /\ path_ids' = [path_ids EXCEPT ![at] = id]
        /\ net_ids' = [s \in Slots |-> IF s = at \/ s \in PathSlots[Tile[at]][id]
                                       THEN Used(net_ids[at].net) ELSE net_ids[s]]
  BY DEF Assign
<1>2. /\ at \in Slots /\ net_ids[at].net \in Nets
      /\ net_source[net_ids[at].net] \in Slots
      /\ id \in Scanned(at, net_source[net_ids[at].net])
  BY <1>1, TakenPath DEF Assign
<1>3. pc = "route" /\ at < SlotCount /\ at' = at + 1 /\ UNCHANGED <<pc, resources, visited, net_source>>
  BY DEF Assign, Advance
<1>4. net_ids' \in [Slots -> [net : Nets \cup {NoNet}, inbox : BOOLEAN]]
  BY <1>1, <1>2, Marks DEF Inv, TypeOK
<1>5. path_ids' \in [Slots -> Ids \cup {NoPath}]
  BY <1>1 DEF Inv, TypeOK
<1>6. \A s \in Slots : net_ids'[s].inbox => net_ids'[s] = net_ids[s]
  BY NetsKept
<1>7. at + 1 \in 0..SlotCount
  BY <1>3, TileRouterAssumption DEF Inv, TypeOK
<1>8. TypeOK'
  BY <1>3, <1>4, <1>5, <1>6, <1>7 DEF Inv, TypeOK
<1>9. NothingAhead'
  <2>1. ASSUME NEW s \in Slots, s >= at + 1 PROVE s # at /\ s >= at
    BY <2>1, TileRouterAssumption DEF Inv, TypeOK, Slots
  <2> QED
    BY <1>3, <2>1, NetsKept DEF NothingAhead, Inv
<1>10. PathsScanned'
  <2> SUFFICES ASSUME NEW s \in Slots, path_ids'[s] # NoPath
               PROVE  /\ net_ids'[s].net \in Nets
                      /\ net_source'[net_ids'[s].net] \in Slots
                      /\ path_ids'[s] \in Scanned(s, net_source'[net_ids'[s].net])
    BY DEF PathsScanned
  <2>1. CASE s = at
    <3>1. net_ids'[s] = Used(net_ids[at].net) /\ path_ids'[s] = id
      BY <1>1, <1>2, <2>1 DEF Inv, TypeOK
    <3>2. net_ids'[s].net = net_ids[at].net
      BY <3>1, <1>2, Marks
    <3> QED
      BY <3>1, <3>2, <1>2, <1>3, <2>1
  <2>2. CASE s # at
    <3>1. path_ids'[s] = path_ids[s]
      BY <2>2, NetsKept
    <3>2. net_ids[s].net \in Nets
      BY <3>1 DEF Inv, PathsScanned
    <3>3. net_ids'[s].net = net_ids[s].net
      BY <3>2, NetsKept, TileRouterAssumption
    <3> QED
      BY <3>1, <3>3, <1>3 DEF Inv, PathsScanned
  <2> QED
    BY <2>1, <2>2
<1>11. WaitWhereStartable'
  BY <1>6 DEF Inv, WaitWhereStartable
<1> QED
  BY <1>8, <1>9, <1>10, <1>11 DEF Inv

LEMMA OtherInv ==
  Inv /\ (BlockPip \/ BlockAbort \/ StartRouting \/ Skip \/ Unroutable \/ Return) => Inv'
<1> SUFFICES ASSUME Inv, BlockPip \/ BlockAbort \/ StartRouting \/ Skip \/ Unroutable \/ Return
             PROVE  Inv'
  OBVIOUS
<1>1. UNCHANGED <<resources, net_ids, path_ids, net_source>>
  BY DEF BlockPip, Visit, BlockAbort, StartRouting, Skip, Unroutable, Return, Advance
<1>2. CASE BlockPip
  <2>1. visited < Len(resources) /\ visited' = visited + 1 /\ UNCHANGED <<pc, at>>
    BY <1>2 DEF BlockPip, Blocks, Visit
  <2>2. visited + 1 \in 0..Len(resources)
    BY <2>1, ResourceTypes DEF Inv
  <2> QED
    BY <1>1, <2>1, <2>2 DEF Inv, TypeOK, NothingAhead, PathsScanned, WaitWhereStartable
<1>3. CASE BlockAbort \/ StartRouting \/ Return
  <2>1. /\ UNCHANGED <<visited, at>>
        /\ pc' \in {"aborted", "route", "done"}
        /\ pc = "block" \/ pc = "route"
    BY <1>3 DEF BlockAbort, StartRouting, Return
  <2> QED
    BY <1>1, <2>1 DEF Inv, TypeOK, NothingAhead, PathsScanned, WaitWhereStartable
<1>4. CASE Skip \/ Unroutable
  <2>1. at < SlotCount /\ at' = at + 1 /\ UNCHANGED <<pc, visited>> /\ pc = "route"
    BY <1>4 DEF Skip, Unroutable, Advance
  <2>2. at + 1 \in 0..SlotCount
    BY <2>1, TileRouterAssumption DEF Inv, TypeOK
  <2>3. ASSUME NEW s \in Slots, s >= at + 1 PROVE s >= at
    BY <2>3, TileRouterAssumption DEF Inv, TypeOK, Slots
  <2>4. TypeOK'
    BY <1>1, <2>1, <2>2 DEF Inv, TypeOK
  <2>5. NothingAhead'
    BY <1>1, <2>1, <2>3 DEF Inv, NothingAhead
  <2> QED
    BY <1>1, <2>4, <2>5 DEF Inv, PathsScanned, WaitWhereStartable
<1> QED
  BY <1>2, <1>3, <1>4

LEMMA NextInv == Inv /\ [Next]_vars => Inv'
<1>1. ASSUME Inv, UNCHANGED vars PROVE Inv'
  BY <1>1 DEF vars, Inv, TypeOK, NothingAhead, PathsScanned, WaitWhereStartable
<1> QED
  BY <1>1, BlockSourceInv, BlockStubInv, AssignInv, OtherInv DEF Next, Step, Ended

\* Every variable keeps its type, and what waits waits for a net.
THEOREM TypeCorrect == Spec => []TypeOK
<1>1. Inv => TypeOK
  BY DEF Inv
<1> QED
  BY <1>1, InitInv, NextInv, PTL DEF Spec

LEMMA InvAlways == Spec => []Inv
BY InitInv, NextInv, PTL DEF Spec

-----------------------------------------------------------------------------
(* Paths own their wires *)

LEMMA OwnedByNone == ASSUME NothingAhead, pc = "block" PROVE \A s \in Slots : path_ids[s] = NoPath
BY DEF NothingAhead

LEMMA AssignOwned == Inv /\ PathsOwned /\ Assign => PathsOwned'
<1> SUFFICES ASSUME Inv, PathsOwned, Assign PROVE PathsOwned'
  OBVIOUS
<1>1. PICK id \in Ids :
        /\ Takes(at, id)
        /\ path_ids' = [path_ids EXCEPT ![at] = id]
        /\ net_ids' = [s \in Slots |-> IF s = at \/ s \in PathSlots[Tile[at]][id]
                                       THEN Used(net_ids[at].net) ELSE net_ids[s]]
  BY DEF Assign
<1>2. /\ at \in Slots /\ net_ids[at].net \in Nets /\ Available(at, id)
      /\ PathSlots[Tile[at]][id] \subseteq Slots
      /\ net_ids[at].inbox
  BY <1>1, TakenPath DEF Assign, Routable
<1> SUFFICES ASSUME NEW s \in Slots, path_ids'[s] # NoPath
             PROVE  /\ net_ids'[s].net # NoNet
                    /\ \A u \in PathSlots[Tile[s]][path_ids'[s]] :
                         net_ids'[u] = Used(net_ids'[s].net)
  BY DEF PathsOwned
<1>3. CASE s = at
  <2>1. path_ids'[s] = id /\ net_ids'[s] = Used(net_ids[at].net)
    BY <1>1, <1>2, <1>3 DEF Inv, TypeOK
  <2>2. net_ids'[s].net = net_ids[at].net
    BY <2>1, <1>2, Marks
  <2> QED
    BY <1>1, <1>2, <1>3, <2>1, <2>2, TileRouterAssumption
<1>4. CASE s # at
  <2>1. path_ids'[s] = path_ids[s]
    BY <1>4, NetsKept
  <2>2. /\ net_ids[s].net # NoNet
        /\ \A u \in PathSlots[Tile[s]][path_ids[s]] : net_ids[u] = Used(net_ids[s].net)
    BY <2>1 DEF PathsOwned
  <2>3. net_ids'[s].net = net_ids[s].net
    BY <2>2, NetsKept
  <2>4. net_ids[s].net \in Nets /\ PathSlots[Tile[s]][path_ids[s]] \subseteq Slots
    <3>1. /\ net_ids[s].net \in Nets /\ net_source[net_ids[s].net] \in Slots
          /\ path_ids[s] \in Scanned(s, net_source[net_ids[s].net])
      BY <2>1 DEF Inv, PathsScanned
    <3> QED
      BY <3>1, SlotsOfPaths
  <2>5. ASSUME NEW u \in PathSlots[Tile[s]][path_ids[s]]
        PROVE  net_ids'[u] = Used(net_ids[s].net)
    <3>1. u \in Slots /\ net_ids[u] = Used(net_ids[s].net)
      BY <2>2, <2>4
    <3>2. net_ids[u].net = net_ids[s].net /\ ~net_ids[u].inbox
      BY <3>1, <2>4, Marks
    <3>3. u # at
      BY <1>2, <3>2
    <3>4. CASE u \in PathSlots[Tile[at]][id]
      <4>1. net_ids[at].net = net_ids[s].net
        BY <1>2, <2>2, <3>2, <3>4 DEF Available
      <4> QED
        BY <1>1, <3>1, <3>4, <4>1
    <3>5. CASE u \notin PathSlots[Tile[at]][id]
      BY <1>1, <3>1, <3>3, <3>5
    <3> QED
      BY <3>4, <3>5
  <2> QED
    BY <2>1, <2>2, <2>3, <2>5
<1> QED
  BY <1>3, <1>4

LEMMA OwnedStep == Inv /\ PathsOwned /\ [Next]_vars => PathsOwned'
<1> SUFFICES ASSUME Inv, PathsOwned, [Next]_vars PROVE PathsOwned'
  OBVIOUS
<1>1. CASE BlockSource \/ BlockStub
  <2>1. pc = "block" /\ UNCHANGED path_ids
    BY <1>1 DEF BlockSource, BlockStub, Blocks, Visit
  <2> QED
    BY <2>1, OwnedByNone DEF Inv, PathsOwned
<1>2. CASE Assign
  BY <1>2, AssignOwned
<1>3. CASE UNCHANGED <<net_ids, path_ids>>
  BY <1>3 DEF PathsOwned
<1> QED
  BY <1>1, <1>2, <1>3 DEF Next, Step, Ended, vars, BlockPip, Visit, BlockAbort, StartRouting,
       Skip, Unroutable, Return, Advance

\* The wires of an assigned path stay the net's.
THEOREM AssignedPathsOwned == Spec => []PathsOwned
<1>1. Init => PathsOwned
  BY DEF Init, PathsOwned
<1> QED
  BY <1>1, OwnedStep, InvAlways, PTL DEF Spec

\* Paths assigned for different nets have no wire in common.
THEOREM AssignedPathsDisjoint == Spec => []PathsDisjoint
<1>1. Inv /\ PathsOwned => PathsDisjoint
  <2> SUFFICES ASSUME Inv, PathsOwned, NEW s \in Slots, NEW u \in Slots,
                      path_ids[s] # NoPath, path_ids[u] # NoPath,
                      net_ids[s].net # net_ids[u].net,
                      NEW w \in PathSlots[Tile[s]][path_ids[s]],
                      w \in PathSlots[Tile[u]][path_ids[u]]
               PROVE  FALSE
    BY DEF PathsDisjoint
  <2>1. net_ids[s].net \in Nets /\ net_ids[u].net \in Nets
    BY DEF Inv, PathsScanned
  <2>2. net_ids[w] = Used(net_ids[s].net) /\ net_ids[w] = Used(net_ids[u].net)
    BY DEF PathsOwned
  <2>3. PICK a \in Nets, b \in Nets : a = net_ids[s].net /\ b = net_ids[u].net
    BY <2>1
  <2>4. Used(a) = Used(b) /\ a # b
    BY <2>2, <2>3
  <2>5. Used(a).net = a /\ Used(b).net = b
    BY Marks
  <2> QED
    BY <2>4, <2>5
<1> QED
  BY <1>1, AssignedPathsOwned, InvAlways, PTL

-----------------------------------------------------------------------------
(* What is in the way stays in the way *)

LEMMA RoutableKept ==
  ASSUME Inv, Assign, NEW s \in Slots, Routable(s)'
  PROVE  Routable(s) /\ net_ids'[s] = net_ids[s] /\ s # at
<1>1. net_ids'[s].inbox
  BY DEF Routable
<1>2. net_ids'[s] = net_ids[s]
  BY <1>1, NetsKept
<1>3. UNCHANGED net_source
  BY DEF Assign, Advance
<1>4. s # at
  <2>1. PICK id \in Ids :
        /\ Takes(at, id)
        /\ net_ids' = [u \in Slots |-> IF u = at \/ u \in PathSlots[Tile[at]][id]
                                       THEN Used(net_ids[at].net) ELSE net_ids[u]]
    BY DEF Assign
  <2>2. at \in Slots /\ net_ids[at].net \in Nets
    BY <2>1, TakenPath DEF Assign
  <2>3. net_ids'[at] = Used(net_ids[at].net)
    BY <2>1, <2>2
  <2> QED
    BY <1>1, <2>2, <2>3, Marks
<1> QED
  BY <1>2, <1>3, <1>4 DEF Routable

LEMMA StillInTheWay ==
  ASSUME Inv, Assign, NEW s \in Slots, net_ids[s].net \in Nets, net_ids'[s] = net_ids[s],
         NEW f \in Slots, NEW id \in Scanned(s, f), ~Available(s, id)
  PROVE  ~Available(s, id)'
<1>1. PICK u \in PathSlots[Tile[s]][id] : net_ids[u].net \notin {NoNet, net_ids[s].net}
  BY DEF Available
<1>2. u \in Slots
  BY <1>1, SlotsOfPaths
<1>3. net_ids'[u].net = net_ids[u].net
  BY <1>1, <1>2, NetsKept
<1> QED
  BY <1>1, <1>3 DEF Available

LEMMA UnroutedStep == Inv /\ UnroutedForCause /\ [Next]_vars => UnroutedForCause'
<1> SUFFICES ASSUME Inv, UnroutedForCause, [Next]_vars,
                    NEW s \in Slots, pc' \in {"route", "done"}, s < at', Routable(s)'
             PROVE  /\ path_ids'[s] = NoPath
                    /\ \A i \in DOMAIN Candidates(s)' : ~Available(s, Candidates(s)[i])'
  BY DEF UnroutedForCause
<1>1. CASE Assign
  <2>1. Routable(s) /\ net_ids'[s] = net_ids[s] /\ s # at
    BY <1>1, RoutableKept
  <2>2. pc = "route" /\ at' = at + 1 /\ UNCHANGED net_source
    BY <1>1 DEF Assign, Advance
  <2>3. s < at
    BY <2>1, <2>2 DEF Inv, TypeOK, Slots
  <2>4. /\ path_ids[s] = NoPath
        /\ \A i \in DOMAIN Candidates(s) : ~Available(s, Candidates(s)[i])
    BY <2>1, <2>2, <2>3 DEF UnroutedForCause
  <2>5. path_ids'[s] = NoPath
    BY <1>1, <2>1, <2>4, NetsKept
  <2>6. net_ids[s].net \in Nets /\ net_source[net_ids[s].net] \in Slots
    BY <2>1 DEF Inv, TypeOK, Routable
  <2>7. PICK f \in Slots : f = net_source[net_ids[s].net]
    BY <2>6
  <2>8. Candidates(s) = Scan[s][f] /\ Candidates(s)' = Scan[s][f]
    BY <2>1, <2>2, <2>7 DEF Candidates
  <2>9. ASSUME NEW i \in DOMAIN Scan[s][f] PROVE ~Available(s, Scan[s][f][i])'
    <3>1. PICK id \in Scanned(s, f) : id = Scan[s][f][i]
      BY DEF Scanned
    <3>2. ~Available(s, id)
      BY <2>4, <2>8, <3>1
    <3>3. ~Available(s, id)'
      BY <1>1, <2>1, <2>6, <3>2, StillInTheWay
    <3> QED
      BY <3>1, <3>3
  <2> QED
    BY <2>5, <2>8, <2>9
<1>2. CASE ~Assign
  <2>1. ~(BlockSource \/ BlockStub \/ BlockPip \/ BlockAbort)
    BY DEF BlockSource, BlockStub, BlockPip, BlockAbort, Blocks, Visit
  <2>2. UNCHANGED <<net_ids, path_ids, net_source>>
    BY <1>2, <2>1 DEF Next, Step, Ended, vars, StartRouting, Skip, Unroutable, Return, Advance
  <2>3. Routable(s) /\ Candidates(s)' = Candidates(s)
    BY <2>2 DEF Routable, Candidates
  <2>4. \A id : Available(s, id)' <=> Available(s, id)
    BY <2>2 DEF Available
  <2>5. SUFFICES /\ path_ids[s] = NoPath
                 /\ \A i \in DOMAIN Candidates(s) : ~Available(s, Candidates(s)[i])
    BY <2>2, <2>3, <2>4
  <2>6. CASE pc \in {"route", "done"} /\ s < at
    BY <2>3, <2>6 DEF UnroutedForCause
  <2>7. CASE StartRouting
    BY <2>7, TileRouterAssumption DEF StartRouting, Inv, NothingAhead, Slots
  <2>8. CASE (Skip \/ Unroutable) /\ s = at
    <3>1. Unroutable
      BY <2>3, <2>8 DEF Skip
    <3>2. path_ids[s] = NoPath
      BY <2>8 DEF Inv, TypeOK, NothingAhead, Slots
    <3> QED
      BY <3>1, <3>2, <2>8 DEF Unroutable
  <2>9. CASE (Skip \/ Unroutable) /\ s # at
    <3>1. pc = "route" /\ at' = at + 1
      BY <2>9 DEF Skip, Unroutable, Advance
    <3>2. s < at
      BY <2>9, <3>1 DEF Inv, TypeOK, Slots
    <3> QED
      BY <2>6, <3>1, <3>2
  <2>10. CASE Return \/ Ended \/ UNCHANGED vars
    BY <2>6, <2>10 DEF Return, Ended, vars
  <2> QED
    BY <1>2, <2>1, <2>7, <2>8, <2>9, <2>10 DEF Next, Step
<1> QED
  BY <1>1, <1>2

\* A stub that was left has no path that another net is not in the way of, even
\* after all that was routed behind it.
THEOREM LeftForCause == Spec => []UnroutedForCause
<1>1. Init => UnroutedForCause
  BY DEF Init, UnroutedForCause
<1> QED
  BY <1>1, UnroutedStep, InvAlways, PTL DEF Spec

-----------------------------------------------------------------------------
(* Marks *)

LEMMA ExplainedKept ==
  ASSUME Inv, NEW s, NEW net, Explained(s, net),
         visited' \in {visited, visited + 1}, UNCHANGED resources,
         \A u \in Slots : path_ids[u] # NoPath =>
                            path_ids'[u] = path_ids[u] /\ net_ids'[u].net = net_ids[u].net
  PROVE  Explained(s, net)'
<1>1. 1..visited \subseteq 1..visited'
  BY DEF Inv, TypeOK
<1> QED
  BY <1>1 DEF Explained

LEMMA BlockMarks ==
  ASSUME Inv, MarksExplained, BlockSource \/ BlockStub
  PROVE  MarksExplained'
<1>1. /\ pc = "block" /\ visited < Len(resources)
      /\ visited' = visited + 1 /\ UNCHANGED <<resources, path_ids>>
  BY DEF BlockSource, BlockStub, Blocks, Visit
<1>2. PICK n \in Nets : n = Resource.net
  BY <1>1, ResourceTypes DEF Inv
<1>3. Resource = resources[visited + 1] /\ visited + 1 \in 1..visited'
  BY <1>1 DEF Resource, Inv, TypeOK
<1>4. \A s \in Slots : net_ids'[s] # net_ids[s] => net_ids'[s].net = n /\ Explained(s, n)'
  <2>1. CASE BlockSource
    <3>1. PICK k \in Resource.nodes :
            net_ids' = [s \in Slots |-> IF s \in NodeSlots(k) THEN Used(Resource.net)
                                        ELSE net_ids[s]]
      BY <2>1 DEF BlockSource
    <3>2. Resource.kind = "source"
      BY <2>1 DEF BlockSource, Blocks, Resource
    <3> QED
      BY <1>1, <1>2, <1>3, <3>1, <3>2, Marks DEF Explained
  <2>2. CASE BlockStub
    <3>1. PICK u \in Resource.slots :
            net_ids' = [s \in Slots |-> IF s \in WaitsAt(u) THEN Inbox(Resource.net)
                                        ELSE net_ids[s]]
      BY <2>2 DEF BlockStub
    <3>2. Resource.kind = "stub"
      BY <2>2 DEF BlockStub, Blocks, Resource
    <3> QED
      BY <1>1, <1>2, <1>3, <3>1, <3>2, Marks DEF Explained
  <2> QED
    BY <2>1, <2>2
<1>5. ASSUME NEW s \in Slots, net_ids'[s].net # NoNet PROVE Explained(s, net_ids[s].net)'
  <2>1. PICK net : net = net_ids'[s].net
    OBVIOUS
  <2>2. CASE net_ids'[s] # net_ids[s]
    BY <1>4, <2>1, <2>2
  <2>3. CASE net_ids'[s] = net_ids[s]
    <3>1. Explained(s, net)
      BY <1>5, <2>1, <2>3 DEF MarksExplained
    <3>2. \A u \in Slots : path_ids[u] = NoPath
      BY <1>1, OwnedByNone DEF Inv
    <3>3. Explained(s, net)'
      BY <1>1, <3>1, <3>2, ExplainedKept
    <3> QED
      BY <2>1, <3>3
  <2> QED
    BY <2>2, <2>3
<1> QED
  BY <1>5 DEF MarksExplained

LEMMA AssignMarks == ASSUME Inv, MarksExplained, Assign PROVE MarksExplained'
<1>1. PICK id \in Ids :
        /\ Takes(at, id)
        /\ path_ids' = [path_ids EXCEPT ![at] = id]
        /\ net_ids' = [u \in Slots |-> IF u = at \/ u \in PathSlots[Tile[at]][id]
                                       THEN Used(net_ids[at].net) ELSE net_ids[u]]
  BY DEF Assign
<1>2. /\ at \in Slots /\ net_ids[at].net \in Nets /\ id \in Ids
      /\ PathSlots[Tile[at]][id] \subseteq Slots
  BY <1>1, TakenPath DEF Assign
<1>3. PICK n \in Nets : n = net_ids[at].net
  BY <1>2
<1>4. pc = "route" /\ UNCHANGED <<visited, resources>>
  BY DEF Assign, Advance
<1>5. path_ids[at] = NoPath
  BY <1>2, <1>4 DEF Inv, TypeOK, NothingAhead, Slots
<1>6. \A u \in Slots : path_ids[u] # NoPath =>
         path_ids'[u] = path_ids[u] /\ net_ids'[u].net = net_ids[u].net
  BY <1>5, NetsKept, TileRouterAssumption DEF Inv, PathsScanned
<1>7. path_ids'[at] = id /\ net_ids'[at].net = n /\ id # NoPath
  <2>1. net_ids'[at] = Used(n)
    BY <1>1, <1>2, <1>3
  <2>2. path_ids'[at] = id
    BY <1>1, <1>2 DEF Inv, TypeOK
  <2> QED
    BY <1>2, <2>1, <2>2, Marks, TileRouterAssumption
<1>8. \A s, net : Explained(s, net) => Explained(s, net)'
  <2> TAKE s, net
  <2> QED
    BY <1>4, <1>6, ExplainedKept
<1>9. ASSUME NEW s \in Slots, net_ids'[s].net # NoNet PROVE Explained(s, net_ids[s].net)'
  <2>1. PICK net : net = net_ids'[s].net
    OBVIOUS
  <2>2. CASE s = at
    <3>1. net = n
      BY <1>7, <2>1, <2>2
    <3>2. Explained(s, net)
      BY <1>3, <2>2, <3>1, TileRouterAssumption DEF MarksExplained
    <3> QED
      BY <1>8, <2>1, <3>2
  <2>3. CASE s \in PathSlots[Tile[at]][id]
    <3>1. net = n
      BY <1>1, <1>3, <2>1, <2>3, Marks
    <3>2. Explained(s, n)'
      BY <1>2, <1>7, <2>3 DEF Explained
    <3> QED
      BY <2>1, <3>1, <3>2
  <2>4. CASE s # at /\ s \notin PathSlots[Tile[at]][id]
    <3>1. net_ids'[s] = net_ids[s]
      BY <1>1, <2>4
    <3>2. Explained(s, net)
      BY <1>9, <2>1, <3>1 DEF MarksExplained
    <3> QED
      BY <1>8, <2>1, <3>2
  <2> QED
    BY <2>2, <2>3, <2>4
<1> QED
  BY <1>9 DEF MarksExplained

LEMMA MarksStep == Inv /\ MarksExplained /\ [Next]_vars => MarksExplained'
<1> SUFFICES ASSUME Inv, MarksExplained, [Next]_vars PROVE MarksExplained'
  OBVIOUS
<1>1. CASE BlockSource \/ BlockStub
  BY <1>1, BlockMarks
<1>2. CASE Assign
  BY <1>2, AssignMarks
<1>3. CASE UNCHANGED <<net_ids, path_ids, resources>> /\ visited' \in {visited, visited + 1}
  <2>1. ASSUME NEW s \in Slots, net_ids'[s].net # NoNet PROVE Explained(s, net_ids[s].net)'
    <3>1. PICK net : net = net_ids'[s].net
      OBVIOUS
    <3>2. Explained(s, net)
      BY <1>3, <2>1, <3>1 DEF MarksExplained
    <3>3. Explained(s, net)'
      BY <1>3, <3>2, ExplainedKept
    <3> QED
      BY <3>1, <3>3
  <2> QED
    BY <2>1 DEF MarksExplained
<1> QED
  BY <1>1, <1>2, <1>3 DEF Next, Step, Ended, vars, BlockPip, Visit, BlockAbort, StartRouting,
       Skip, Unroutable, Return, Advance

\* Every marked slot is on a source's node, waits for a stub or is on a path.
THEOREM EveryMarkExplained == Spec => []MarksExplained
<1>1. Init => MarksExplained
  <2>1. \A s \in Slots : Free.net = NoNet
    BY Marks DEF Free
  <2> QED
    BY <2>1 DEF Init, MarksExplained
<1> QED
  BY <1>1, MarksStep, InvAlways, PTL DEF Spec

-----------------------------------------------------------------------------
(* Nets keep their slots *)

SlotsKeptStep == pc = "route" => \A s \in Slots :
  /\ net_ids[s].net # NoNet => net_ids'[s].net = net_ids[s].net
  /\ (net_ids[s].inbox /\ ~net_ids'[s].inbox) => path_ids'[s] # NoPath

LEMMA KeptStep == Inv /\ InnerUnstartable /\ [Next]_vars => SlotsKeptStep
<1> SUFFICES ASSUME Inv, InnerUnstartable, [Next]_vars, pc = "route" PROVE SlotsKeptStep
  BY DEF SlotsKeptStep
<1>1. CASE Assign
  <2>1. PICK id \in Ids :
          /\ Takes(at, id)
          /\ path_ids' = [path_ids EXCEPT ![at] = id]
          /\ net_ids' = [u \in Slots |-> IF u = at \/ u \in PathSlots[Tile[at]][id]
                                         THEN Used(net_ids[at].net) ELSE net_ids[u]]
    BY <1>1 DEF Assign
  <2>2. /\ at \in Slots /\ net_source[net_ids[at].net] \in Slots
        /\ id \in Scanned(at, net_source[net_ids[at].net])
    BY <1>1, <2>1, TakenPath DEF Assign
  <2>3. ASSUME NEW s \in Slots, net_ids[s].inbox, ~net_ids'[s].inbox
        PROVE  path_ids'[s] # NoPath
    <3>1. s \in Startable
      BY <2>3 DEF Inv, WaitWhereStartable
    <3>2. s \notin PathSlots[Tile[at]][id]
      BY <2>2, <3>1 DEF InnerUnstartable
    <3>3. s = at
      BY <2>1, <2>3, <3>2
    <3> QED
      BY <2>1, <3>3, TileRouterAssumption DEF Inv, TypeOK
  <2> QED
    BY <1>1, <2>3, NetsKept DEF SlotsKeptStep
<1>2. CASE UNCHANGED net_ids
  BY <1>2 DEF SlotsKeptStep
<1> QED
  BY <1>1, <1>2 DEF Next, Step, Ended, vars, BlockSource, BlockStub, Blocks, BlockPip, Visit,
       BlockAbort, StartRouting, Skip, Unroutable, Return, Advance

\* From the start of routing a net keeps its slots, and a stub waits until it
\* has a path.
THEOREM RoutingKeepsSlots == ASSUME InnerUnstartable PROVE Spec => SlotsKept
<1>1. Inv /\ [Next]_vars => [SlotsKeptStep]_vars
  BY KeptStep
<1>2. SlotsKept <=> [][SlotsKeptStep]_vars
  BY PTL DEF SlotsKept, SlotsKeptStep
<1> QED
  BY <1>1, <1>2, InvAlways, PTL DEF Spec

-----------------------------------------------------------------------------
(* What is routed was stored *)

\* The path of a stub is one that was stored for its slot and the slot of its
\* source, if the table has a place for the two: whatever was routed since, the
\* net of the slot and the source of this net are those it was looked up for.
THEOREM RoutedFromTable == ASSUME ScansStored PROVE Spec => []RoutedInRange
<1>1. Inv => RoutedInRange
  <2> SUFFICES ASSUME Inv, NEW s \in Slots, path_ids[s] # NoPath,
                      net_source[net_ids[s].net] \in InRange[s]
               PROVE  path_ids[s] \in Stored[s][net_source[net_ids[s].net]]
    BY DEF RoutedInRange
  <2>1. PICK f : f = net_source[net_ids[s].net]
    OBVIOUS
  <2>2. f \in Slots /\ path_ids[s] \in Scanned(s, f)
    BY <2>1 DEF Inv, PathsScanned
  <2> QED
    BY <2>1, <2>2 DEF ScansStored
<1> QED
  BY <1>1, InvAlways, PTL
=============================================================================
