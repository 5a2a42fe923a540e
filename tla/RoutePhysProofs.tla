-------------------------- MODULE RoutePhysProofs --------------------------
(***************************************************************************)
(* The sequential router, for every device and netlist that satisfies the  *)
(* assumptions of RoutePhys, and the making of the files it searches, for  *)
(* every device that satisfies those of RenumberedWires.                   *)
(*                                                                         *)
(* The pips appended for a net form a forest below its sources, because a  *)
(* pip is appended only into a node not used before; so the walk back from *)
(* the stubs collects a tree, over nodes that no other net has stored.     *)
(***************************************************************************)
EXTENDS RoutePhys, RenumberedWires, FiniteSetTheorems, WellFoundedInduction, TLAPS

(* A set of numbers that is not empty has a least one. *)
LEMMA Least ==
  ASSUME NEW T, T \subseteq Nat, T # {}
  PROVE  \E x \in T : \A y \in T : x <= y
<1>1. \E x \in T : \A y \in T : ~(<<y, x>> \in OpToRel(<, Nat))
  BY NatLessThanWellFounded, WFMin, Zenon
<1>2. PICK x \in T : \A y \in T : ~(<<y, x>> \in OpToRel(<, Nat))
  BY <1>1
<1>3. ASSUME NEW y \in T PROVE x <= y
  <2>1. <<y, x>> \in Nat \X Nat
    OBVIOUS
  <2>2. ~(y < x)
    BY <1>2, <2>1 DEF OpToRel
  <2> QED
    BY <2>2
<1> QED
  BY <1>3

-----------------------------------------------------------------------------
(* What holds besides the properties. *)

(* Every net read so far has the nodes of its pins and pips; a node that   *)
(* has an owner is there for a reason. *)
Reserved ==
  /\ pc = "block" => \A x \in Nodes : stored_nodes_nets[x] # None =>
                       x \in input.resources[stored_nodes_nets[x]]
  /\ pc # "abort" => \A n \in Nets : (pc = "block" => n < net) =>
                       \A x \in input.resources[n] : stored_nodes_nets[x] = n

AtNet == InSearch => net \in Nets /\ Routes(net)

SearchSets ==
  InSearch =>
    /\ used_pips = {Id[p] : p \in appended}
    /\ used_nodes = Sources[net] \cup {NodeOut[p] : p \in appended}
    /\ alt_route_options \subseteq appended
    /\ pip_stubs \subseteq appended
    /\ \A p \in appended : ~is_pip_stored(net, p)

StubsFound ==
  InSearch =>
    /\ sources \subseteq Sources[net]
    /\ stubs \subseteq StubNodes[net]
    /\ {NodeOut[p] : p \in pip_stubs} = StubNodes[net] \ stubs
    /\ pc = "walk" <=> stubs = {}
    /\ pc = "search" => sources = {}

(* Every node used is expanded, or waits: as a source or in the queue. *)
Covered ==
  pc \in {"sources", "search"} =>
    /\ \A p \in appended \ alt_route_options : NodeOut[p] \notin stubs
    /\ \A p \in Pips :
         NodeIn[p] \in used_nodes /\ ~is_pip_stored(net, p) =>
           \/ NodeOut[p] \in used_nodes
           \/ NodeIn[p] \in sources
           \/ \E q \in alt_route_options : NodeOut[q] = NodeIn[p]

Walked == {b[2] : b \in route_ids}

(* The walk back is closed, but for the pips it has yet to process; each   *)
(* pip it met found a stub or leads to one it met before. *)
WalkInv ==
  pc = "walk" =>
    /\ pips_to_process \subseteq appended
    /\ \A b \in route_ids :
         /\ b[2] \in appended
         /\ b[1] = Previous(b[2])
         /\ b[1] = Root \/ b[1] \in pips_to_process \/ b[1] \in Walked
    /\ pip_stubs \subseteq pips_to_process \cup Walked
    /\ \A p \in pips_to_process \cup Walked :
         p \in pip_stubs \/ \E b \in route_ids : b[1] = p

(* The nets that are not reached are not written yet. *)
Unwritten ==
  \A n \in Nets : pc = "block" \/ n >= net => phys_nets[n] = NoNet

RouteInv ==
  /\ TypeOK /\ AbortForCause /\ Reserved /\ AtNet
  /\ SearchSets /\ SearchForest /\ StubsFound /\ Covered
  /\ WalkInv /\ Unwritten /\ OutputWhole

-----------------------------------------------------------------------------
(* Lemmas about the operators of the search. *)

LEMMA DirectionsDiffer ==
  ASSUME NEW p \in Pips, NEW q \in Pips, Id[p] = Id[q], p # q
  PROVE  NodeIn[p] = NodeOut[q] /\ NodeOut[p] = NodeIn[q]
BY DeviceAssumption

LEMMA FutureCostType ==
  ASSUME NEW x \in Nodes, NEW nodes \in SUBSET Nodes, nodes # {}
  PROVE  FutureCost(x, nodes) \in Costs
<1> DEFINE far == {Dist[x][y] : y \in nodes}
<1>1. far \in SUBSET Nat /\ far # {}
  BY DeviceAssumption
<1>2. \E d \in far : \A e \in far : d <= e
  <2> HIDE DEF far
  <2> QED
    BY <1>1, Least
<1>3. \E d \in far : \A y \in nodes : d <= Dist[x][y]
  BY <1>2
<1>4. (CHOOSE d \in far : \A y \in nodes : d <= Dist[x][y]) \in far
  BY <1>3
<1>5. (CHOOSE d \in far : \A y \in nodes : d <= Dist[x][y]) \in Nat
  <2> HIDE DEF far
  <2> QED
    BY <1>1, <1>4
<1>6. \A d \in Nat : d % CostLimit \in Costs
  BY BoundAssumption DEF Costs
<1> QED
  BY <1>5, <1>6 DEF FutureCost

(* What add_node_pips adds at one node: unused pips, one into each node    *)
(* that some unused pip drives. *)
LEMMA AddedPips ==
  ASSUME NEW x \in Nodes
  PROVE  /\ \A p \in Added(x) : p \in Pips /\ NodeIn[p] = x /\ Unused(p)
         /\ \A p, q \in Added(x) : NodeOut[p] = NodeOut[q] => p = q
         /\ \A p \in Pips : NodeIn[p] = x /\ Unused(p) =>
              \E q \in Added(x) : NodeOut[q] = NodeOut[p]
<1> DEFINE pip == NodeToPips[x]
           First(i) == /\ Unused(pip[i])
                       /\ \A j \in 1..(i - 1) :
                            Unused(pip[j]) => NodeOut[pip[j]] # NodeOut[pip[i]]
<1>1. pip \in Seq(Pips) /\ DOMAIN pip = 1..Len(pip) /\ Len(pip) \in Nat
  BY DeviceAssumption
<1>2. \A i \in DOMAIN pip : pip[i] \in Pips /\ NodeIn[pip[i]] = x
  BY <1>1, DeviceAssumption
<1>3. Added(x) = {pip[i] : i \in {i \in DOMAIN pip : First(i)}}
  BY DEF Added
<1>4. \A p \in Added(x) : \E i \in DOMAIN pip : p = pip[i] /\ First(i)
  BY <1>3
<1>5. \A i \in DOMAIN pip : First(i) => pip[i] \in Added(x)
  BY <1>3
<1>6. \A p, q \in Added(x) : NodeOut[p] = NodeOut[q] => p = q
  <2> SUFFICES ASSUME NEW p \in Added(x), NEW q \in Added(x),
                      NodeOut[p] = NodeOut[q]
               PROVE  p = q
    OBVIOUS
  <2>1. PICK i \in DOMAIN pip : p = pip[i] /\ First(i)
    BY <1>4
  <2>2. PICK j \in DOMAIN pip : q = pip[j] /\ First(j)
    BY <1>4
  <2>3. i \in 1..Len(pip) /\ j \in 1..Len(pip)
    BY <1>1
  <2>4. ~(i < j) /\ ~(j < i)
    BY <1>1, <2>1, <2>2, <2>3
  <2> QED
    BY <1>1, <2>1, <2>2, <2>3, <2>4
<1>7. ASSUME NEW p \in Pips, NodeIn[p] = x, Unused(p)
      PROVE  \E q \in Added(x) : NodeOut[q] = NodeOut[p]
  <2> DEFINE same == {i \in DOMAIN pip :
                        Unused(pip[i]) /\ NodeOut[pip[i]] = NodeOut[p]}
  <2>1. PICK k \in DOMAIN pip : pip[k] = p
    BY <1>7, DeviceAssumption
  <2>2. same \in SUBSET Nat /\ same # {}
    BY <1>1, <1>7, <2>1
  <2>3. \E i \in same : \A j \in same : i <= j
    <3> HIDE DEF same
    <3> QED
      BY <2>2, Least
  <2>4. PICK i \in same : \A j \in same : i <= j
    BY <2>3
  <2>5. i \in 1..Len(pip) /\ Unused(pip[i]) /\ NodeOut[pip[i]] = NodeOut[p]
    BY <1>1, <2>4
  <2>6. \A j \in 1..(i - 1) : Unused(pip[j]) => NodeOut[pip[j]] # NodeOut[pip[i]]
    <3> SUFFICES ASSUME NEW j \in 1..(i - 1), Unused(pip[j]),
                        NodeOut[pip[j]] = NodeOut[pip[i]]
                 PROVE  FALSE
      OBVIOUS
    <3>1. j \in DOMAIN pip /\ j < i
      BY <1>1, <2>5
    <3>2. j \in same
      BY <2>5, <3>1
    <3> QED
      BY <1>1, <2>4, <2>5, <3>1, <3>2
  <2>7. pip[i] \in Added(x)
    BY <1>1, <1>5, <2>5, <2>6
  <2> QED
    BY <2>5, <2>7
<1>8. \A p \in Added(x) : p \in Pips /\ NodeIn[p] = x /\ Unused(p)
  BY <1>2, <1>4
<1> QED
  BY <1>6, <1>7, <1>8

(* A forest stays one when pips from a used node into fresh nodes join it. *)
LEMMA ForestGrows ==
  ASSUME NEW old \in SUBSET Pips, NoCycle(old),
         NEW new \in SUBSET Pips, NEW x, NEW used,
         \A p \in old : NodeIn[p] \in used,
         x \in used,
         \A p \in new : NodeIn[p] = x /\ NodeOut[p] \notin used
  PROVE  NoCycle(old \cup new)
<1> SUFFICES ASSUME NEW some \in SUBSET (old \cup new), some # {}
             PROVE  \E p \in some : \A q \in some : NodeOut[q] # NodeIn[p]
  BY DEF NoCycle
<1>1. CASE some \cap old # {}
  <2>1. some \cap old \in SUBSET old
    OBVIOUS
  <2>2. PICK p \in some \cap old :
          \A q \in some \cap old : NodeOut[q] # NodeIn[p]
    BY <1>1, <2>1 DEF NoCycle
  <2> QED
    BY <2>2
<1>2. CASE some \cap old = {}
  BY <1>2
<1> QED
  BY <1>1, <1>2

(* In a forest, a pip is appended in one of its directions only. *)
LEMMA IdsDiffer ==
  ASSUME SearchForest, InSearch, appended \subseteq Pips
  PROVE  \A p, q \in appended : Id[p] = Id[q] => p = q
<1> SUFFICES ASSUME NEW p \in appended, NEW q \in appended,
                    Id[p] = Id[q], p # q
             PROVE  FALSE
  OBVIOUS
<1>1. NodeIn[p] = NodeOut[q] /\ NodeOut[p] = NodeIn[q]
  BY DirectionsDiffer
<1>2. {p, q} \in SUBSET appended /\ {p, q} # {}
  OBVIOUS
<1>3. \E r \in {p, q} : \A s \in {p, q} : NodeOut[s] # NodeIn[r]
  BY <1>2 DEF SearchForest, NoCycle
<1> QED
  BY <1>1, <1>3

(* What add_node_pips does to the search, whoever calls it. *)
LEMMA AddNodePipsStep ==
  ASSUME TypeOK, AtNet, SearchSets, SearchForest,
         pc \in {"sources", "search"},
         NEW x \in used_nodes, NEW parent,
         \/ parent = Root /\ x \in Sources[net]
         \/ parent \in appended /\ NodeOut[parent] = x,
         NEW queue, queue \subseteq appended,
         NEW nodes \in SUBSET Nodes, nodes # {},
         AddNodePips(x, parent, queue, nodes),
         UNCHANGED <<pc, net, stored_nodes_nets>>
  PROVE  /\ route_storage' \in [Ids -> Route_Info]
         /\ used_nodes' \subseteq Nodes /\ used_pips' \subseteq Ids
         /\ appended' \subseteq Pips /\ appended \subseteq appended'
         /\ used_nodes \subseteq used_nodes'
         /\ alt_route_options' \subseteq appended'
         /\ alt_route_options' = queue \cup (appended' \ appended)
         /\ used_pips' = {Id[p] : p \in appended'}
         /\ used_nodes' = Sources[net] \cup {NodeOut[p] : p \in appended'}
         /\ \A p \in appended' : ~is_pip_stored(net, p)
         /\ SearchForest'
         /\ \A p \in appended :
              route_storage'[Id[p]] = route_storage[Id[p]]
         /\ \A p \in Pips : NodeIn[p] = x /\ ~is_pip_stored(net, p) =>
              NodeOut[p] \in used_nodes'
<1> DEFINE new == Added(x)
<1>1. /\ InSearch /\ InSearch' /\ x \in Nodes /\ net \in Nets
      /\ appended \subseteq Pips /\ used_nodes \subseteq Nodes
      /\ route_storage \in [Ids -> Route_Info]
  BY DEF InSearch, AtNet, TypeOK
<1>2. /\ used_pips = {Id[p] : p \in appended}
      /\ used_nodes = Sources[net] \cup {NodeOut[p] : p \in appended}
      /\ \A p \in appended : ~is_pip_stored(net, p)
  BY <1>1 DEF SearchSets
<1>3. /\ \A p \in new : /\ p \in Pips /\ NodeIn[p] = x
                        /\ ~is_pip_stored(net, p)
                        /\ Id[p] \notin used_pips
                        /\ NodeOut[p] \notin used_nodes
      /\ \A p, q \in new : NodeOut[p] = NodeOut[q] => p = q
      /\ \A p \in Pips : NodeIn[p] = x /\ Unused(p) =>
           \E q \in new : NodeOut[q] = NodeOut[p]
  BY <1>1, AddedPips DEF Unused
<1>4. parent \notin appended \/ ~is_pip_stored(net, parent)
  BY <1>2
<1>5. parent # Root /\ is_pip_stored(net, parent) => FALSE
  BY <1>4
<1>6. /\ route_storage' =
           [i \in Ids |->
              IF \E p \in new : Id[p] = i
              THEN Info(CHOOSE p \in new : Id[p] = i, parent, nodes)
              ELSE route_storage[i]]
      /\ alt_route_options' = queue \cup new
      /\ used_nodes' = used_nodes \cup {NodeOut[p] : p \in new}
      /\ used_pips' = used_pips \cup {Id[p] : p \in new}
      /\ appended' = appended \cup new
  BY <1>5 DEF AddNodePips
<1>7. \A p, q \in new : Id[p] = Id[q] => p = q
  BY <1>3, DirectionsDiffer
<1>8. \A p \in new : (CHOOSE q \in new : Id[q] = Id[p]) = p
  BY <1>7
<1>9. \A p \in Pips : Id[p] \in Ids
  BY DEF Ids
<1> HIDE DEF new
<1>10. \A p \in new : route_storage'[Id[p]] = Info(p, parent, nodes)
  BY <1>3, <1>6, <1>8, <1>9
<1>11. \A p \in appended : route_storage'[Id[p]] = route_storage[Id[p]]
  BY <1>1, <1>2, <1>3, <1>6, <1>9
<1>12. \A p \in Pips : Info(p, parent, nodes) \in Route_Info
  <2> SUFFICES ASSUME NEW p \in Pips
               PROVE  Info(p, parent, nodes) \in Route_Info
    OBVIOUS
  <2>1. NodeOut[p] \in Nodes
    BY DeviceAssumption
  <2>2. FutureCost(NodeOut[p], nodes) \in Costs
    BY <2>1, FutureCostType
  <2>3. parent \in Pips \cup {Root}
    BY <1>1
  <2>4. 0 \in Costs
    BY BoundAssumption DEF Costs
  <2>5. CASE parent = Root
    BY <2>2, <2>3, <2>4, <2>5 DEF Info, Route_Info
  <2>6. CASE parent # Root
    <3>1. parent \in Pips
      BY <2>3, <2>6
    <3>2. route_storage[Id[parent]].past_cost \in Nat
      BY <1>1, <1>9, <3>1, BoundAssumption DEF Route_Info, Costs
    <3>3. (route_storage[Id[parent]].past_cost + 1) % CostLimit \in Costs
      BY <3>2, BoundAssumption DEF Costs
    <3> QED
      BY <2>2, <2>3, <2>6, <3>3 DEF Info, Route_Info
  <2> QED
    BY <2>5, <2>6
<1>13. route_storage' \in [Ids -> Route_Info]
  <2>1. \A i \in Ids : route_storage'[i] \in Route_Info
    <3> SUFFICES ASSUME NEW i \in Ids PROVE route_storage'[i] \in Route_Info
      OBVIOUS
    <3>1. CASE \E p \in new : Id[p] = i
      <4>1. PICK p \in new : Id[p] = i
        BY <3>1
      <4> QED
        BY <1>3, <1>10, <1>12, <4>1
    <3>2. CASE ~ \E p \in new : Id[p] = i
      BY <1>1, <1>6, <3>2
    <3> QED
      BY <3>1, <3>2
  <2>2. route_storage' = [i \in Ids |-> route_storage'[i]]
    BY <1>6
  <2> QED
    BY <2>1, <2>2
<1>14. /\ used_nodes' \subseteq Nodes /\ used_pips' \subseteq Ids
       /\ appended' \subseteq Pips /\ appended \subseteq appended'
       /\ used_nodes \subseteq used_nodes'
  BY <1>1, <1>2, <1>3, <1>6, <1>9, DeviceAssumption
<1>15. new \cap appended = {}
  BY <1>2, <1>3
<1>16. /\ alt_route_options' \subseteq appended'
       /\ alt_route_options' = queue \cup (appended' \ appended)
  BY <1>6, <1>15
<1>17. /\ used_pips' = {Id[p] : p \in appended'}
       /\ used_nodes' = Sources[net] \cup {NodeOut[p] : p \in appended'}
       /\ \A p \in appended' : ~is_pip_stored(net, p)
  BY <1>2, <1>3, <1>6
<1>18. SearchForest'
  <2>1. /\ \A p \in appended :
             /\ \/ Previous(p) = Root /\ NodeIn[p] \in Sources[net]
                \/ /\ Previous(p) \in appended
                   /\ NodeOut[Previous(p)] = NodeIn[p]
             /\ NodeOut[p] \notin Sources[net]
        /\ \A p, q \in appended : NodeOut[p] = NodeOut[q] => p = q
        /\ NoCycle(appended)
    BY <1>1 DEF SearchForest
  <2>2. \A p \in appended : Previous(p)' = Previous(p)
    BY <1>11 DEF Previous
  <2>3. \A p \in new : Previous(p)' = parent
    <3>1. \A p \in new : Info(p, parent, nodes).previous = parent
      BY DEF Info
    <3> QED
      BY <1>10, <3>1 DEF Previous
  <2>4. \A p \in appended' :
          /\ \/ Previous(p)' = Root /\ NodeIn[p] \in Sources[net]
             \/ /\ Previous(p)' \in appended'
                /\ NodeOut[Previous(p)'] = NodeIn[p]
          /\ NodeOut[p] \notin Sources[net]
    <3> SUFFICES ASSUME NEW p \in appended'
                 PROVE  /\ \/ Previous(p)' = Root /\ NodeIn[p] \in Sources[net]
                           \/ /\ Previous(p)' \in appended'
                              /\ NodeOut[Previous(p)'] = NodeIn[p]
                        /\ NodeOut[p] \notin Sources[net]
      OBVIOUS
    <3>1. CASE p \in appended
      BY <1>6, <2>1, <2>2, <3>1
    <3>2. CASE p \in new
      BY <1>2, <1>3, <1>6, <2>3, <3>2
    <3> QED
      BY <1>6, <3>1, <3>2
  <2>5. \A p, q \in appended' : NodeOut[p] = NodeOut[q] => p = q
    BY <1>2, <1>3, <1>6, <2>1
  <2>6. \A p \in appended : NodeIn[p] \in used_nodes
    BY <1>2, <2>1
  <2>7. NoCycle(appended')
    BY <1>1, <1>3, <1>6, <2>1, <2>6, ForestGrows
  <2> QED
    BY <2>4, <2>5, <2>7 DEF SearchForest, Previous, NoCycle
<1>19. \A p \in Pips : NodeIn[p] = x /\ ~is_pip_stored(net, p) =>
         NodeOut[p] \in used_nodes'
  <2> SUFFICES ASSUME NEW p \in Pips, NodeIn[p] = x, ~is_pip_stored(net, p)
               PROVE  NodeOut[p] \in used_nodes'
    OBVIOUS
  <2>1. CASE Unused(p)
    BY <1>3, <1>6, <2>1
  <2>2. CASE NodeOut[p] \in used_nodes
    BY <1>6, <2>2
  <2>3. CASE Id[p] \in used_pips
    <3>1. PICK q \in appended : Id[q] = Id[p]
      BY <1>2, <2>3
    <3>2. CASE q = p
      BY <1>2, <1>6, <3>2
    <3>3. CASE q # p
      <4>1. NodeOut[p] = NodeIn[q]
        BY <1>1, <3>1, <3>3, DirectionsDiffer
      <4>2. NodeIn[q] \in used_nodes
        BY <1>1, <1>2 DEF SearchForest
      <4> QED
        BY <1>6, <4>1, <4>2
    <3> QED
      BY <3>2, <3>3
  <2> QED
    BY <2>1, <2>2, <2>3 DEF Unused
<1> QED
  BY <1>11, <1>13, <1>14, <1>16, <1>17, <1>18, <1>19

-----------------------------------------------------------------------------
(* Steps of one kind. *)

(* A step that only gives up, for a cause. *)
LEMMA AbortStep ==
  ASSUME RouteInv, pc' = "abort", AbortForCause',
         UNCHANGED <<input, net, stop_requested, stored_nodes_nets, search,
                     walk, phys_nets>>
  PROVE  RouteInv'
<1>1. TypeOK'
  BY DEF RouteInv, TypeOK, search, walk
<1>2. /\ Reserved' /\ AtNet' /\ SearchSets' /\ SearchForest' /\ StubsFound'
      /\ Covered' /\ WalkInv' /\ OutputWhole'
  BY DEF Reserved, AtNet, SearchSets, SearchForest, StubsFound, Covered,
         WalkInv, OutputWhole, InSearch
<1>3. Unwritten'
  BY DEF RouteInv, Unwritten
<1> QED
  BY <1>1, <1>2, <1>3 DEF RouteInv

(* A step within the loop over the nets that leaves the owners of the      *)
(* nodes and the nets of the message alone. *)
LEMMA QuietStep ==
  ASSUME RouteInv, pc \notin {"block", "abort"}, pc' \notin {"block", "abort"},
         UNCHANGED <<input, net, stored_nodes_nets, phys_nets>>
  PROVE  AbortForCause' /\ Reserved' /\ Unwritten' /\ OutputWhole'
<1>1. AbortForCause' /\ Reserved' /\ Unwritten'
  BY DEF RouteInv, AbortForCause, Reserved, Unwritten
<1>2. OutputWhole'
  BY DEF RouteInv, OutputWhole, WholeTree, OwnTree, StubsHang
<1> QED
  BY <1>1, <1>2

(* Nothing of the search matters while there is none. *)
LEMMA OutOfSearch ==
  ASSUME pc' \notin {"sources", "search", "walk"}
  PROVE  AtNet' /\ SearchSets' /\ SearchForest' /\ StubsFound' /\ Covered' /\ WalkInv'
BY DEF AtNet, SearchSets, SearchForest, StubsFound, Covered, WalkInv, InSearch

(* A net is written, whole or as it was read; no node changes its owner. *)
LEMMA NextNetStep ==
  ASSUME RouteInv, pc \in {"net", "search", "walk"},
         NEW this \in Nets, this = net,
         NEW written \in PhysNet, NextNet(written),
         UNCHANGED <<input, stop_requested, search, walk>>,
         stored_nodes_nets' \in [Nodes -> Nets \cup {None}],
         \A x \in Nodes : stored_nodes_nets[x] # None =>
           stored_nodes_nets'[x] = stored_nodes_nets[x],
         \/ WholeTree(this)'
         \/ /\ written.branches = {} /\ written.ends = {}
            /\ written.stubs = IF LeaveOut(net) THEN {} ELSE StubsOf(net)
  PROVE  RouteInv'
<1>1. /\ TypeOK /\ Reserved /\ Unwritten /\ OutputWhole /\ NetCount \in Nat
      /\ net \in 0..(NetCount - 1) /\ None \notin Nets
  BY NetlistAssumption DEF RouteInv, Nets
<1>2. /\ pc' = "net" /\ net' = net + 1
      /\ phys_nets' = [phys_nets EXCEPT ![net] = written]
  BY DEF NextNet
<1>3. /\ phys_nets \in [Nets -> PhysNet]
      /\ \A n \in Nets : n # net => phys_nets'[n] = phys_nets[n]
      /\ phys_nets'[net] = written
  BY <1>1, <1>2 DEF TypeOK
<1>4. TypeOK'
  BY <1>1, <1>2, <1>3 DEF TypeOK, search, walk
<1>5. AbortForCause' /\ AtNet' /\ SearchSets' /\ SearchForest' /\ StubsFound' /\ Covered' /\ WalkInv'
  BY <1>2, OutOfSearch DEF AbortForCause
<1>6. Reserved'
  <2>1. \A n \in Nets : \A x \in input.resources[n] :
          x \in Nodes /\ stored_nodes_nets[x] = n
    BY <1>1, NetlistAssumption DEF Reserved, TypeOK
  <2> QED
    BY <1>1, <1>2, <2>1 DEF Reserved
<1>7. Unwritten'
  BY <1>1, <1>2, <1>3 DEF Unwritten, Nets
<1>8. OutputWhole'
  <2> SUFFICES ASSUME NEW n \in Nets, n < net'
               PROVE  \/ WholeTree(n)'
                      \/ /\ phys_nets'[n].branches = {}
                         /\ phys_nets'[n].ends = {}
                         /\ phys_nets'[n].stubs =
                              IF LeaveOut(n) THEN {} ELSE StubsOf(n)
    BY DEF OutputWhole
  <2>1. CASE n = this
    BY <1>3, <2>1
  <2>2. CASE n # this
    <3>1. n < net
      BY <1>1, <1>2, <2>2 DEF Nets
    <3>2. phys_nets'[n] = phys_nets[n]
      BY <1>3, <2>2
    <3>3. \A b \in phys_nets[n].branches : b[2] \in Pips
      BY <1>3 DEF PhysNet
    <3>4. \A b \in phys_nets[n].branches :
            NodeIn[b[2]] \in Nodes /\ NodeOut[b[2]] \in Nodes
      BY <3>3, DeviceAssumption
    <3>5. \A x \in Nodes : stored_nodes_nets[x] = n => stored_nodes_nets'[x] = n
      BY <1>1
    <3>6. WholeTree(n) => WholeTree(n)'
      <4>1. OwnTree(n) => OwnTree(n)'
        BY <3>2, <3>4, <3>5 DEF OwnTree
      <4>2. StubsHang(n) => StubsHang(n)'
        BY <3>2 DEF StubsHang
      <4> QED
        BY <3>2, <4>1, <4>2 DEF WholeTree
    <3> QED
      BY <1>1, <3>1, <3>2, <3>6 DEF OutputWhole
  <2> QED
    BY <2>1, <2>2
<1> QED
  BY <1>4, <1>5, <1>6, <1>7, <1>8 DEF RouteInv

-----------------------------------------------------------------------------
(* One lemma for each action. *)

LEMMA ZeroedType == Zeroed \in [Ids -> Route_Info]
BY BoundAssumption DEF Zeroed, Route_Info, Costs

LEMMA InitInv == Init => RouteInv
<1> SUFFICES ASSUME Init PROVE RouteInv
  OBVIOUS
<1>1. NetCount \in Nat
  BY NetlistAssumption
<1>2. NoNet \in PhysNet
  BY DEF NoNet, PhysNet
<1>3. TypeOK
  <2>1. /\ 0 \in 0..NetCount /\ 0 \in 0..(MaxAttempts + 1)
        /\ Zeroed \in [Ids -> Route_Info]
    BY <1>1, BoundAssumption, ZeroedType
  <2>2. /\ stored_nodes_nets \in [Nodes -> Nets \cup {None}]
        /\ phys_nets \in [Nets -> PhysNet]
        /\ route_storage \in [Ids -> Route_Info]
    BY <1>2, <2>1 DEF Init
  <2> QED
    BY <2>1, <2>2 DEF Init, TypeOK
<1>4. /\ AbortForCause /\ AtNet /\ SearchSets /\ SearchForest /\ StubsFound
      /\ Covered /\ WalkInv /\ OutputWhole
  BY DEF Init, AbortForCause, AtNet, SearchSets, SearchForest, StubsFound,
         Covered, WalkInv, OutputWhole, InSearch
<1>5. Reserved /\ Unwritten
  BY <1>1 DEF Init, Reserved, Unwritten, Nets
<1> QED
  BY <1>3, <1>4, <1>5 DEF RouteInv

LEMMA BlockResourcesInv ==
  ASSUME RouteInv, BlockResources
  PROVE  RouteInv'
<1> DEFINE nodes == input.resources[net]
<1>1. /\ TypeOK /\ Reserved /\ Unwritten /\ pc = "block"
      /\ net \in Nets /\ net \in Nat /\ NetCount \in Nat /\ None \notin Nets
  BY NetlistAssumption DEF RouteInv, BlockResources, TypeOK, Nets
<1>2. /\ nodes \subseteq Nodes
      /\ stored_nodes_nets \in [Nodes -> Nets \cup {None}]
  BY <1>1, NetlistAssumption DEF TypeOK
<1>3. CASE \E x \in nodes : is_node_stored(net, x)
  <2>1. PICK x \in nodes : is_node_stored(net, x)
    BY <1>3
  <2> DEFINE m == stored_nodes_nets[x]
  <2>2. m \in Nets /\ m # net
    BY <1>2, <2>1 DEF is_node_stored
  <2>3. x \in input.resources[m]
    BY <1>1, <1>2, <2>2 DEF Reserved
  <2>4. input.resources[net] \cap input.resources[m] # {}
    BY <2>3
  <2>5. AbortForCause'
    BY <1>1, <2>2, <2>4 DEF AbortForCause, BlockResources
  <2> QED
    BY <1>3, <2>5, AbortStep DEF BlockResources, Unless
<1>4. CASE ~ \E x \in nodes : is_node_stored(net, x)
  <2>1. /\ store_nodes(net, nodes) /\ net' = net + 1
        /\ UNCHANGED <<input, stop_requested, pc, search, walk, phys_nets>>
    BY <1>4 DEF BlockResources, Unless
  <2>2. \A x \in Nodes : stored_nodes_nets'[x] =
          IF x \in nodes THEN net ELSE stored_nodes_nets[x]
    BY <2>1 DEF store_nodes
  <2>3. stored_nodes_nets' \in [Nodes -> Nets \cup {None}]
    BY <1>1, <1>2, <2>1 DEF store_nodes
  <2>4. TypeOK'
    BY <1>1, <2>1, <2>3 DEF TypeOK, search, walk, Nets
  <2>5. AtNet' /\ SearchSets' /\ SearchForest' /\ StubsFound' /\ Covered' /\ WalkInv'
    BY <1>1, <2>1, OutOfSearch
  <2>6. AbortForCause' /\ OutputWhole' /\ Unwritten'
    BY <1>1, <2>1 DEF AbortForCause, OutputWhole, Unwritten
  <2>7. Reserved'
    <3>1. \A x \in Nodes : stored_nodes_nets'[x] # None =>
            x \in input.resources[stored_nodes_nets'[x]]
      BY <1>1, <2>2 DEF Reserved
    <3>2. \A n \in Nets : n < net + 1 =>
            \A x \in input.resources[n] : stored_nodes_nets'[x] = n
      <4> SUFFICES ASSUME NEW n \in Nets, n < net + 1,
                          NEW x \in input.resources[n]
                   PROVE  stored_nodes_nets'[x] = n
        OBVIOUS
      <4>1. x \in Nodes
        BY <1>1, NetlistAssumption DEF TypeOK
      <4>2. CASE n = net
        BY <2>2, <4>1, <4>2
      <4>3. CASE n # net
        <5>1. n < net
          BY <1>1, <4>3 DEF Nets
        <5>2. stored_nodes_nets[x] = n
          BY <1>1, <5>1 DEF Reserved
        <5>3. x \notin nodes
          BY <1>1, <1>4, <4>3, <5>2 DEF is_node_stored
        <5> QED
          BY <2>2, <4>1, <5>2, <5>3
      <4> QED
        BY <4>2, <4>3
    <3> QED
      BY <1>1, <2>1, <3>1, <3>2 DEF Reserved
  <2> QED
    BY <2>4, <2>5, <2>6, <2>7 DEF RouteInv
<1> QED
  BY <1>3, <1>4

LEMMA StartRoutingInv ==
  ASSUME RouteInv, StartRouting
  PROVE  RouteInv'
<1>1. /\ TypeOK /\ Reserved /\ Unwritten /\ pc = "block" /\ net = NetCount
      /\ pc' = "net" /\ net' = 0 /\ NetCount \in Nat
      /\ UNCHANGED <<input, stop_requested, stored_nodes_nets, search, walk,
                     phys_nets>>
  BY NetlistAssumption DEF RouteInv, StartRouting
<1>2. TypeOK'
  BY <1>1 DEF TypeOK, search, walk
<1>3. AtNet' /\ SearchSets' /\ SearchForest' /\ StubsFound' /\ Covered' /\ WalkInv'
  BY <1>1, OutOfSearch
<1>4. AbortForCause' /\ Reserved' /\ Unwritten' /\ OutputWhole'
  BY <1>1 DEF AbortForCause, Reserved, Unwritten, OutputWhole, Nets
<1> QED
  BY <1>2, <1>3, <1>4 DEF RouteInv

(* RequestStop, Ended and stuttering. *)
LEMMA UnchangedInv ==
  ASSUME RouteInv,
         UNCHANGED <<input, pc, net, stored_nodes_nets, search, walk, phys_nets>>,
         stop_requested' \in BOOLEAN
  PROVE  RouteInv'
<1>1. TypeOK'
  BY DEF RouteInv, TypeOK, search, walk
<1>2. AbortForCause' /\ Reserved' /\ AtNet' /\ SearchSets' /\ Unwritten'
  BY DEF RouteInv, AbortForCause, Reserved, AtNet, SearchSets, Unwritten,
         InSearch, is_pip_stored, is_node_stored, search, walk
<1>3. SearchForest' /\ StubsFound'
  BY DEF RouteInv, SearchForest, StubsFound, NoCycle, Previous, InSearch, search
<1>4. Covered' /\ WalkInv'
  BY DEF RouteInv, Covered, WalkInv, Walked, Previous, is_pip_stored,
         is_node_stored, search, walk
<1>5. OutputWhole'
  BY DEF RouteInv, OutputWhole, WholeTree, OwnTree, StubsHang
<1> QED
  BY <1>1, <1>2, <1>3, <1>4, <1>5 DEF RouteInv

LEMMA AsRead ==
  ASSUME NEW n \in Nets
  PROVE  NoNet \in PhysNet /\ Unrouted(n) \in PhysNet
<1>1. \A i \in DOMAIN StubList[n] : StubList[n][i] \in Stubs
  BY NetlistAssumption
<1>2. StubsOf(n) \in SUBSET Stubs
  BY <1>1 DEF StubsOf
<1>3. Unrouted(n) = [stubs |-> StubsOf(n), branches |-> {}, ends |-> {}]
  BY DEF Unrouted, NoNet
<1> QED
  BY <1>2, <1>3 DEF NoNet, PhysNet

LEMMA SkipNetInv ==
  ASSUME RouteInv, SkipNet
  PROVE  RouteInv'
<1>1. /\ TypeOK /\ pc = "net" /\ net \in Nets /\ LeaveOut(net) /\ NextNet(NoNet)
      /\ UNCHANGED <<input, stop_requested, stored_nodes_nets, search, walk>>
  BY NetlistAssumption DEF RouteInv, SkipNet, TypeOK, Nets
<1>2. stored_nodes_nets' \in [Nodes -> Nets \cup {None}]
  BY <1>1 DEF TypeOK
<1>3. NoNet.branches = {} /\ NoNet.ends = {} /\ NoNet.stubs = {}
  BY DEF NoNet
<1> QED
  BY <1>1, <1>2, <1>3, AsRead, NextNetStep

(* CopyNet and Fail write the net as it was read. *)
LEMMA UnroutedInv ==
  ASSUME RouteInv, pc \in {"net", "search"}, net \in Nets, ~LeaveOut(net),
         NextNet(Unrouted(net)),
         UNCHANGED <<input, stop_requested, stored_nodes_nets, search, walk>>
  PROVE  RouteInv'
<1> DEFINE written == Unrouted(net)
<1>1. stored_nodes_nets' \in [Nodes -> Nets \cup {None}]
  BY DEF RouteInv, TypeOK
<1>2. written.branches = {} /\ written.ends = {} /\ written.stubs = StubsOf(net)
  BY DEF Unrouted, NoNet
<1>3. written \in PhysNet /\ NextNet(written)
  BY AsRead
<1> HIDE DEF written
<1> QED
  BY <1>1, <1>2, <1>3, NextNetStep

LEMMA CopyNetInv ==
  ASSUME RouteInv, CopyNet
  PROVE  RouteInv'
<1>1. net \in Nets
  BY NetlistAssumption DEF RouteInv, CopyNet, TypeOK, Nets
<1> QED
  BY <1>1, UnroutedInv DEF CopyNet

LEMMA FailInv ==
  ASSUME RouteInv, Fail
  PROVE  RouteInv'
<1>1. net \in Nets /\ Routes(net)
  BY DEF RouteInv, Fail, AtNet, InSearch
<1>2. ~LeaveOut(net)
  BY <1>1, NetlistAssumption DEF Routes, LeaveOut
<1> QED
  BY <1>1, <1>2, UnroutedInv DEF Fail

LEMMA WriteInv ==
  ASSUME RouteInv, Write
  PROVE  RouteInv'
<1>1. /\ pc = "net" /\ pc' = "done"
      /\ UNCHANGED <<input, net, stop_requested, stored_nodes_nets, search,
                     walk, phys_nets>>
  BY DEF Write
<1>2. TypeOK'
  BY <1>1 DEF RouteInv, TypeOK, search, walk
<1>3. AbortForCause' /\ Reserved' /\ Unwritten' /\ OutputWhole'
  BY <1>1, QuietStep
<1>4. AtNet' /\ SearchSets' /\ SearchForest' /\ StubsFound' /\ Covered' /\ WalkInv'
  BY <1>1, OutOfSearch
<1> QED
  BY <1>2, <1>3, <1>4 DEF RouteInv

LEMMA NoStubs ==
  ASSUME NEW n \in Nets, Routes(n)
  PROVE  StubNodes[n] # {} /\ StubNodes[n] \subseteq Nodes
<1>1. StubList[n] \in Seq(Stubs) /\ StubList[n] # << >>
  BY NetlistAssumption DEF Routes
<1>2. 1 \in DOMAIN StubList[n] /\ \A i \in DOMAIN StubList[n] : StubList[n][i] \in Stubs
  BY <1>1
<1>3. StubList[n][1] \in StubsOf(n) /\ StubsOf(n) \subseteq Stubs
  BY <1>2 DEF StubsOf
<1> QED
  BY <1>3, NetlistAssumption DEF StubNodes

LEMMA StartNetInv ==
  ASSUME RouteInv, StartNet
  PROVE  RouteInv'
<1>1. /\ TypeOK /\ Reserved /\ pc = "net" /\ net \in Nets /\ Routes(net)
      /\ UNCHANGED <<input, stop_requested>>
  BY NetlistAssumption DEF RouteInv, StartNet, TypeOK, Nets
<1>2. CASE Unroutable(net)
  <2>1. \A x \in Sources[net] : stored_nodes_nets[x] = net
    BY <1>1, NetlistAssumption DEF Reserved, TypeOK
  <2>2. net \in input.partly
    BY <1>2, <2>1 DEF Unroutable, is_node_stored
  <2>3. AbortForCause'
    BY <1>1, <2>2 DEF AbortForCause
  <2> QED
    BY <1>2, <2>3, AbortStep DEF StartNet, Unless
<1>3. CASE ~Unroutable(net)
  <2>1. /\ pc' = "sources" /\ alt_route_options' = {}
        /\ used_nodes' = Sources[net] /\ used_pips' = {} /\ appended' = {}
        /\ sources' = Sources[net] /\ stubs' = StubNodes[net]
        /\ pip_stubs' = {} /\ attempts' = 0
        /\ route_storage' = Zeroed
        /\ UNCHANGED <<net, stored_nodes_nets, walk, phys_nets>>
    BY <1>3 DEF StartNet, Unless
  <2>2. Sources[net] \subseteq Nodes /\ MaxAttempts \in Nat
    BY <1>1, NetlistAssumption, BoundAssumption
  <2>3. StubNodes[net] \subseteq Nodes /\ StubNodes[net] # {}
    BY <1>1, NoStubs
  <2>4. 0 \in 0..(MaxAttempts + 1)
    BY <2>2
  <2>5. TypeOK'
    BY <1>1, <2>1, <2>2, <2>3, <2>4, ZeroedType DEF TypeOK, walk
  <2>6. AbortForCause' /\ Reserved' /\ Unwritten' /\ OutputWhole'
    BY <1>1, <2>1, QuietStep
  <2>7. AtNet' /\ SearchSets' /\ StubsFound' /\ WalkInv'
    BY <1>1, <2>1, <2>3 DEF AtNet, SearchSets, StubsFound, WalkInv, InSearch
  <2>8. SearchForest'
    BY <2>1 DEF SearchForest, NoCycle
  <2>9. Covered'
    BY <2>1 DEF Covered
  <2> QED
    BY <2>5, <2>6, <2>7, <2>8, <2>9 DEF RouteInv
<1> QED
  BY <1>2, <1>3

LEMMA StartSearchInv ==
  ASSUME RouteInv, StartSearch
  PROVE  RouteInv'
<1>1. /\ pc = "sources" /\ pc' = "search" /\ sources = {}
      /\ UNCHANGED <<input, net, stop_requested, stored_nodes_nets, search,
                     walk, phys_nets>>
  BY DEF StartSearch
<1>2. TypeOK'
  BY <1>1 DEF RouteInv, TypeOK, search, walk
<1>3. AbortForCause' /\ Reserved' /\ Unwritten' /\ OutputWhole'
  BY <1>1, QuietStep
<1>4. AtNet' /\ SearchSets' /\ StubsFound'
  BY <1>1 DEF RouteInv, AtNet, SearchSets, StubsFound, InSearch,
              is_pip_stored, is_node_stored, search
<1>5. SearchForest' /\ WalkInv'
  BY <1>1 DEF RouteInv, SearchForest, NoCycle, Previous, InSearch, WalkInv, search
<1>6. Covered'
  BY <1>1 DEF RouteInv, Covered, is_pip_stored, is_node_stored, search
<1> QED
  BY <1>2, <1>3, <1>4, <1>5, <1>6 DEF RouteInv

LEMMA AddSourceInv ==
  ASSUME RouteInv, AddSource
  PROVE  RouteInv'
<1>1. PICK x \in sources : /\ AddNodePips(x, Root, alt_route_options, stubs)
                           /\ sources' = sources \ {x}
  BY DEF AddSource
<1>2. /\ TypeOK /\ AtNet /\ SearchSets /\ SearchForest /\ StubsFound /\ Covered
      /\ InSearch /\ pc = "sources" /\ net \in Nets
      /\ UNCHANGED <<input, pc, net, stop_requested, stored_nodes_nets, stubs,
                     pip_stubs, attempts, walk, phys_nets>>
  BY DEF RouteInv, AddSource, AtNet, InSearch
<1>3. /\ x \in Sources[net] /\ x \in used_nodes
      /\ stubs # {} /\ stubs \in SUBSET Nodes
      /\ alt_route_options \subseteq appended
  BY <1>2 DEF StubsFound, SearchSets, TypeOK
<1>4. /\ route_storage' \in [Ids -> Route_Info]
      /\ used_nodes' \subseteq Nodes /\ used_pips' \subseteq Ids
      /\ appended' \subseteq Pips /\ appended \subseteq appended'
      /\ used_nodes \subseteq used_nodes'
      /\ alt_route_options' \subseteq appended'
      /\ alt_route_options' = alt_route_options \cup (appended' \ appended)
      /\ used_pips' = {Id[p] : p \in appended'}
      /\ used_nodes' = Sources[net] \cup {NodeOut[p] : p \in appended'}
      /\ \A p \in appended' : ~is_pip_stored(net, p)
      /\ SearchForest'
      /\ \A p \in Pips : NodeIn[p] = x /\ ~is_pip_stored(net, p) =>
           NodeOut[p] \in used_nodes'
  BY <1>1, <1>2, <1>3, AddNodePipsStep
<1>5. TypeOK'
  BY <1>1, <1>2, <1>4 DEF TypeOK, walk
<1>6. AbortForCause' /\ Reserved' /\ Unwritten' /\ OutputWhole'
  BY <1>2, QuietStep
<1>7. AtNet' /\ SearchSets' /\ WalkInv'
  BY <1>2, <1>4 DEF AtNet, SearchSets, InSearch, WalkInv, is_pip_stored, is_node_stored
<1>8. StubsFound'
  BY <1>1, <1>2 DEF StubsFound, InSearch
<1>9. Covered'
  <2>1. \A p \in appended' \ alt_route_options' : NodeOut[p] \notin stubs
    BY <1>2, <1>4 DEF Covered
  <2>2. ASSUME NEW p \in Pips, NodeIn[p] \in used_nodes', ~is_pip_stored(net, p)
        PROVE  \/ NodeOut[p] \in used_nodes'
               \/ NodeIn[p] \in sources'
               \/ \E q \in alt_route_options' : NodeOut[q] = NodeIn[p]
    <3>1. CASE NodeIn[p] \in used_nodes
      BY <1>1, <1>2, <1>4, <2>2, <3>1 DEF Covered
    <3>2. CASE NodeIn[p] \notin used_nodes
      <4>1. PICK q \in appended' : NodeOut[q] = NodeIn[p]
        BY <1>2, <1>4, <2>2, <3>2 DEF SearchSets
      <4>2. q \notin appended
        BY <1>2, <3>2, <4>1 DEF SearchSets
      <4> QED
        BY <1>4, <4>1, <4>2
    <3> QED
      BY <3>1, <3>2
  <2> QED
    BY <1>2, <2>1, <2>2 DEF Covered, is_pip_stored, is_node_stored
<1> QED
  BY <1>4, <1>5, <1>6, <1>7, <1>8, <1>9 DEF RouteInv

(* Expand, and Found for its stub: the top of the queue is taken off it    *)
(* and its pips are added; no source is left. *)
LEMMA ExpandStep ==
  ASSUME RouteInv, pc = "search", NEW p \in alt_route_options,
         NEW nodes, nodes = stubs \ {NodeOut[p]}, nodes # {},
         AddNodePips(NodeOut[p], p, alt_route_options \ {p}, nodes),
         stubs' = nodes,
         pip_stubs' = IF NodeOut[p] \in stubs THEN pip_stubs \cup {p} ELSE pip_stubs,
         attempts <= MaxAttempts, attempts' = attempts + 1,
         UNCHANGED <<input, pc, net, stop_requested, stored_nodes_nets, sources,
                     walk, phys_nets>>
  PROVE  RouteInv'
<1> DEFINE x == NodeOut[p]
           queue == alt_route_options \ {p}
<1>1. /\ TypeOK /\ AtNet /\ SearchSets /\ SearchForest /\ StubsFound /\ Covered
      /\ InSearch /\ net \in Nets
  BY DEF RouteInv, AtNet, InSearch
<1>2. /\ p \in appended /\ x \in used_nodes /\ queue \subseteq appended
      /\ nodes \in SUBSET Nodes
  BY <1>1 DEF SearchSets, TypeOK
<1>3. /\ route_storage' \in [Ids -> Route_Info]
      /\ used_nodes' \subseteq Nodes /\ used_pips' \subseteq Ids
      /\ appended' \subseteq Pips /\ appended \subseteq appended'
      /\ used_nodes \subseteq used_nodes'
      /\ alt_route_options' \subseteq appended'
      /\ alt_route_options' = queue \cup (appended' \ appended)
      /\ used_pips' = {Id[q] : q \in appended'}
      /\ used_nodes' = Sources[net] \cup {NodeOut[q] : q \in appended'}
      /\ \A q \in appended' : ~is_pip_stored(net, q)
      /\ SearchForest'
      /\ \A q \in Pips : NodeIn[q] = x /\ ~is_pip_stored(net, q) =>
           NodeOut[q] \in used_nodes'
  <2> HIDE DEF queue, x
  <2>1. AddNodePips(x, p, queue, nodes)
    BY DEF x, queue
  <2>2. NodeOut[p] = x
    BY DEF x
  <2> QED
    BY <1>1, <1>2, <2>1, <2>2, AddNodePipsStep
<1>4. TypeOK'
  <2>1. attempts' \in 0..(MaxAttempts + 1)
    BY <1>1, BoundAssumption DEF TypeOK
  <2> QED
    BY <1>1, <1>2, <1>3, <2>1 DEF TypeOK, walk
<1>5. AbortForCause' /\ Reserved' /\ Unwritten' /\ OutputWhole'
  BY QuietStep
<1>6. AtNet' /\ WalkInv'
  BY <1>1 DEF AtNet, InSearch, WalkInv
<1>7. SearchSets'
  BY <1>1, <1>2, <1>3 DEF SearchSets, InSearch, is_pip_stored, is_node_stored
<1>8. StubsFound'
  <2>1. /\ sources' \subseteq Sources[net] /\ stubs' \subseteq StubNodes[net]
        /\ sources' = {} /\ stubs' # {}
    BY <1>1 DEF StubsFound, InSearch
  <2>2. {NodeOut[q] : q \in pip_stubs'} = StubNodes[net] \ stubs'
    BY <1>1 DEF StubsFound, InSearch
  <2> QED
    BY <2>1, <2>2 DEF StubsFound, InSearch
<1>9. Covered'
  <2>1. \A q \in appended' \ alt_route_options' : NodeOut[q] \notin stubs'
    BY <1>1, <1>3 DEF Covered
  <2>2. ASSUME NEW q \in Pips, NodeIn[q] \in used_nodes', ~is_pip_stored(net, q)
        PROVE  \/ NodeOut[q] \in used_nodes'
               \/ NodeIn[q] \in sources'
               \/ \E r \in alt_route_options' : NodeOut[r] = NodeIn[q]
    <3>1. CASE NodeIn[q] = x
      BY <1>3, <2>2, <3>1
    <3>2. CASE NodeIn[q] # x /\ NodeIn[q] \in used_nodes
      BY <1>1, <1>3, <2>2, <3>2 DEF Covered
    <3>3. CASE NodeIn[q] \notin used_nodes
      <4>1. PICK r \in appended' : NodeOut[r] = NodeIn[q]
        BY <1>1, <1>3, <2>2, <3>3 DEF SearchSets
      <4>2. r \notin appended
        BY <1>1, <3>3, <4>1 DEF SearchSets
      <4> QED
        BY <1>3, <4>1, <4>2
    <3> QED
      BY <3>1, <3>2, <3>3
  <2> QED
    BY <2>1, <2>2 DEF Covered, is_pip_stored, is_node_stored
<1> QED
  BY <1>3, <1>4, <1>5, <1>6, <1>7, <1>8, <1>9 DEF RouteInv

LEMMA ExpandInv ==
  ASSUME RouteInv, Expand
  PROVE  RouteInv'
<1>1. PICK p \in alt_route_options :
        /\ NodeOut[p] \notin stubs
        /\ AddNodePips(NodeOut[p], p, alt_route_options \ {p}, stubs)
  BY DEF Expand
<1>2. /\ pc = "search" /\ attempts <= MaxAttempts /\ attempts' = attempts + 1
      /\ UNCHANGED <<input, pc, net, stop_requested, stored_nodes_nets, sources,
                     stubs, pip_stubs, walk, phys_nets>>
  BY DEF Expand, Searching
<1>3. stubs = stubs \ {NodeOut[p]} /\ stubs # {}
  BY <1>1, <1>2 DEF RouteInv, StubsFound, InSearch
<1> QED
  BY <1>1, <1>2, <1>3, ExpandStep

(* A pip in the queue is over nodes of no other net. *)
LEMMA QueueIsFree ==
  ASSUME RouteInv, pc = "search", NEW p \in alt_route_options
  PROVE  ~is_pip_stored(net, p) /\ p \in appended /\ p \in Pips
BY DEF RouteInv, SearchSets, InSearch, TypeOK

LEMMA FoundInv ==
  ASSUME RouteInv, Found
  PROVE  RouteInv'
<1> USE DEF Searching
<1>1. PICK p \in alt_route_options :
        /\ NodeOut[p] \in stubs
        /\ stubs # {NodeOut[p]}
        /\ Unless(is_pip_stored(net, p),
             /\ AddNodePips(NodeOut[p], p, alt_route_options \ {p},
                            stubs \ {NodeOut[p]})
             /\ stubs' = stubs \ {NodeOut[p]}
             /\ pip_stubs' = pip_stubs \cup {p}
             /\ attempts' = attempts + 1
             /\ UNCHANGED <<pc, net, stored_nodes_nets, sources, walk, phys_nets>>)
  BY DEF Found
<1>2. /\ pc = "search" /\ attempts <= MaxAttempts
      /\ UNCHANGED <<input, stop_requested>>
  BY DEF Found
<1>3. ~is_pip_stored(net, p)
  BY <1>2, QueueIsFree
<1>4. /\ AddNodePips(NodeOut[p], p, alt_route_options \ {p}, stubs \ {NodeOut[p]})
      /\ stubs' = stubs \ {NodeOut[p]}
      /\ pip_stubs' = pip_stubs \cup {p}
      /\ attempts' = attempts + 1
      /\ UNCHANGED <<pc, net, stored_nodes_nets, sources, walk, phys_nets>>
  BY <1>1, <1>3 DEF Unless
<1>5. stubs \ {NodeOut[p]} # {}
  BY <1>1
<1> QED
  BY <1>1, <1>2, <1>4, <1>5, ExpandStep

LEMMA FoundLastInv ==
  ASSUME RouteInv, FoundLast
  PROVE  RouteInv'
<1>1. PICK p \in alt_route_options :
        /\ stubs = {NodeOut[p]}
        /\ Unless(is_pip_stored(net, p),
             /\ pc' = "walk"
             /\ alt_route_options' = alt_route_options \ {p}
             /\ stubs' = {}
             /\ pip_stubs' = pip_stubs \cup {p}
             /\ pips_to_process' = pip_stubs \cup {p}
             /\ route_ids' = {}
             /\ UNCHANGED <<net, stored_nodes_nets, route_storage, used_nodes,
                            used_pips, appended, sources, attempts, phys_nets>>)
  BY DEF FoundLast
<1>2. pc = "search" /\ UNCHANGED <<input, stop_requested>>
  BY DEF FoundLast, Searching
<1>3. ~is_pip_stored(net, p) /\ p \in appended /\ p \in Pips
  BY <1>2, QueueIsFree
<1>4. /\ pc' = "walk"
      /\ alt_route_options' = alt_route_options \ {p}
      /\ stubs' = {}
      /\ pip_stubs' = pip_stubs \cup {p}
      /\ pips_to_process' = pip_stubs \cup {p}
      /\ route_ids' = {}
      /\ UNCHANGED <<net, stored_nodes_nets, route_storage, used_nodes,
                     used_pips, appended, sources, attempts, phys_nets>>
  BY <1>1, <1>3 DEF Unless
<1>5. TypeOK'
  BY <1>2, <1>3, <1>4 DEF RouteInv, TypeOK
<1>6. AbortForCause' /\ Reserved' /\ Unwritten' /\ OutputWhole'
  BY <1>2, <1>4, QuietStep
<1>7. AtNet' /\ SearchSets' /\ Covered'
  BY <1>2, <1>3, <1>4 DEF RouteInv, AtNet, SearchSets, InSearch, Covered,
                          is_pip_stored, is_node_stored
<1>8. SearchForest'
  BY <1>2, <1>4 DEF RouteInv, SearchForest, NoCycle, Previous, InSearch
<1>9. StubsFound'
  BY <1>1, <1>2, <1>4 DEF RouteInv, StubsFound, InSearch
<1>10. WalkInv'
  <2>1. pip_stubs \subseteq appended
    BY <1>2 DEF RouteInv, SearchSets, InSearch
  <2> QED
    BY <1>3, <1>4, <2>1 DEF WalkInv, Walked
<1> QED
  BY <1>5, <1>6, <1>7, <1>8, <1>9, <1>10 DEF RouteInv

LEMMA WalkBackInv ==
  ASSUME RouteInv, WalkBack
  PROVE  RouteInv'
<1>1. PICK p \in pips_to_process :
        /\ route_ids' = route_ids \cup {<<Previous(p), p>>}
        /\ pips_to_process' = (pips_to_process \ {p}) \cup ({Previous(p)} \ {Root})
  BY DEF WalkBack, Previous
<1>2. /\ pc = "walk" /\ InSearch
      /\ UNCHANGED <<input, pc, net, stop_requested, stored_nodes_nets, search,
                     phys_nets>>
  BY DEF WalkBack, InSearch
<1>3. /\ TypeOK /\ SearchForest /\ WalkInv /\ SearchSets
      /\ p \in appended /\ p \in Pips
  BY <1>2 DEF RouteInv, WalkInv, TypeOK
<1>4. Previous(p) = Root \/ Previous(p) \in appended
  BY <1>2, <1>3 DEF SearchForest
<1>5. Previous(p) = Root \/ Previous(p) \in Pips
  BY <1>3, <1>4 DEF TypeOK
<1>6. TypeOK'
  BY <1>1, <1>2, <1>3, <1>5 DEF TypeOK, search
<1>7. AbortForCause' /\ Reserved' /\ Unwritten' /\ OutputWhole'
  BY <1>2, QuietStep
<1>8. AtNet' /\ SearchSets' /\ Covered' /\ StubsFound'
  BY <1>2 DEF RouteInv, AtNet, SearchSets, InSearch, Covered, StubsFound,
              is_pip_stored, is_node_stored, search
<1>9. SearchForest'
  BY <1>2 DEF RouteInv, SearchForest, NoCycle, Previous, InSearch, search
<1>10. WalkInv'
  <2>1. Walked' = Walked \cup {p}
    <3>1. \A b : b \in route_ids' <=> b \in route_ids \/ b = <<Previous(p), p>>
      BY <1>1
    <3>2. <<Previous(p), p>>[2] = p
      OBVIOUS
    <3>3. \A q : q \in Walked' <=> q \in Walked \/ q = p
      <4>1. \A q : q \in Walked' <=> \E b \in route_ids' : q = b[2]
        BY DEF Walked
      <4>2. \A q : q \in Walked <=> \E b \in route_ids : q = b[2]
        BY DEF Walked
      <4> QED
        BY <3>1, <3>2, <4>1, <4>2
    <3> QED
      BY <3>3
  <2>2. \A q \in appended : Previous(q)' = Previous(q)
    BY <1>2 DEF Previous, search
  <2>3. pips_to_process' \subseteq appended
    BY <1>1, <1>2, <1>3, <1>4 DEF WalkInv
  <2>4. \A b \in route_ids' :
          /\ b[2] \in appended
          /\ b[1] = Previous(b[2])
          /\ b[1] = Root \/ b[1] \in pips_to_process' \/ b[1] \in Walked'
    <3> SUFFICES ASSUME NEW b \in route_ids'
                 PROVE  /\ b[2] \in appended
                        /\ b[1] = Previous(b[2])
                        /\ b[1] = Root \/ b[1] \in pips_to_process' \/ b[1] \in Walked'
      OBVIOUS
    <3>1. CASE b \in route_ids
      BY <1>1, <1>2, <1>3, <2>1, <3>1 DEF WalkInv
    <3>2. CASE b = <<Previous(p), p>>
      BY <1>1, <1>3, <3>2
    <3> QED
      BY <1>1, <3>1, <3>2
  <2>5. pip_stubs \subseteq pips_to_process' \cup Walked'
    BY <1>1, <1>2, <1>3, <2>1 DEF WalkInv
  <2>6. \A q \in pips_to_process' \cup Walked' :
          q \in pip_stubs \/ \E b \in route_ids' : b[1] = q
    <3> SUFFICES ASSUME NEW q \in pips_to_process' \cup Walked'
                 PROVE  q \in pip_stubs \/ \E b \in route_ids' : b[1] = q
      OBVIOUS
    <3>1. CASE q \in pips_to_process \cup Walked
      BY <1>1, <1>2, <1>3, <3>1 DEF WalkInv
    <3>2. CASE q = Previous(p)
      <4>1. <<Previous(p), p>> \in route_ids' /\ <<Previous(p), p>>[1] = q
        BY <1>1, <3>2
      <4> QED
        BY <4>1
    <3> QED
      BY <1>1, <2>1, <3>1, <3>2
  <2> QED
    BY <1>2, <2>2, <2>3, <2>4, <2>5, <2>6 DEF WalkInv, search
<1> QED
  BY <1>6, <1>7, <1>8, <1>9, <1>10 DEF RouteInv

(* The stub that is kept for a node of stubs: the first one there. *)
LEMMA KeptStub ==
  ASSUME NEW n \in Nets, NEW x \in StubNodes[n]
  PROVE  /\ StubAt(n, x) \in Stubs /\ StubAt(n, x) \in StubsOf(n)
         /\ StubNode[StubAt(n, x)] = x
         /\ \A i \in DOMAIN StubList[n] : StubNode[StubList[n][i]] = x =>
              \/ StubList[n][i] = StubAt(n, x)
              \/ \E j \in 1..(i - 1) : StubNode[StubList[n][j]] = x
<1> DEFINE alike == {i \in DOMAIN StubList[n] : StubNode[StubList[n][i]] = x}
<1>1. /\ DOMAIN StubList[n] \subseteq Nat \ {0}
      /\ \A i \in DOMAIN StubList[n] : StubList[n][i] \in Stubs
  BY NetlistAssumption
<1>2. alike # {} /\ alike \subseteq Nat
  BY <1>1 DEF StubNodes, StubsOf
<1>3. \E i \in alike : \A j \in alike : i <= j
  BY <1>2, Least
<1>4. PICK i \in alike : StubAt(n, x) = StubList[n][i] /\ \A j \in alike : i <= j
  BY <1>3 DEF StubAt
<1>5. ASSUME NEW j \in DOMAIN StubList[n], StubNode[StubList[n][j]] = x
      PROVE  \/ StubList[n][j] = StubAt(n, x)
             \/ \E k \in 1..(j - 1) : StubNode[StubList[n][k]] = x
  <2>1. i <= j /\ i \in Nat \ {0} /\ j \in Nat
    BY <1>1, <1>4, <1>5
  <2>2. i = j \/ i \in 1..(j - 1)
    BY <2>1
  <2> QED
    BY <1>4, <2>2
<1> QED
  BY <1>1, <1>4, <1>5 DEF StubsOf

(* The walk is over: what it collected is whole, and free to store. *)
LEMMA TreeIsWhole ==
  ASSUME RouteInv, pc = "walk", pips_to_process = {}
  PROVE  /\ Walked \subseteq appended /\ Walked \subseteq Pips
         /\ pip_stubs \subseteq Walked
         /\ {NodeOut[p] : p \in pip_stubs} = StubNodes[net]
         /\ \A p, q \in pip_stubs : NodeOut[p] = NodeOut[q] => p = q
         /\ \A b \in route_ids :
              /\ b[2] \in Walked
              /\ \/ b[1] = Root /\ NodeIn[b[2]] \in Sources[net]
                 \/ b[1] \in Walked /\ NodeOut[b[1]] = NodeIn[b[2]]
              /\ b[2] \in pip_stubs \/ \E c \in route_ids : c[1] = b[2]
         /\ TreeNodes = {NodeIn[p] : p \in Walked} \cup {NodeOut[p] : p \in Walked}
         /\ ~ \E x \in TreeNodes : is_node_stored(net, x)
<1>1. /\ TypeOK /\ SearchForest /\ WalkInv /\ SearchSets /\ StubsFound
      /\ InSearch /\ Root \notin Pips
  BY DeviceAssumption DEF RouteInv, InSearch
<1>2. Walked \subseteq appended /\ Walked \subseteq Pips
  BY <1>1 DEF WalkInv, Walked, TypeOK
<1>3. pip_stubs \subseteq Walked
  BY <1>1 DEF WalkInv
<1>4. {NodeOut[p] : p \in pip_stubs} = StubNodes[net]
  BY <1>1 DEF StubsFound
<1>5. ASSUME NEW b \in route_ids
      PROVE  /\ b[2] \in Walked
             /\ \/ b[1] = Root /\ NodeIn[b[2]] \in Sources[net]
                \/ b[1] \in Walked /\ NodeOut[b[1]] = NodeIn[b[2]]
             /\ b[2] \in pip_stubs \/ \E c \in route_ids : c[1] = b[2]
  <2>1. b[2] \in Walked /\ b[2] \in appended /\ b[1] = Previous(b[2])
    BY <1>1 DEF WalkInv, Walked
  <2>2. b[1] = Root \/ b[1] \in Walked
    BY <1>1 DEF WalkInv
  <2>3. \/ b[1] = Root /\ NodeIn[b[2]] \in Sources[net]
        \/ b[1] \in appended /\ NodeOut[b[1]] = NodeIn[b[2]]
    BY <1>1, <2>1 DEF SearchForest
  <2>4. Root \notin appended
    BY <1>1 DEF TypeOK
  <2> QED
    BY <1>1, <2>1, <2>2, <2>3, <2>4 DEF WalkInv
<1>6. TreeNodes = {NodeIn[p] : p \in Walked} \cup {NodeOut[p] : p \in Walked}
  BY DEF TreeNodes, Walked
<1>7. \A p \in Walked : ~is_node_stored(net, NodeIn[p]) /\ ~is_node_stored(net, NodeOut[p])
  BY <1>1, <1>2 DEF SearchSets, is_pip_stored
<1>8. \A p, q \in pip_stubs : NodeOut[p] = NodeOut[q] => p = q
  BY <1>1 DEF SearchSets, SearchForest
<1> QED
  BY <1>2, <1>3, <1>4, <1>5, <1>6, <1>7, <1>8

(* The stubs of net n hang on pips as StubsHang says. *)
Hanging(n, pips, ends) ==
  /\ \A end \in ends :
       /\ end[1] \in pips
       /\ end[2] \in StubsOf(n)
       /\ NodeOut[end[1]] = StubNode[end[2]]
  /\ \A end, other \in ends :
       StubNode[end[2]] = StubNode[other[2]] => end = other
  /\ \A i \in DOMAIN StubList[n] :
       \/ \E end \in ends : end[2] = StubList[n][i]
       \/ \E j \in 1..(i - 1) :
            StubNode[StubList[n][j]] = StubNode[StubList[n][i]]
  /\ \A p \in pip_stubs : \E end \in ends : end[1] = p

(* What is hung on the tree is the kept stub of each node of stubs. *)
LEMMA KeptStubsHang ==
  ASSUME NEW n \in Nets, pip_stubs \subseteq Walked,
         {NodeOut[p] : p \in pip_stubs} = StubNodes[n],
         \A p, q \in pip_stubs : NodeOut[p] = NodeOut[q] => p = q
  PROVE  Hanging(n, Walked, Routed(n).ends)
<1> DEFINE ends == Routed(n).ends
<1>1. ends = {<<p, StubAt(n, NodeOut[p])>> : p \in pip_stubs}
  BY DEF Routed
<1>2. \A p \in pip_stubs :
        /\ StubAt(n, NodeOut[p]) \in Stubs /\ StubAt(n, NodeOut[p]) \in StubsOf(n)
        /\ StubNode[StubAt(n, NodeOut[p])] = NodeOut[p]
  BY KeptStub
<1>3. ASSUME NEW end \in ends, NEW other \in ends,
             StubNode[end[2]] = StubNode[other[2]]
      PROVE  end = other
  <2>1. PICK p \in pip_stubs : end = <<p, StubAt(n, NodeOut[p])>>
    BY <1>1
  <2>2. PICK q \in pip_stubs : other = <<q, StubAt(n, NodeOut[q])>>
    BY <1>1
  <2>3. NodeOut[p] = NodeOut[q]
    BY <1>2, <1>3, <2>1, <2>2
  <2> QED
    BY <2>1, <2>2, <2>3
<1>4. ASSUME NEW i \in DOMAIN StubList[n]
      PROVE  \/ \E end \in ends : end[2] = StubList[n][i]
             \/ \E j \in 1..(i - 1) :
                  StubNode[StubList[n][j]] = StubNode[StubList[n][i]]
  <2>1. StubNode[StubList[n][i]] \in StubNodes[n]
    BY DEF StubNodes, StubsOf
  <2>2. PICK p \in pip_stubs : NodeOut[p] = StubNode[StubList[n][i]]
    BY <2>1
  <2>3. <<p, StubAt(n, NodeOut[p])>> \in ends
    BY <1>1
  <2> QED
    BY <2>1, <2>2, <2>3, KeptStub
<1>5. ASSUME NEW p \in pip_stubs PROVE \E end \in ends : end[1] = p
  <2>1. <<p, StubAt(n, NodeOut[p])>> \in ends
    BY <1>1
  <2> QED
    BY <2>1
<1>6. ASSUME NEW end \in ends
      PROVE  /\ end[1] \in Walked
             /\ end[2] \in StubsOf(n)
             /\ NodeOut[end[1]] = StubNode[end[2]]
  BY <1>1, <1>2
<1> HIDE DEF ends
<1>7. Hanging(n, Walked, ends)
  BY <1>3, <1>4, <1>5, <1>6 DEF Hanging
<1> QED
  BY <1>7 DEF ends

LEMMA BuildTreeInv ==
  ASSUME RouteInv, BuildTree
  PROVE  RouteInv'
<1>1. /\ TypeOK /\ AtNet /\ pc = "walk" /\ pips_to_process = {} /\ InSearch
      /\ net \in Nets /\ Routes(net) /\ None \notin Nets
      /\ UNCHANGED <<input, stop_requested>>
  BY NetlistAssumption DEF RouteInv, BuildTree, AtNet, InSearch
<1>2. /\ Walked \subseteq appended /\ Walked \subseteq Pips
      /\ pip_stubs \subseteq Walked
      /\ {NodeOut[p] : p \in pip_stubs} = StubNodes[net]
      /\ \A p, q \in pip_stubs : NodeOut[p] = NodeOut[q] => p = q
      /\ \A b \in route_ids :
           /\ b[2] \in Walked
           /\ \/ b[1] = Root /\ NodeIn[b[2]] \in Sources[net]
              \/ b[1] \in Walked /\ NodeOut[b[1]] = NodeIn[b[2]]
           /\ b[2] \in pip_stubs \/ \E c \in route_ids : c[1] = b[2]
      /\ TreeNodes = {NodeIn[p] : p \in Walked} \cup {NodeOut[p] : p \in Walked}
      /\ ~ \E x \in TreeNodes : is_node_stored(net, x)
  BY <1>1, TreeIsWhole
<1>3. /\ store_nodes(net, TreeNodes) /\ NextNet(Routed(net))
      /\ UNCHANGED <<search, walk>>
  BY <1>2 DEF BuildTree, Unless
<1>4. /\ \A x \in Nodes : stored_nodes_nets'[x] =
           IF x \in TreeNodes THEN net ELSE stored_nodes_nets[x]
      /\ stored_nodes_nets' \in [Nodes -> Nets \cup {None}]
  BY <1>1, <1>3 DEF store_nodes, TypeOK
<1>5. \A x \in Nodes : stored_nodes_nets[x] # None =>
        stored_nodes_nets'[x] = stored_nodes_nets[x]
  BY <1>2, <1>4 DEF is_node_stored
<1>6. Routed(net) \in PhysNet
  <2>1. \A p \in pip_stubs : StubAt(net, NodeOut[p]) \in Stubs
    BY <1>1, <1>2, KeptStub
  <2> QED
    BY <1>1, <2>1 DEF Routed, PhysNet, TypeOK
<1>7. PICK this \in Nets : this = net
  BY <1>1
<1>8. phys_nets'[this] = Routed(this)
  BY <1>1, <1>3, <1>7 DEF NextNet, TypeOK
<1>9. \A p \in Walked : /\ stored_nodes_nets'[NodeIn[p]] = this
                        /\ stored_nodes_nets'[NodeOut[p]] = this
  <2>1. \A p \in Walked : NodeIn[p] \in Nodes /\ NodeOut[p] \in Nodes
    BY <1>2, DeviceAssumption
  <2> QED
    BY <1>2, <1>4, <1>7, <2>1
<1>10. WholeTree(this)'
  <2>1. /\ phys_nets'[this].branches = route_ids /\ phys_nets'[this].stubs = {}
        /\ phys_nets'[this].ends = Routed(this).ends
    BY <1>7, <1>8 DEF Routed
  <2>2. Walked = {b[2] : b \in phys_nets'[this].branches}
    BY <2>1 DEF Walked
  <2>3. \A b \in phys_nets'[this].branches :
          /\ \/ b[1] = Root /\ NodeIn[b[2]] \in Sources[this]
             \/ b[1] \in Walked /\ NodeOut[b[1]] = NodeIn[b[2]]
          /\ b[2] \in pip_stubs \/ \E c \in phys_nets'[this].branches : c[1] = b[2]
          /\ stored_nodes_nets'[NodeIn[b[2]]] = this
          /\ stored_nodes_nets'[NodeOut[b[2]]] = this
    BY <1>2, <1>7, <1>9, <2>1
  <2>4. Hanging(this, Walked, Routed(this).ends)
    BY <1>2, <1>7, KeptStubsHang
  <2>5. Hanging(this, Walked, phys_nets'[this].ends)
    BY <2>1, <2>4
  <2>6. StubsHang(this)'
    BY <2>2, <2>5 DEF Hanging, StubsHang
  <2>7. OwnTree(this)'
    BY <2>2, <2>3, <2>5 DEF Hanging, OwnTree
  <2> QED
    BY <1>1, <1>7, <2>1, <2>6, <2>7 DEF WholeTree
<1> QED
  BY <1>1, <1>3, <1>4, <1>5, <1>6, <1>7, <1>10, NextNetStep

-----------------------------------------------------------------------------
(* The invariant and what follows from it. *)

LEMMA NextInv ==
  ASSUME RouteInv, [Next]_vars
  PROVE  RouteInv'
<1>1. CASE Blocking
  BY <1>1, BlockResourcesInv, StartRoutingInv DEF Blocking
<1>2. CASE NetLoop
  BY <1>2, SkipNetInv, CopyNetInv, StartNetInv, WriteInv DEF NetLoop
<1>3. CASE Search
  BY <1>3, AddSourceInv, StartSearchInv, ExpandInv, FoundInv, FoundLastInv, FailInv
     DEF Search
<1>4. CASE Store
  BY <1>4, WalkBackInv, BuildTreeInv DEF Store
<1>5. CASE RequestStop
  BY <1>5, UnchangedInv DEF RequestStop
<1>6. CASE Ended \/ UNCHANGED vars
  <2>1. /\ UNCHANGED <<input, pc, net, stored_nodes_nets, search, walk, phys_nets>>
        /\ stop_requested' \in BOOLEAN
    BY <1>6 DEF Ended, vars, search, walk, RouteInv, TypeOK
  <2> QED
    BY <2>1, UnchangedInv
<1> QED
  BY <1>1, <1>2, <1>3, <1>4, <1>5, <1>6 DEF Next, Thread

(* The strengthening holds in every state the program reaches. *)
THEOREM Invariant == Spec => []RouteInv
<1>1. Init => RouteInv
  BY InitInv
<1>2. RouteInv /\ [Next]_vars => RouteInv'
  BY NextInv
<1> QED
  BY <1>1, <1>2, PTL DEF Spec

(* TypeOK: every variable has its type. *)
THEOREM TypeCorrect == Spec => []TypeOK
<1>1. RouteInv => TypeOK
  BY DEF RouteInv
<1> QED
  BY <1>1, Invariant, PTL

(* AbortForCause: abort is reached only with overlapping or partly routed  *)
(* nets. *)
THEOREM AbortsForCause == Spec => []AbortForCause
<1>1. RouteInv => AbortForCause
  BY DEF RouteInv
<1> QED
  BY <1>1, Invariant, PTL

(* SearchForest: the appended pips are a forest below the sources, linked  *)
(* by previous. *)
THEOREM SearchIsForest == Spec => []SearchForest
<1>1. RouteInv => SearchForest
  BY DEF RouteInv
<1> QED
  BY <1>1, Invariant, PTL

(* OutputWhole: a net is written with a tree on which the first stub of    *)
(* each of its stub nodes hangs, or as it was read; no other stub of a     *)
(* net is lost than one behind another at its node, or of a net left out. *)
THEOREM OutputIsWhole == Spec => []OutputWhole
<1>1. RouteInv => OutputWhole
  BY DEF RouteInv
<1> QED
  BY <1>1, Invariant, PTL

(* GivesUpForCause: when the queue is empty, the nodes used are a set that *)
(* no pip over free nodes leaves and that no missing stub is in. *)
THEOREM GivesUpOnlyForCause == Spec => []GivesUpForCause
<1>1. ASSUME RouteInv, pc = "search", alt_route_options = {}
      PROVE  \E reached \in SUBSET Nodes :
               /\ Sources[net] \subseteq reached
               /\ \A p \in Pips :
                    NodeIn[p] \in reached /\ ~is_pip_stored(net, p)
                      => NodeOut[p] \in reached
               /\ stubs \cap reached \subseteq Sources[net]
  <2>1. used_nodes \in SUBSET Nodes /\ Sources[net] \subseteq used_nodes
    BY <1>1 DEF RouteInv, TypeOK, SearchSets, InSearch
  <2>2. sources = {}
    BY <1>1 DEF RouteInv, StubsFound, InSearch
  <2>3. \A p \in Pips : NodeIn[p] \in used_nodes /\ ~is_pip_stored(net, p)
                          => NodeOut[p] \in used_nodes
    BY <1>1, <2>2 DEF RouteInv, Covered
  <2>4. stubs \cap used_nodes \subseteq Sources[net]
    BY <1>1 DEF RouteInv, SearchSets, InSearch, Covered
  <2> QED
    BY <2>1, <2>3, <2>4
<1>2. RouteInv => GivesUpForCause
  BY <1>1 DEF GivesUpForCause
<1> QED
  BY <1>2, Invariant, PTL

LEMMA SearchActions ==
  ASSUME RouteInv, [Next]_vars, ~AddSource, ~Expand, ~Found
  PROVE  alt_route_options' = {} \/ route_storage' = route_storage
<1> USE DEF search
<1>1. CASE Blocking
  BY <1>1 DEF Blocking, BlockResources, StartRouting, Unless
<1>2. CASE NetLoop
  BY <1>2 DEF NetLoop, SkipNet, CopyNet, StartNet, Write, Unless
<1>3. CASE StartSearch \/ FoundLast \/ Fail
  BY <1>3 DEF StartSearch, FoundLast, Fail, Unless
<1>4. CASE Store
  BY <1>4 DEF Store, WalkBack, BuildTree, Unless
<1>5. CASE RequestStop \/ Ended \/ UNCHANGED vars
  BY <1>5 DEF RequestStop, Ended, vars
<1> QED
  BY <1>1, <1>2, <1>3, <1>4, <1>5 DEF Next, Thread, Search

(* add_node_pips writes no entry whose pip is in the queue. *)
LEMMA AddNodePipsKeeps ==
  ASSUME RouteInv, pc \in {"sources", "search"},
         NEW x \in Nodes, NEW parent, NEW queue, NEW nodes,
         AddNodePips(x, parent, queue, nodes)
  PROVE  \A p \in alt_route_options : route_storage'[Id[p]] = route_storage[Id[p]]
<1> SUFFICES ASSUME NEW p \in alt_route_options
             PROVE  route_storage'[Id[p]] = route_storage[Id[p]]
  OBVIOUS
<1> DEFINE added == IF parent # Root /\ is_pip_stored(net, parent) THEN {}
                    ELSE Added(x)
<1>1. p \in Pips /\ Id[p] \in used_pips /\ Id[p] \in Ids
  BY DEF RouteInv, TypeOK, SearchSets, InSearch, Ids
<1>2. \A q \in added : Id[q] \notin used_pips
  BY AddedPips DEF Unused
<1>3. route_storage' =
        [i \in Ids |->
           IF \E q \in added : Id[q] = i
           THEN Info(CHOOSE q \in added : Id[q] = i, parent, nodes)
           ELSE route_storage[i]]
  BY DEF AddNodePips
<1> HIDE DEF added
<1> QED
  BY <1>1, <1>2, <1>3

(* QueuedCostsKept: the costs a pip waits with are not written again. *)
THEOREM CostsKept == Spec => QueuedCostsKept
<1>1. ASSUME RouteInv, [Next]_vars
      PROVE  \A p \in alt_route_options \cap alt_route_options' :
               route_storage'[Id[p]] = route_storage[Id[p]]
  <2>1. CASE AddSource
    <3>1. PICK x \in sources : AddNodePips(x, Root, alt_route_options, stubs)
      BY <2>1 DEF AddSource
    <3>2. x \in Nodes /\ pc = "sources"
      BY <1>1, <2>1 DEF RouteInv, TypeOK, AddSource
    <3> QED
      BY <1>1, <3>1, <3>2, AddNodePipsKeeps
  <2>2. CASE Expand
    <3>1. PICK p \in alt_route_options :
            AddNodePips(NodeOut[p], p, alt_route_options \ {p}, stubs)
      BY <2>2 DEF Expand
    <3>2. NodeOut[p] \in Nodes /\ pc = "search"
      BY <1>1, <2>2, DeviceAssumption DEF RouteInv, TypeOK, Expand, Searching
    <3> QED
      BY <1>1, <3>1, <3>2, AddNodePipsKeeps
  <2>3. CASE Found
    <3>1. pc = "search"
      BY <2>3 DEF Found, Searching
    <3>2. PICK p \in alt_route_options :
            Unless(is_pip_stored(net, p),
              /\ AddNodePips(NodeOut[p], p, alt_route_options \ {p},
                             stubs \ {NodeOut[p]})
              /\ stubs' = stubs \ {NodeOut[p]}
              /\ pip_stubs' = pip_stubs \cup {p}
              /\ attempts' = attempts + 1
              /\ UNCHANGED <<pc, net, stored_nodes_nets, sources, walk, phys_nets>>)
      BY <2>3 DEF Found
    <3>3. ~is_pip_stored(net, p)
      BY <1>1, <3>1, QueueIsFree
    <3>4. AddNodePips(NodeOut[p], p, alt_route_options \ {p}, stubs \ {NodeOut[p]})
      BY <3>2, <3>3 DEF Unless
    <3>5. NodeOut[p] \in Nodes
      BY <1>1, DeviceAssumption DEF RouteInv, TypeOK
    <3> QED
      BY <1>1, <3>1, <3>4, <3>5, AddNodePipsKeeps
  <2>4. CASE ~AddSource /\ ~Expand /\ ~Found
    BY <1>1, <2>4, SearchActions
  <2> QED
    BY <2>1, <2>2, <2>3, <2>4
<1> QED
  BY <1>1, Invariant, PTL DEF Spec, QueuedCostsKept

-----------------------------------------------------------------------------
(* The router implements TreeRouting. *)

trees == [n \in Nets |-> {b[2] : b \in phys_nets[n].branches}]

LEMMA NoTreeYet ==
  ASSUME RouteInv
  PROVE  \A n \in Nets : pc = "block" \/ n >= net => trees[n] = {}
BY DEF RouteInv, Unwritten, NoNet, trees

(* Only block_resources and build_tree store nodes, and only build_tree    *)
(* writes branches. *)
LEMMA OwnersKept ==
  ASSUME RouteInv, [Next]_vars, ~BlockResources, ~BuildTree
  PROVE  stored_nodes_nets' = stored_nodes_nets /\ trees' = trees
<1>1. CASE UNCHANGED <<stored_nodes_nets, phys_nets>>
  BY <1>1 DEF trees
<1>2. CASE SkipNet \/ CopyNet \/ Fail
  <2>1. PICK written \in {NoNet, Unrouted(net)} : NextNet(written)
    BY <1>2 DEF SkipNet, CopyNet, Fail
  <2>2. written.branches = {}
    BY <2>1 DEF NoNet, Unrouted
  <2>3. phys_nets \in [Nets -> PhysNet]
    BY DEF RouteInv, TypeOK
  <2>4. \A n \in Nets : phys_nets'[n].branches = phys_nets[n].branches
    <3>1. \A n \in Nets : n # net => phys_nets'[n] = phys_nets[n]
      BY <2>1, <2>3 DEF NextNet
    <3>2. net \in Nets => phys_nets'[net] = written
      BY <2>1, <2>3 DEF NextNet
    <3>3. net \in Nets => phys_nets[net].branches = {}
      BY DEF RouteInv, Unwritten, NoNet, Nets
    <3> QED
      BY <2>2, <3>1, <3>2, <3>3
  <2> QED
    BY <1>2, <2>4 DEF trees, SkipNet, CopyNet, Fail
<1>3. CASE StartRouting \/ StartNet \/ Write \/ StartSearch \/ WalkBack
  BY <1>1, <1>3 DEF StartRouting, StartNet, Write, StartSearch, WalkBack, Unless
<1>4. CASE AddSource \/ Expand \/ Found \/ FoundLast
  BY <1>1, <1>4 DEF AddSource, Expand, Found, FoundLast, Unless
<1>5. CASE RequestStop \/ Ended \/ UNCHANGED vars
  BY <1>1, <1>5 DEF RequestStop, Ended, vars
<1> QED
  BY <1>2, <1>3, <1>4, <1>5 DEF Next, Thread, Blocking, NetLoop, Search, Store

LEMMA BlockIsReserve ==
  ASSUME RouteInv, BlockResources
  PROVE  Routing!Next \/ UNCHANGED <<stored_nodes_nets, trees>>
<1> DEFINE nodes == input.resources[net]
<1>1. /\ TypeOK /\ pc = "block" /\ net \in Nets /\ None \notin Nets
  BY NetlistAssumption DEF RouteInv, BlockResources, TypeOK, Nets
<1>2. CASE \E x \in nodes : is_node_stored(net, x)
  BY <1>2 DEF BlockResources, Unless, trees
<1>3. CASE ~ \E x \in nodes : is_node_stored(net, x)
  <2>1. store_nodes(net, nodes) /\ UNCHANGED phys_nets
    BY <1>3 DEF BlockResources, Unless
  <2>2. \A m \in Nets : trees[m] = {}
    BY <1>1, NoTreeYet
  <2>3. \A x \in Nodes : stored_nodes_nets'[x] # stored_nodes_nets[x] =>
          stored_nodes_nets[x] = None /\ stored_nodes_nets'[x] = net
    BY <1>3, <2>1 DEF store_nodes, is_node_stored
  <2>4. DOMAIN stored_nodes_nets' = Nodes /\ UNCHANGED trees
    BY <2>1 DEF store_nodes, trees
  <2>5. Routing!Reserve(net)
    BY <2>2, <2>3, <2>4 DEF Routing!Reserve, trees
  <2> QED
    BY <1>1, <2>5 DEF Routing!Next
<1> QED
  BY <1>2, <1>3

LEMMA BuildIsTake ==
  ASSUME RouteInv, BuildTree
  PROVE  Routing!Next
<1>1. /\ TypeOK /\ SearchForest /\ pc = "walk" /\ pips_to_process = {} /\ InSearch
      /\ net \in Nets /\ net \in Nat /\ None \notin Nets
  BY NetlistAssumption DEF RouteInv, BuildTree, AtNet, InSearch, Nets
<1>2. /\ Walked \subseteq appended /\ Walked \subseteq Pips
      /\ pip_stubs \subseteq Walked
      /\ {NodeOut[p] : p \in pip_stubs} = StubNodes[net]
      /\ \A b \in route_ids :
           /\ b[2] \in Walked
           /\ \/ b[1] = Root /\ NodeIn[b[2]] \in Sources[net]
              \/ b[1] \in Walked /\ NodeOut[b[1]] = NodeIn[b[2]]
      /\ TreeNodes = {NodeIn[p] : p \in Walked} \cup {NodeOut[p] : p \in Walked}
      /\ ~ \E x \in TreeNodes : is_node_stored(net, x)
  BY <1>1, TreeIsWhole
<1>3. store_nodes(net, TreeNodes) /\ NextNet(Routed(net))
  BY <1>2 DEF BuildTree, Unless
<1>4. /\ phys_nets'[net].branches = route_ids
      /\ \A m \in Nets \ {net} : phys_nets'[m] = phys_nets[m]
  BY <1>1, <1>3 DEF NextNet, Routed, TypeOK
<1>5. /\ trees'[net] = Walked
      /\ \A m \in Nets \ {net} : trees'[m] = trees[m]
      /\ DOMAIN trees' = Nets
  BY <1>1, <1>4 DEF trees, Walked
<1>6. trees[net] = {}
  BY <1>1, NoTreeYet
<1>7. Routing!IsTree(net, Walked)
  <2>1. ASSUME NEW p \in Walked
        PROVE  /\ NodeIn[p] \in Sources[net] \/ \E q \in Walked : NodeOut[q] = NodeIn[p]
               /\ NodeOut[p] \notin Sources[net]
    <3>1. PICK b \in route_ids : b[2] = p
      BY DEF Walked
    <3> QED
      BY <1>1, <1>2, <3>1 DEF SearchForest
  <2>2. \A p, q \in Walked : NodeOut[p] = NodeOut[q] => p = q
    BY <1>1, <1>2 DEF SearchForest
  <2>3. Routing!NoCycle(Walked)
    BY <1>1, <1>2 DEF SearchForest, NoCycle, Routing!NoCycle
  <2> QED
    BY <1>2, <2>1, <2>2, <2>3 DEF Routing!IsTree
<1>8. \A x \in StubNodes[net] : \E p \in Walked : NodeOut[p] = x
  BY <1>2
<1>9. TreeNodes = Routing!NodesOf(Walked)
  BY <1>2 DEF Routing!NodesOf
<1>10. \A x \in TreeNodes : stored_nodes_nets[x] \in {net, None}
  BY <1>2 DEF is_node_stored
<1>11. stored_nodes_nets' =
         [x \in Nodes |-> IF x \in TreeNodes THEN net ELSE stored_nodes_nets[x]]
  BY <1>3 DEF store_nodes
<1>12. PICK this \in Nets : this = net
  BY <1>1
<1>13. Routing!Take(this)
  BY <1>5, <1>6, <1>7, <1>8, <1>9, <1>10, <1>11, <1>12 DEF Routing!Take, trees
<1> QED
  BY <1>13 DEF Routing!Next

(* TreeRoutingSpec: every run of the router is a run of TreeRouting: nets  *)
(* reserve free nodes, then take whole trees over nodes of no other net. *)
THEOREM ImplementsTreeRouting == Spec => TreeRoutingSpec
<1>1. Init => Routing!Init
  BY DEF Init, Routing!Init, NoNet
<1>2. ASSUME RouteInv, [Next]_vars
      PROVE  [Routing!Next]_(Routing!vars)
  <2>1. CASE BlockResources
    BY <1>2, <2>1, BlockIsReserve DEF Routing!vars, trees
  <2>2. CASE BuildTree
    BY <1>2, <2>2, BuildIsTake
  <2>3. CASE ~BlockResources /\ ~BuildTree
    BY <1>2, <2>3, OwnersKept DEF Routing!vars, trees
  <2> QED
    BY <2>1, <2>2, <2>3
<1> QED
  BY <1>1, <1>2, Invariant, PTL DEF Spec, TreeRoutingSpec, Routing!Spec

-----------------------------------------------------------------------------
(***************************************************************************)
(* The files the router searches (RenumberedWires), for every device that  *)
(* satisfies the assumptions of that module and every checksum.            *)
(*                                                                         *)
(* Each part of the making leaves to those after it what it has made: the  *)
(* wires of the nodes, each at a place of its own in the bucket of its     *)
(* name; then the numbers, which are those places, in the file of nodes    *)
(* and for the node of a wire; then the pips, at the wires and at the      *)
(* nodes they leave; then the pins, in the buckets of their names.         *)
(***************************************************************************)

(* A set with 0 and the successor of each of its numbers has all numbers. *)
LEMMA Inductive ==
  ASSUME NEW T, 0 \in T, \A n \in Nat : n \in T => n + 1 \in T
  PROVE  \A n \in Nat : n \in T
<1> DEFINE U == {n \in Nat : n \notin T}
<1> SUFFICES ASSUME U # {} PROVE FALSE
  OBVIOUS
<1>1. PICK x \in U : \A y \in U : x <= y
  BY Least
<1>2. x \in Nat \ {0}
  BY <1>1
<1>3. x - 1 \in Nat /\ x - 1 \in T
  BY <1>1, <1>2
<1> QED
  BY <1>1, <1>2, <1>3

-----------------------------------------------------------------------------
(* Concatenations: where each vector begins, and what is there. *)

(* Offsets is the function its recursion describes. *)
LEMMA OffsetsRecursion ==
  ASSUME NEW vectors, Len(vectors) \in Nat
  PROVE  Offsets(vectors) = [i \in 1..(Len(vectors) + 1) |->
           IF i = 1 THEN 0 ELSE Offsets(vectors)[i - 1] + Len(vectors[i - 1])]
<1> DEFINE D(f, i) == IF i = 1 THEN 0 ELSE f[i - 1] + Len(vectors[i - 1])
           Is(f, n) == f = [i \in 1..n |-> D(f, i)]
           T == {n \in Nat : \E f : Is(f, n)}
<1>1. 0 \in T
  <2> DEFINE g == [i \in 1..0 |-> {}]
  <2>1. Is(g, 0)
    OBVIOUS
  <2> HIDE DEF Is, g
  <2> QED
    BY <2>1
<1>2. ASSUME NEW n \in Nat, n \in T PROVE n + 1 \in T
  <2>1. PICK f : Is(f, n)
    BY <1>2
  <2> DEFINE g == [i \in 1..(n + 1) |-> IF i = n + 1 THEN D(f, i) ELSE f[i]]
  <2>2. ASSUME NEW i \in 1..(n + 1) PROVE g[i] = D(g, i)
    <3>1. i # 1 => g[i - 1] = f[i - 1]
      OBVIOUS
    <3>2. D(g, i) = D(f, i)
      BY <3>1
    <3>3. i # n + 1 => f[i] = D(f, i)
      <4> HIDE DEF D
      <4> QED
        BY <2>1
    <3> HIDE DEF D
    <3> QED
      BY <3>2, <3>3
  <2>3. Is(g, n + 1)
    <3> HIDE DEF D
    <3>1. g = [i \in 1..(n + 1) |-> g[i]]
      OBVIOUS
    <3> HIDE DEF g
    <3> QED
      BY <2>2, <3>1
  <2> HIDE DEF Is, g
  <2> QED
    BY <2>3
<1> HIDE DEF T
<1>3. Len(vectors) + 1 \in T
  BY <1>1, <1>2, Inductive
<1>4. PICK f : Is(f, Len(vectors) + 1)
  BY <1>3 DEF T
<1> QED
  BY <1>4, Zenon DEF Offsets

(* A vector begins where the one before it ends. *)
LEMMA OffsetsSums ==
  ASSUME NEW S, NEW vectors \in Seq(Seq(S))
  PROVE  /\ Offsets(vectors) \in [1..(Len(vectors) + 1) -> Nat]
         /\ Offsets(vectors)[1] = 0
         /\ \A i \in 1..Len(vectors) :
              Offsets(vectors)[i + 1] = Offsets(vectors)[i] + Len(vectors[i])
<1> DEFINE B == Offsets(vectors)
<1>1. B = [i \in 1..(Len(vectors) + 1) |-> IF i = 1 THEN 0 ELSE B[i - 1] + Len(vectors[i - 1])]
  <2>1. Len(vectors) \in Nat
    OBVIOUS
  <2> QED
    BY <2>1, OffsetsRecursion, Zenon
<1>2. \A i \in 1..(Len(vectors) + 1) :
        B[i] = IF i = 1 THEN 0 ELSE B[i - 1] + Len(vectors[i - 1])
  <2> HIDE DEF B
  <2> QED
    BY <1>1
<1> HIDE DEF B
<1>3. B[1] = 0
  BY <1>2
<1>4. \A i \in 1..Len(vectors) : B[i + 1] = B[i] + Len(vectors[i])
  BY <1>2
<1> DEFINE T == {n \in Nat : n <= Len(vectors) => B[n + 1] \in Nat}
<1>5. 0 \in T
  BY <1>3
<1>6. ASSUME NEW n \in Nat, n \in T PROVE n + 1 \in T
  BY <1>6, <1>4
<1>7. \A n \in Nat : n \in T
  <2> HIDE DEF T
  <2> QED
    BY <1>5, <1>6, Inductive
<1>8. ASSUME NEW i \in 1..(Len(vectors) + 1) PROVE B[i] \in Nat
  <2>1. i - 1 \in Nat /\ (i - 1) + 1 = i /\ i - 1 <= Len(vectors)
    OBVIOUS
  <2>2. i - 1 \in T
    BY <1>7, <2>1
  <2> QED
    BY <2>1, <2>2
<1>9. B = [i \in 1..(Len(vectors) + 1) |-> B[i]]
  BY <1>1, Zenon
<1>10. B \in [1..(Len(vectors) + 1) -> Nat]
  BY <1>8, <1>9
<1> QED
  BY <1>3, <1>4, <1>10 DEF B

(* The places where vectors begin are in order. *)
LEMMA OffsetsGrows ==
  ASSUME NEW S, NEW vectors \in Seq(Seq(S)),
         NEW i \in 1..(Len(vectors) + 1), NEW j \in 1..(Len(vectors) + 1), i <= j
  PROVE  Offsets(vectors)[i] <= Offsets(vectors)[j]
<1> DEFINE B == Offsets(vectors)
           T == {n \in Nat : i + n <= Len(vectors) + 1 => B[i] <= B[i + n]}
<1>1. /\ B \in [1..(Len(vectors) + 1) -> Nat]
      /\ \A k \in 1..Len(vectors) : B[k + 1] = B[k] + Len(vectors[k])
  BY OffsetsSums
<1> HIDE DEF B
<1>2. 0 \in T
  <2>1. B[i] \in Nat
    BY <1>1
  <2>2. i + 0 = i
    OBVIOUS
  <2> QED
    BY <2>1, <2>2
<1>3. ASSUME NEW n \in Nat, n \in T PROVE n + 1 \in T
  <2> SUFFICES ASSUME i + (n + 1) <= Len(vectors) + 1 PROVE B[i] <= B[i + (n + 1)]
    OBVIOUS
  <2>1. i + n \in 1..Len(vectors) /\ i + (n + 1) = (i + n) + 1
    OBVIOUS
  <2>2. Len(vectors[i + n]) \in Nat
    BY <2>1
  <2>3. B[i] \in Nat
    BY <1>1
  <2>6. B[i + n] \in Nat
    <3>1. i + n \in 1..(Len(vectors) + 1)
      BY <2>1
    <3> QED
      BY <1>1, <3>1
  <2>5. B[(i + n) + 1] = B[i + n] + Len(vectors[i + n])
    <3> \A k \in 1..Len(vectors) : B[k + 1] = B[k] + Len(vectors[k])
      BY <1>1
    <3> QED
      BY <2>1, Zenon
  <2>4. B[i] <= B[i + n]
    BY <1>3, <2>1
  <2> QED
    BY <2>1, <2>2, <2>3, <2>4, <2>5, <2>6
<1>4. j - i \in T
  <2>1. j - i \in Nat
    OBVIOUS
  <2> HIDE DEF T
  <2> QED
    BY <1>2, <1>3, <2>1, Inductive
<1>5. i + (j - i) = j
  OBVIOUS
<1> QED
  BY <1>4, <1>5 DEF B

(* What FlattenSeq builds, vector by vector. *)
Flattening(seqs) ==
  CHOOSE f : f = [i \in 1..Len(seqs) |-> IF i = 1 THEN seqs[i] ELSE f[i - 1] \o seqs[i]]

(* Flattening is the function its recursion describes. *)
LEMMA FlatteningRecursion ==
  ASSUME NEW seqs, Len(seqs) \in Nat
  PROVE  Flattening(seqs) = [i \in 1..Len(seqs) |->
           IF i = 1 THEN seqs[i] ELSE Flattening(seqs)[i - 1] \o seqs[i]]
<1> DEFINE D(f, i) == IF i = 1 THEN seqs[i] ELSE f[i - 1] \o seqs[i]
           Is(f, n) == f = [i \in 1..n |-> D(f, i)]
           T == {n \in Nat : \E f : Is(f, n)}
<1>1. 0 \in T
  <2> DEFINE g == [i \in 1..0 |-> {}]
  <2>1. Is(g, 0)
    OBVIOUS
  <2> HIDE DEF Is, g
  <2> QED
    BY <2>1
<1>2. ASSUME NEW n \in Nat, n \in T PROVE n + 1 \in T
  <2>1. PICK f : Is(f, n)
    BY <1>2
  <2> DEFINE g == [i \in 1..(n + 1) |-> IF i = n + 1 THEN D(f, i) ELSE f[i]]
  <2>2. ASSUME NEW i \in 1..(n + 1) PROVE g[i] = D(g, i)
    <3>1. i # 1 => g[i - 1] = f[i - 1]
      OBVIOUS
    <3>2. D(g, i) = D(f, i)
      BY <3>1
    <3>3. i # n + 1 => f[i] = D(f, i)
      <4> HIDE DEF D
      <4> QED
        BY <2>1
    <3> HIDE DEF D
    <3> QED
      BY <3>2, <3>3
  <2>3. Is(g, n + 1)
    <3> HIDE DEF D
    <3>1. g = [i \in 1..(n + 1) |-> g[i]]
      OBVIOUS
    <3> HIDE DEF g
    <3> QED
      BY <2>2, <3>1
  <2> HIDE DEF Is, g
  <2> QED
    BY <2>3
<1> HIDE DEF T
<1>3. Len(seqs) \in T
  BY <1>1, <1>2, Inductive
<1>4. PICK f : Is(f, Len(seqs))
  BY <1>3 DEF T
<1> QED
  BY <1>4, Zenon DEF Flattening

(* The entries of a concatenation. *)
LEMMA Concatenated ==
  ASSUME NEW S, NEW a \in Seq(S), NEW b \in Seq(S)
  PROVE  /\ a \o b \in Seq(S) /\ Len(a \o b) = Len(a) + Len(b)
         /\ \A j \in 1..Len(a) : (a \o b)[j] = a[j]
         /\ \A j \in 1..Len(b) : (a \o b)[Len(a) + j] = b[j]
OBVIOUS

(* The concatenation of the vectors has each where Offsets says. *)
LEMMA Flattened ==
  ASSUME NEW S, NEW seqs \in Seq(Seq(S))
  PROVE  /\ FlattenSeq(seqs) \in Seq(S)
         /\ Len(FlattenSeq(seqs)) = Offsets(seqs)[Len(seqs) + 1]
         /\ \A i \in 1..Len(seqs) : \A j \in 1..Len(seqs[i]) :
              FlattenSeq(seqs)[Offsets(seqs)[i] + j] = seqs[i][j]
<1> DEFINE B == Offsets(seqs)
           F == Flattening(seqs)
           L == Len(seqs)
<1>1. /\ B \in [1..(L + 1) -> Nat]
      /\ B[1] = 0
      /\ \A i \in 1..L : B[i + 1] = B[i] + Len(seqs[i])
  BY OffsetsSums
<1>2. \A i \in 1..(L + 1) : \A k \in 1..(L + 1) : i <= k => B[i] <= B[k]
  BY OffsetsGrows
<1>3. F = [i \in 1..L |-> IF i = 1 THEN seqs[i] ELSE F[i - 1] \o seqs[i]]
  <2>1. L \in Nat
    OBVIOUS
  <2> QED
    BY <2>1, FlatteningRecursion, Zenon
<1>4. \A i \in 1..L : F[i] = IF i = 1 THEN seqs[i] ELSE F[i - 1] \o seqs[i]
  <2> HIDE DEF F
  <2> QED
    BY <1>3
<1>5. L \in Nat /\ \A i \in 1..L : seqs[i] \in Seq(S) /\ Len(seqs[i]) \in Nat
  OBVIOUS
<1>6. FlattenSeq(seqs) = IF L = 0 THEN seqs ELSE F[L]
  BY DEF FlattenSeq, Flattening
<1> HIDE DEF B, F, L
<1> DEFINE Part(n) == /\ F[n] \in Seq(S) /\ Len(F[n]) = B[n + 1]
                      /\ \A i \in 1..n : \A j \in 1..Len(seqs[i]) : F[n][B[i] + j] = seqs[i][j]
           T == {n \in Nat : n \in 1..L => Part(n)}
<1>7. 0 \in T
  OBVIOUS
<1>8. ASSUME NEW n \in Nat, n \in T PROVE n + 1 \in T
  <2> SUFFICES ASSUME n + 1 \in 1..L PROVE Part(n + 1)
    BY SMTT(60)
  <2> DEFINE m == n + 1
  <2>1. m \in 1..L /\ m \in Nat /\ m - 1 = n /\ m \in 1..(L + 1) /\ m + 1 \in 1..(L + 1)
    BY <1>5
  <2>2. B[m + 1] = B[m] + Len(seqs[m]) /\ B[m] \in Nat /\ Len(seqs[m]) \in Nat
    <3>1. B[m] \in Nat
      BY <1>1, <2>1
    <3>2. B[m + 1] = B[m] + Len(seqs[m])
      BY <1>1, <2>1
    <3> QED
      BY <1>5, <2>1, <3>1, <3>2
  <2>3. CASE n = 0
    <3>1. F[m] = seqs[m] /\ m = 1
      BY <1>4, <2>1, <2>3
    <3>2. \A j \in 1..Len(seqs[1]) : B[1] + j = j
      BY <1>1
    <3>3. F[m] \in Seq(S) /\ Len(F[m]) = B[m + 1]
      BY <1>1, <1>5, <2>1, <2>2, <3>1
    <3>4. ASSUME NEW i \in 1..m, NEW j \in 1..Len(seqs[i]) PROVE F[m][B[i] + j] = seqs[i][j]
      <4>1. i = 1
        BY <3>1
      <4> QED
        BY <3>1, <3>2, <4>1
    <3> QED
      BY <3>3, <3>4
  <2>4. CASE n # 0
    <3>1. n \in 1..L /\ n \in 1..(L + 1) /\ m # 1
      BY <1>5, <2>1, <2>4
    <3>2. Part(n)
      BY <1>8, <3>1
    <3>3. F[m] = F[n] \o seqs[m]
      <4> HIDE DEF m
      <4>1. F[m] = IF m = 1 THEN seqs[m] ELSE F[m - 1] \o seqs[m]
        BY <1>4, <2>1
      <4> QED
        BY <2>1, <3>1, <4>1
    <3>4. seqs[m] \in Seq(S)
      BY <1>5, <2>1
    <3>5. /\ F[m] \in Seq(S) /\ Len(F[m]) = Len(F[n]) + Len(seqs[m])
          /\ \A j \in 1..Len(F[n]) : F[m][j] = F[n][j]
          /\ \A j \in 1..Len(seqs[m]) : F[m][Len(F[n]) + j] = seqs[m][j]
      <4> HIDE DEF m
      <4>1. F[n] \in Seq(S)
        BY <3>2
      <4> HIDE DEF Part
      <4> QED
        <5> DEFINE a == F[n]
                   b == seqs[m]
        <5> HIDE DEF a, b
        <5>1. /\ a \o b \in Seq(S) /\ Len(a \o b) = Len(a) + Len(b)
              /\ \A j \in 1..Len(a) : (a \o b)[j] = a[j]
              /\ \A j \in 1..Len(b) : (a \o b)[Len(a) + j] = b[j]
          <6> a \in Seq(S) /\ b \in Seq(S)
            BY <3>4, <4>1 DEF a, b
          <6> QED
            OBVIOUS
        <5> QED
          BY <3>3, <5>1, Zenon DEF a, b
    <3>6. Len(F[n]) = B[m]
      BY <3>2
    <3>7. ASSUME NEW i \in 1..m, NEW j \in 1..Len(seqs[i]) PROVE F[m][B[i] + j] = seqs[i][j]
      <4>1. CASE i = m
        BY <3>5, <3>6, <4>1
      <4>2. CASE i # m
        <5>1. i \in 1..n /\ i \in 1..L /\ i \in 1..(L + 1) /\ i + 1 \in 1..(L + 1) /\ i + 1 <= m
          BY <1>5, <2>1, <4>2
        <5>2. B[i + 1] = B[i] + Len(seqs[i]) /\ Len(seqs[i]) \in Nat
          BY <1>1, <1>5, <5>1
        <5>3. B[i] \in Nat
          BY <1>1, <5>1
        <5>4. B[i + 1] <= B[m]
          BY <1>2, <2>1, <5>1
        <5>5. B[i] + j \in 1..Len(F[n])
          <6>1. j \in Nat /\ 1 <= j /\ j <= Len(seqs[i])
            BY <5>2
          <6>2. B[i] + j <= B[i + 1]
            BY <5>2, <5>3, <6>1
          <6>3. B[i + 1] \in Nat /\ B[m] \in Nat
            BY <2>2, <5>2, <5>3, SMTT(60)
          <6>4. B[i] + j \in Nat /\ 1 <= B[i] + j
            BY <5>3, <6>1
          <6> HIDE DEF m
          <6>5. B[i] + j <= B[m]
            BY <5>4, <6>2, <6>3, <6>4
          <6> QED
            BY <3>6, <6>3, <6>4, <6>5
        <5>6. F[n][B[i] + j] = seqs[i][j]
          BY <3>2, <5>1
        <5> QED
          BY <3>5, <5>5, <5>6
      <4> QED
        BY <4>1, <4>2
    <3>8. Len(F[m]) = B[m + 1]
      BY <2>2, <3>5, <3>6
    <3> QED
      BY <3>5, <3>7, <3>8
  <2> QED
    BY <2>3, <2>4
<1>9. L \in T
  <2> HIDE DEF T
  <2> QED
    BY <1>5, <1>7, <1>8, Inductive
<1>10. CASE L = 0
  <2>1. FlattenSeq(seqs) = seqs /\ seqs = << >>
    BY <1>6, <1>10 DEF L
  <2> QED
    BY <1>1, <1>10, <2>1 DEF B, L
<1>11. CASE L # 0
  <2>1. Part(L)
    BY <1>5, <1>9, <1>11
  <2> QED
    BY <1>6, <1>11, <2>1 DEF B, L
<1> QED
  BY <1>10, <1>11

(* Every place of a concatenation is one of some vector. *)
LEMMA Located ==
  ASSUME NEW S, NEW seqs \in Seq(Seq(S)), NEW k \in 1..Offsets(seqs)[Len(seqs) + 1]
  PROVE  \E i \in 1..Len(seqs) : \E j \in 1..Len(seqs[i]) : k = Offsets(seqs)[i] + j
<1> DEFINE B == Offsets(seqs)
           T == {i \in 1..Len(seqs) : k <= B[i + 1]}
<1>1. /\ B \in [1..(Len(seqs) + 1) -> Nat]
      /\ B[1] = 0
      /\ \A i \in 1..Len(seqs) : B[i + 1] = B[i] + Len(seqs[i])
  BY OffsetsSums
<1>2. k \in Nat /\ 1 <= k /\ k <= B[Len(seqs) + 1]
  <2>1. B[Len(seqs) + 1] \in Nat
    BY <1>1
  <2> QED
    BY <2>1
<1> HIDE DEF B
<1>3. Len(seqs) \in T
  <2>1. Len(seqs) # 0
    <3> SUFFICES ASSUME Len(seqs) = 0 PROVE FALSE
      OBVIOUS
    <3>1. Len(seqs) + 1 = 1
      OBVIOUS
    <3> QED
      BY <1>1, <1>2, <3>1
  <2>2. Len(seqs) \in 1..Len(seqs)
    BY <2>1
  <2> QED
    BY <1>2, <2>2
<1>4. PICK i \in T : \A n \in T : i <= n
  <2>1. T \subseteq Nat /\ T # {}
    BY <1>3
  <2> HIDE DEF T
  <2> QED
    BY <2>1, Least
<1>5. i \in 1..Len(seqs) /\ k <= B[i + 1] /\ B[i] \in Nat
  <2>1. i \in 1..Len(seqs) /\ k <= B[i + 1]
    BY <1>4
  <2>2. i \in 1..(Len(seqs) + 1)
    BY <2>1
  <2>3. B[i] \in Nat
    BY <1>1, <2>2
  <2> QED
    BY <2>1, <2>3
<1>6. B[i] < k
  <2>1. CASE i = 1
    BY <1>1, <1>2, <2>1
  <2>2. CASE i # 1
    <3>1. i - 1 \in 1..Len(seqs) /\ (i - 1) + 1 = i /\ ~(i <= i - 1)
      BY <1>5, <2>2
    <3>2. i - 1 \notin T
      BY <1>4, <3>1
    <3> QED
      BY <1>2, <1>5, <3>1, <3>2
  <2> QED
    BY <2>1, <2>2
<1>7. B[i + 1] = B[i] + Len(seqs[i]) /\ Len(seqs[i]) \in Nat
  BY <1>1, <1>5
<1>8. k - B[i] \in 1..Len(seqs[i]) /\ k = B[i] + (k - B[i])
  BY <1>2, <1>5, <1>6, <1>7
<1> QED
  BY <1>5, <1>8 DEF B

(* A concatenation has the entries of its vectors. *)
LEMMA FlattenedRange ==
  ASSUME NEW S, NEW seqs \in Seq(Seq(S))
  PROVE  ToSet(FlattenSeq(seqs)) = UNION {ToSet(seqs[i]) : i \in 1..Len(seqs)}
<1> DEFINE F == FlattenSeq(seqs)
           B == Offsets(seqs)
<1>1. /\ F \in Seq(S) /\ Len(F) = B[Len(seqs) + 1]
      /\ \A i \in 1..Len(seqs) : \A j \in 1..Len(seqs[i]) : F[B[i] + j] = seqs[i][j]
  BY Flattened
<1>2. \A k \in 1..Len(F) : \E i \in 1..Len(seqs) : \E j \in 1..Len(seqs[i]) : k = B[i] + j
  <2> SUFFICES ASSUME NEW k \in 1..B[Len(seqs) + 1]
               PROVE  \E i \in 1..Len(seqs) : \E j \in 1..Len(seqs[i]) : k = B[i] + j
    BY <1>1
  <2> QED
    BY Located, Zenon
<1>3. ASSUME NEW i \in 1..Len(seqs), NEW j \in 1..Len(seqs[i])
      PROVE  B[i] + j \in 1..Len(F)
  <2>1. /\ B[i] \in Nat /\ B[i + 1] \in Nat /\ B[i + 1] = B[i] + Len(seqs[i])
        /\ Len(seqs[i]) \in Nat
    <3>1. /\ B \in [1..(Len(seqs) + 1) -> Nat]
          /\ \A n \in 1..Len(seqs) : B[n + 1] = B[n] + Len(seqs[n])
      BY OffsetsSums
    <3>2. Len(seqs[i]) \in Nat /\ i \in 1..(Len(seqs) + 1) /\ i + 1 \in 1..(Len(seqs) + 1)
      OBVIOUS
    <3> HIDE DEF B
    <3> QED
      BY <3>1, <3>2
  <2>2. B[i + 1] <= B[Len(seqs) + 1]
    <3>1. i + 1 \in 1..(Len(seqs) + 1) /\ Len(seqs) + 1 \in 1..(Len(seqs) + 1) /\ i + 1 <= Len(seqs) + 1
      OBVIOUS
    <3> QED
      BY <3>1, OffsetsGrows
  <2>3. Len(F) \in Nat
    BY <1>1
  <2>4. j \in Nat /\ 1 <= j /\ j <= Len(seqs[i])
    BY <2>1
  <2> HIDE DEF B, F
  <2>5. B[Len(seqs) + 1] \in Nat
    BY <1>1, <2>3
  <2>6. B[i] + j <= B[Len(seqs) + 1]
    BY <2>1, <2>2, <2>4, <2>5
  <2> QED
    BY <1>1, <2>1, <2>4, <2>5, <2>6
<1> HIDE DEF B, F
<1>4. \A i \in 1..Len(seqs) : seqs[i] \in Seq(S) /\ DOMAIN seqs[i] = 1..Len(seqs[i])
  OBVIOUS
<1>5. DOMAIN F = 1..Len(F)
  BY <1>1
<1>6. ASSUME NEW x \in ToSet(F) PROVE \E i \in 1..Len(seqs) : x \in ToSet(seqs[i])
  <2>1. PICK k \in 1..Len(F) : x = F[k]
    BY <1>5 DEF ToSet
  <2>2. PICK i \in 1..Len(seqs) : \E j \in 1..Len(seqs[i]) : k = B[i] + j
    BY <1>2
  <2>4. PICK j \in 1..Len(seqs[i]) : k = B[i] + j
    BY <2>2
  <2>3. x = seqs[i][j]
    BY <1>1, <2>1, <2>4
  <2> QED
    BY <1>4, <2>3 DEF ToSet
<1>7. ASSUME NEW i \in 1..Len(seqs), NEW x \in ToSet(seqs[i]) PROVE x \in ToSet(F)
  <2>1. PICK j \in 1..Len(seqs[i]) : x = seqs[i][j]
    BY <1>4 DEF ToSet
  <2>2. x = F[B[i] + j] /\ B[i] + j \in DOMAIN F
    BY <1>1, <1>3, <1>5, <2>1
  <2> QED
    BY <2>2 DEF ToSet
<1> QED
  BY <1>6, <1>7 DEF F

(* Vectors without repetition that share nothing have a concatenation without. *)
LEMMA FlattenedInjective ==
  ASSUME NEW S, NEW seqs \in Seq(Seq(S)),
         \A i \in 1..Len(seqs) : IsInjective(seqs[i]),
         \A i, k \in 1..Len(seqs) : i # k => ToSet(seqs[i]) \cap ToSet(seqs[k]) = {}
  PROVE  IsInjective(FlattenSeq(seqs))
<1> DEFINE F == FlattenSeq(seqs)
           B == Offsets(seqs)
<1>1. /\ F \in Seq(S) /\ Len(F) = B[Len(seqs) + 1]
      /\ \A i \in 1..Len(seqs) : \A j \in 1..Len(seqs[i]) : F[B[i] + j] = seqs[i][j]
  BY Flattened
<1>2. \A k \in 1..Len(F) : \E i \in 1..Len(seqs) : \E j \in 1..Len(seqs[i]) : k = B[i] + j
  <2> SUFFICES ASSUME NEW k \in 1..B[Len(seqs) + 1]
               PROVE  \E i \in 1..Len(seqs) : \E j \in 1..Len(seqs[i]) : k = B[i] + j
    BY <1>1
  <2> QED
    BY Located, Zenon
<1> HIDE DEF F, B
<1>3. \A i \in 1..Len(seqs) : DOMAIN seqs[i] = 1..Len(seqs[i])
  OBVIOUS
<1>4. DOMAIN F = 1..Len(F)
  BY <1>1
<1>5. ASSUME NEW a \in 1..Len(F), NEW b \in 1..Len(F), F[a] = F[b] PROVE a = b
  <2>11. PICK i \in 1..Len(seqs) : \E j \in 1..Len(seqs[i]) : a = B[i] + j
    BY <1>2
  <2>1. PICK j \in 1..Len(seqs[i]) : a = B[i] + j
    BY <2>11
  <2>12. PICK k \in 1..Len(seqs) : \E l \in 1..Len(seqs[k]) : b = B[k] + l
    BY <1>2
  <2>2. PICK l \in 1..Len(seqs[k]) : b = B[k] + l
    BY <2>12
  <2>3. seqs[i][j] = seqs[k][l]
    BY <1>1, <1>5, <2>1, <2>2
  <2>4. seqs[i][j] \in ToSet(seqs[i]) /\ seqs[k][l] \in ToSet(seqs[k])
    BY <1>3 DEF ToSet
  <2>5. i = k
    BY <2>3, <2>4
  <2>6. j = l
    BY <1>3, <2>3, <2>5 DEF IsInjective
  <2> QED
    BY <2>1, <2>2, <2>5, <2>6
<1> QED
  BY <1>4, <1>5 DEF IsInjective, F

(* Where the places never fall, the part after one starts by any later one. *)
LEMMA PartsFollow ==
  ASSUME NEW N \in Nat, NEW B, NEW i \in 1..N, NEW k \in 1..N, i < k,
         \A n, m \in 1..(N + 1) : n <= m => B[n] <= B[m]
  PROVE  B[i + 1] <= B[k]
<1>1. i + 1 \in 1..(N + 1) /\ k \in 1..(N + 1) /\ i + 1 <= k
  OBVIOUS
<1> QED
  BY <1>1

(* What lies inside a part comes before what lies inside a later one. *)
LEMMA PartsApart ==
  ASSUME NEW x \in Nat, NEW n \in Nat, NEW y \in Nat, NEW m \in Nat,
         NEW j \in 1..n, NEW l \in 1..m, x + n <= y
  PROVE  x + j # y + l
OBVIOUS

(* Where two vectors differ, their places do. *)
LEMMA PlaceOnce ==
  ASSUME NEW S, NEW seqs \in Seq(Seq(S)),
         NEW i \in 1..Len(seqs), NEW j \in 1..Len(seqs[i]),
         NEW k \in 1..Len(seqs), NEW l \in 1..Len(seqs[k]),
         Offsets(seqs)[i] + j = Offsets(seqs)[k] + l
  PROVE  i = k /\ j = l
<1> DEFINE B == Offsets(seqs)
<1>1. /\ B \in [1..(Len(seqs) + 1) -> Nat]
      /\ \A n \in 1..Len(seqs) : B[n + 1] = B[n] + Len(seqs[n])
  BY OffsetsSums
<1>2. \A n, m \in 1..(Len(seqs) + 1) : n <= m => B[n] <= B[m]
  BY OffsetsGrows
<1>3. /\ Len(seqs[i]) \in Nat /\ Len(seqs[k]) \in Nat /\ Len(seqs) \in Nat
      /\ i \in 1..(Len(seqs) + 1) /\ k \in 1..(Len(seqs) + 1)
  <2>1. seqs[i] \in Seq(S) /\ seqs[k] \in Seq(S) /\ Len(seqs) \in Nat
    OBVIOUS
  <2> QED
    BY <2>1
<1>4. B[i] \in Nat /\ B[k] \in Nat /\ B[i] + j = B[k] + l
  BY <1>1, <1>3
<1> HIDE DEF B
<1>5. ~(i < k)
  <2> SUFFICES ASSUME i < k PROVE FALSE
    OBVIOUS
  <2>1. B[i + 1] <= B[k]
    BY <1>2, <1>3, PartsFollow, Zenon
  <2>2. B[i + 1] = B[i] + Len(seqs[i])
    BY <1>1
  <2>3. B[i] + Len(seqs[i]) <= B[k]
    BY <2>1, <2>2
  <2> QED
    BY <1>3, <1>4, <2>3, PartsApart, ZenonT(40)
<1>6. ~(k < i)
  <2> SUFFICES ASSUME k < i PROVE FALSE
    OBVIOUS
  <2>1. B[k + 1] <= B[i]
    BY <1>2, <1>3, PartsFollow, Zenon
  <2>2. B[k + 1] = B[k] + Len(seqs[k])
    BY <1>1
  <2>3. B[k] + Len(seqs[k]) <= B[i]
    BY <2>1, <2>2
  <2> QED
    BY <1>3, <1>4, <2>3, PartsApart, ZenonT(40)
<1>7. i = k
  BY <1>5, <1>6
<1> QED
  BY <1>4, <1>7

(* What lies inside a vector's part that ends by m lies inside 1..m. *)
LEMMA PartInside ==
  ASSUME NEW x \in Nat, NEW n \in Nat, NEW m \in Nat, NEW j \in 1..n, x + n <= m
  PROVE  x + j \in 1..m
OBVIOUS

(* Places of entries are places of the concatenation, which has them there. *)
LEMMA PlaceInside ==
  ASSUME NEW S, NEW seqs \in Seq(Seq(S)),
         NEW i \in 1..Len(seqs), NEW j \in 1..Len(seqs[i])
  PROVE  /\ Offsets(seqs)[i] \in Nat
         /\ Offsets(seqs)[i] + j \in 1..Len(FlattenSeq(seqs))
         /\ FlattenSeq(seqs)[Offsets(seqs)[i] + j] = seqs[i][j]
<1> DEFINE B == Offsets(seqs)
           F == FlattenSeq(seqs)
<1>1. /\ F \in Seq(S) /\ Len(F) = B[Len(seqs) + 1] /\ F[B[i] + j] = seqs[i][j]
  <2>1. \A n \in 1..Len(seqs) : \A m \in 1..Len(seqs[n]) : F[B[n] + m] = seqs[n][m]
    BY Flattened
  <2> QED
    BY <2>1, Flattened
<1>2. /\ B[i] \in Nat /\ B[i + 1] = B[i] + Len(seqs[i])
  <2>1. /\ B \in [1..(Len(seqs) + 1) -> Nat]
        /\ \A n \in 1..Len(seqs) : B[n + 1] = B[n] + Len(seqs[n])
    BY OffsetsSums
  <2>2. i \in 1..(Len(seqs) + 1)
    OBVIOUS
  <2> HIDE DEF B
  <2> QED
    BY <2>1, <2>2
<1>3. B[i + 1] <= B[Len(seqs) + 1]
  <2>1. i + 1 \in 1..(Len(seqs) + 1) /\ Len(seqs) + 1 \in 1..(Len(seqs) + 1) /\ i + 1 <= Len(seqs) + 1
    OBVIOUS
  <2> QED
    BY <2>1, OffsetsGrows
<1>4. Len(F) \in Nat /\ Len(seqs[i]) \in Nat /\ j \in Nat /\ 1 <= j /\ j <= Len(seqs[i])
  BY <1>1
<1> HIDE DEF B, F
<1>5. B[i] + j \in 1..Len(F)
  <2>1. B[i] + Len(seqs[i]) <= Len(F)
    <3>1. Len(F) = B[Len(seqs) + 1]
      BY <1>1
    <3> QED
      BY <1>2, <1>3, <3>1, Zenon
  <2> QED
    BY <1>2, <1>4, <2>1, PartInside, Zenon
<1> QED
  BY <1>1, <1>2, <1>5 DEF B, F

(* Vectors of the same entries are the same. *)
LEMMA SameVector ==
  ASSUME NEW S, NEW s \in Seq(S), NEW t \in Seq(S), Len(s) = Len(t),
         \A i \in 1..Len(s) : s[i] = t[i]
  PROVE  s = t
OBVIOUS

(* A part of a vector. *)
LEMMA VectorPart ==
  ASSUME NEW S, NEW s \in Seq(S), NEW a \in Nat, NEW n \in Nat, a + n <= Len(s)
  PROVE  /\ SubSeq(s, a + 1, a + n) \in Seq(S) /\ Len(SubSeq(s, a + 1, a + n)) = n
         /\ \A j \in 1..n : SubSeq(s, a + 1, a + n)[j] = s[a + j]
<1> DEFINE f == [i \in 1..n |-> s[(i + (a + 1)) - 1]]
<1>1. SubSeq(s, a + 1, a + n) = f
  <2>1. SubSeq(s, a + 1, a + n) = [i \in 1..((1 + (a + n)) - (a + 1)) |-> s[(i + (a + 1)) - 1]]
    BY DEF SubSeq
  <2>2. (1 + (a + n)) - (a + 1) = n
    OBVIOUS
  <2> QED
    BY <2>1, <2>2
<1>2. ASSUME NEW i \in 1..n PROVE f[i] = s[a + i] /\ f[i] \in S
  <2>1. (i + (a + 1)) - 1 = a + i /\ a + i \in 1..Len(s)
    OBVIOUS
  <2> QED
    BY <2>1
<1>3. f \in [1..n -> S]
  BY <1>2
<1> HIDE DEF f
<1>4. f \in Seq(S) /\ Len(f) = n
  BY <1>3
<1> QED
  BY <1>1, <1>2, <1>4

(* What a file of vectors has in it is the vectors, each at its place. *)
LEMMA DenseIs ==
  ASSUME NEW S, NEW src \in Seq(Seq(S)), NEW sets, sets = dense(src)
  PROVE  /\ dense_size(sets) = Len(src) /\ sets.body = FlattenSeq(src) /\ sets.body \in Seq(S)
         /\ \A b \in 1..Len(src) : /\ sets.header[b].offset = Offsets(src)[b]
                                   /\ sets.header[b].count = Len(src[b])
                                   /\ dense_at(sets, b - 1) = src[b]
<1>1. /\ sets.header = [i \in DOMAIN src |-> [count |-> Len(src[i]), offset |-> Offsets(src)[i]]]
      /\ sets.body = FlattenSeq(src)
  BY DEF dense
<1>2. Len(sets.header) = Len(src)
  BY <1>1
<1>3. FlattenSeq(src) \in Seq(S)
  BY Flattened
<1>4. ASSUME NEW b \in 1..Len(src)
      PROVE  /\ sets.header[b].offset = Offsets(src)[b]
             /\ sets.header[b].count = Len(src[b])
             /\ dense_at(sets, b - 1) = src[b]
  <2>1. sets.header[b].offset = Offsets(src)[b] /\ sets.header[b].count = Len(src[b])
    BY <1>1
  <2> DEFINE F == FlattenSeq(src)
             a == Offsets(src)[b]
             n == Len(src[b])
  <2>2. dense_at(sets, b - 1) = SubSeq(F, a + 1, a + n)
    <3>1. (b - 1) + 1 = b
      OBVIOUS
    <3> QED
      BY <1>1, <2>1, <3>1 DEF dense_at
  <2>3. a \in Nat /\ n \in Nat /\ src[b] \in Seq(S) /\ a + n <= Len(F)
    <3>1. b \in 1..(Len(src) + 1) /\ b + 1 \in 1..(Len(src) + 1) /\ b + 1 <= Len(src) + 1
          /\ Len(src) + 1 \in 1..(Len(src) + 1) /\ src[b] \in Seq(S) /\ n \in Nat
      OBVIOUS
    <3>2. a \in Nat /\ Offsets(src)[b + 1] = a + n
      BY <3>1, OffsetsSums
    <3>3. Offsets(src)[b + 1] <= Offsets(src)[Len(src) + 1]
      BY <3>1, OffsetsGrows
    <3>4. Len(F) = Offsets(src)[Len(src) + 1]
      BY Flattened
    <3> QED
      BY <3>1, <3>2, <3>3, <3>4
  <2>4. \A j \in 1..n : F[a + j] = src[b][j]
    BY Flattened
  <2> DEFINE v == src[b]
             H == SubSeq(F, a + 1, a + n)
  <2>5. H \in Seq(S) /\ Len(H) = n /\ \A j \in 1..n : H[j] = F[a + j]
    <3> HIDE DEF F, a, n
    <3>1. F \in Seq(S)
      BY <1>3 DEF F
    <3> QED
      BY <2>3, <3>1, VectorPart
  <2>6. v \in Seq(S) /\ Len(v) = n /\ \A j \in 1..n : F[a + j] = v[j]
    BY <2>3, <2>4
  <2>7. H = v
    <3> HIDE DEF H, v, n, F, a
    <3> QED
      BY <2>5, <2>6, SameVector
  <2> QED
    BY <2>1, <2>2, <2>7
<1> QED
  BY <1>1, <1>2, <1>3, <1>4 DEF dense_size

(* The search in a bucket finds an entry with the key, if there is one. *)
LEMMA LookupIs ==
  ASSUME NEW S, NEW keys \in Seq(S), NEW key, NEW sets, NEW b
  PROVE  \/ /\ Lookup(sets, b, keys, key) = NotFound
            /\ \A i \in 1..Len(keys) : keys[i] # key
         \/ \E i \in 1..Len(keys) : keys[i] = key /\ Lookup(sets, b, keys, key) = Place(sets, b, i)
<1> DEFINE I == {i \in 1..Len(keys) : keys[i] = key}
<1>1. SelectInSeq(keys, LAMBDA k : k = key) = IF I # {} THEN Min(I) ELSE 0
  BY DEF SelectInSeq
<1> DEFINE i == IF I # {} THEN Min(I) ELSE 0
<1>2. Lookup(sets, b, keys, key) = IF i = 0 THEN NotFound ELSE Place(sets, b, i)
  BY <1>1 DEF Lookup
<1>3. CASE I = {}
  BY <1>2, <1>3
<1>4. CASE I # {}
  <2>1. \E x \in I : \A y \in I : x <= y
    <3>1. I \in SUBSET Nat
      OBVIOUS
    <3> HIDE DEF I
    <3> QED
      BY <1>4, <3>1, Least
  <2>2. Min(I) \in I
    <3> HIDE DEF I
    <3> QED
      BY <2>1 DEF Min
  <2>3. i \in 1..Len(keys) /\ keys[i] = key /\ i # 0
    <3> DEFINE m == Min(I)
    <3>1. m \in I
      BY <2>2
    <3> HIDE DEF m
    <3>2. m \in 1..Len(keys) /\ keys[m] = key /\ m # 0
      BY <3>1
    <3> QED
      BY <1>4, <3>2 DEF m
  <2> HIDE DEF i
  <2> QED
    BY <1>2, <2>3
<1> QED
  BY <1>3, <1>4

(* The powers of two, as they grow with the count. *)
HashSizes(count) ==
  CHOOSE size : size = [n \in 0..count |->
    IF n = 0 THEN 1 ELSE IF size[n - 1] > n THEN size[n - 1] ELSE 2 * size[n - 1]]

(* HashSizes is the function its recursion describes. *)
LEMMA HashSizesRecursion ==
  ASSUME NEW count \in Nat
  PROVE  HashSizes(count) = [n \in 0..count |->
           IF n = 0 THEN 1 ELSE IF HashSizes(count)[n - 1] > n THEN HashSizes(count)[n - 1]
                                ELSE 2 * HashSizes(count)[n - 1]]
<1> DEFINE D(f, n) == IF n = 0 THEN 1 ELSE IF f[n - 1] > n THEN f[n - 1] ELSE 2 * f[n - 1]
           Is(f, c) == f = [n \in 0..c |-> D(f, n)]
           T == {c \in Nat : \E f : Is(f, c)}
<1>1. 0 \in T
  <2> DEFINE g == [n \in 0..0 |-> 1]
  <2>1. Is(g, 0)
    OBVIOUS
  <2> HIDE DEF Is, g
  <2> QED
    BY <2>1
<1>2. ASSUME NEW c \in Nat, c \in T PROVE c + 1 \in T
  <2>1. PICK f : Is(f, c)
    BY <1>2
  <2> DEFINE g == [n \in 0..(c + 1) |-> IF n = c + 1 THEN D(f, n) ELSE f[n]]
  <2>2. ASSUME NEW n \in 0..(c + 1) PROVE g[n] = D(g, n)
    <3>1. n # 0 => g[n - 1] = f[n - 1]
      OBVIOUS
    <3>2. D(g, n) = D(f, n)
      BY <3>1
    <3>3. n # c + 1 => f[n] = D(f, n)
      <4> HIDE DEF D
      <4> QED
        BY <2>1
    <3> HIDE DEF D
    <3> QED
      BY <3>2, <3>3
  <2>3. Is(g, c + 1)
    <3> HIDE DEF D
    <3>1. g = [n \in 0..(c + 1) |-> g[n]]
      OBVIOUS
    <3> HIDE DEF g
    <3> QED
      BY <2>2, <3>1
  <2> HIDE DEF Is, g
  <2> QED
    BY <2>3
<1> HIDE DEF T
<1>3. count \in T
  BY <1>1, <1>2, Inductive
<1>4. PICK f : Is(f, count)
  BY <1>3 DEF T
<1> QED
  BY <1>4, Zenon DEF HashSizes

(* There is a bucket. *)
LEMMA HashSizeIs ==
  ASSUME NEW count \in Nat
  PROVE  HashSizeOf(count) \in Nat \ {0}
<1> DEFINE F == HashSizes(count)
           T == {n \in Nat : n <= count => F[n] \in Nat \ {0}}
<1>1. F = [n \in 0..count |-> IF n = 0 THEN 1 ELSE IF F[n - 1] > n THEN F[n - 1] ELSE 2 * F[n - 1]]
  BY HashSizesRecursion, Zenon
<1>2. HashSizeOf(count) = F[count]
  BY DEF HashSizeOf, HashSizes
<1> HIDE DEF F
<1>3. 0 \in T
  BY <1>1
<1>4. ASSUME NEW n \in Nat, n \in T PROVE n + 1 \in T
  <2> SUFFICES ASSUME n + 1 <= count PROVE F[n + 1] \in Nat \ {0}
    OBVIOUS
  <2>1. F[n] \in Nat \ {0}
    BY <1>4
  <2>2. n + 1 \in 0..count /\ (n + 1) - 1 = n /\ n + 1 # 0
    OBVIOUS
  <2>3. F[n + 1] = IF F[n] > n + 1 THEN F[n] ELSE 2 * F[n]
    BY <1>1, <2>2
  <2> QED
    BY <2>1, <2>3
<1>5. count \in T
  <2> HIDE DEF T
  <2> QED
    BY <1>3, <1>4, Inductive
<1> QED
  BY <1>2, <1>5

(* The making of the files of RenumberedWires.  What each part leaves to   *)
(* those after it, and how far the part that runs has come.                *)

Names == Strings \X Strings
NodeCount == Len(dev.nodes)

(* The nodes' wires have their keys in the buckets, each in a place of its *)
(* own, and nothing else is there.                                         *)
BucketsTyped ==
  /\ at <= NodeCount
  /\ buckets \in Seq(Seq(Names)) /\ Len(buckets) = HashSize
  /\ node_renumber \in Seq(Seq((0..(HashSize - 1)) \X Nat)) /\ Len(node_renumber) = NodeCount
  /\ \A n \in 1..NodeCount : /\ Len(node_renumber[n]) <= Len(dev.nodes[n])
                             /\ n <= at => Len(node_renumber[n]) = Len(dev.nodes[n])
InPlace ==
  \A n \in 1..NodeCount : \A k \in 1..Len(node_renumber[n]) :
    LET place == node_renumber[n][k]
    IN /\ place[2] < Len(buckets[place[1] + 1])
       /\ buckets[place[1] + 1][place[2] + 1] = Key(dev.nodes[n][k])
PlacesOnce ==
  \A n, m \in 1..NodeCount : \A k \in 1..Len(node_renumber[n]), j \in 1..Len(node_renumber[m]) :
    node_renumber[n][k] = node_renumber[m][j] => n = m /\ k = j
PlacesUsed ==
  \A b \in 1..HashSize : \A i \in 1..Len(buckets[b]) :
    /\ crc[buckets[b][i]] % HashSize = b - 1
    /\ \E n \in 1..NodeCount : \E k \in 1..Len(node_renumber[n]) : node_renumber[n][k] = <<b - 1, i - 1>>
BucketsFilled == BucketsTyped /\ InPlace /\ PlacesOnce /\ PlacesUsed

(* The new number of the k-th wire of node n, counted from 1. *)
Number(n, k) == Renumbered(node_renumber[n][k])
WireTotal == Len(alt_wires.body)
Numbers == 0..(WireTotal - 1)

(* What is searched for is found, if it is there. *)
WireFound(tile, wire) ==
  \/ /\ find_wire(tile, wire) \in Numbers
     /\ alt_wires.body[find_wire(tile, wire) + 1] = <<wire, tile>>
  \/ /\ find_wire(tile, wire) = NotFound
     /\ \A w \in 1..WireTotal : alt_wires.body[w] # <<wire, tile>>

(* The new numbers are those of the nodes' wires, each given once, and the *)
(* searches find them.                                                     *)
NumbersGiven ==
  /\ alt_wires.body \in Seq(Names)
  /\ \A n \in 1..NodeCount : \A k \in 1..Len(dev.nodes[n]) :
       /\ Number(n, k) \in Numbers
       /\ alt_wires.body[Number(n, k) + 1] = Key(dev.nodes[n][k])
NumbersOnce ==
  \A n, m \in 1..NodeCount : \A k \in 1..Len(dev.nodes[n]), j \in 1..Len(dev.nodes[m]) :
    Number(n, k) = Number(m, j) => n = m /\ k = j
NumbersUsed ==
  \A w \in Numbers : \E n \in 1..NodeCount : \E k \in 1..Len(dev.nodes[n]) : w = Number(n, k)
WiresFound == \A tile, wire \in Strings : WireFound(tile, wire)
WiresNumbered == NumbersGiven /\ NumbersOnce /\ NumbersUsed /\ WiresFound

FinalOf(n) == [k \in DOMAIN dev.nodes[n] |-> Number(n, k)]

(* The nodes' wires by number, for the nodes so far and in the file. *)
NumbersListed ==
  /\ at <= NodeCount /\ Len(node_final) = at /\ node_final \in Seq(Seq(Nat))
  /\ \A n \in 1..at : node_final[n] = FinalOf(n)
NodesWritten ==
  /\ dense_size(alt_nodes) = NodeCount
  /\ \A n \in 1..NodeCount : dense_at(alt_nodes, n - 1) = FinalOf(n)

(* The wires of the first nodes know their node. *)
NodesSet(count) ==
  /\ count <= NodeCount /\ alt_wire_to_node \in [1..WireTotal -> Nat]
  /\ \A n \in 1..count : \A k \in 1..Len(dev.nodes[n]) : NodeOf(Number(n, k)) = n - 1

(* The ways that pips are taken, and the wire each leaves. *)
Ways == {way \in (0..(Len(alt_pips) - 1)) \X BOOLEAN : way[2] \/ ~alt_pips[way[1] + 1].directional}
WireFrom(way) == IF way[2] THEN alt_pips[way[1] + 1].wire0 ELSE alt_pips[way[1] + 1].wire1

Entered(pip) == /\ ~pip.pseudo
                /\ find_wire(pip.tile, pip.wire0) # NotFound
                /\ find_wire(pip.tile, pip.wire1) # NotFound
EntryOf(pip) == [wire0 |-> find_wire(pip.tile, pip.wire0), wire1 |-> find_wire(pip.tile, pip.wire1),
                 directional |-> pip.directional]

(* A list of what belongs in it, each once. *)
Lists(list, some) == IsInjective(list) /\ ToSet(list) = some

(* The first pips of the device are entered, at the wires they leave by.   *)
PipsEntered(count) ==
  /\ count <= Len(DevicePips)
  /\ alt_pips \in Seq([wire0 : Numbers, wire1 : Numbers, directional : BOOLEAN])
  /\ ToSet(alt_pips) = {EntryOf(DevicePips[i]) : i \in {j \in 1..count : Entered(DevicePips[j])}}
  /\ wire_to_pips \in [1..WireTotal -> Seq(Nat \X BOOLEAN)]
  /\ \A w \in 1..WireTotal : Lists(wire_to_pips[w], {way \in Ways : WireFrom(way) = w - 1})

(* The first pips are entered at the nodes they leave. *)
PipsAtNodes(count) ==
  /\ count <= Len(alt_pips)
  /\ node_to_pips \in [1..NodeCount -> Seq(Nat \X BOOLEAN)]
  /\ \A n \in 1..NodeCount :
       Lists(node_to_pips[n], {way \in Ways : way[1] < count /\ NodeOf(WireFrom(way)) = n - 1})

PinFound(pin) == find_wire(pin.tile, pin.wire) # NotFound
PinEntry(pin) == [site |-> pin.site, pin |-> pin.pin, wire |-> find_wire(pin.tile, pin.wire),
                  node |-> NodeOf(find_wire(pin.tile, pin.wire))]
PinEntries == [site : Strings, pin : Strings, wire : Numbers, node : Nat]

HashOf(entry) == crc[<<entry.site, entry.pin>>] % HashSize

(* The first pins are in the buckets of their names. *)
PinsTyped == /\ at <= Len(SitePins)
             /\ buckets \in Seq(Seq(PinEntries)) /\ Len(buckets) = HashSize
PinsInBuckets ==
  \A b \in 1..HashSize : \A i \in 1..Len(buckets[b]) :
    /\ HashOf(buckets[b][i]) = b - 1
    /\ \E j \in 1..at : PinFound(SitePins[j]) /\ buckets[b][i] = PinEntry(SitePins[j])
PinsThere ==
  \A j \in 1..at : PinFound(SitePins[j]) =>
    \E b \in 1..HashSize : \E i \in 1..Len(buckets[b]) : buckets[b][i] = PinEntry(SitePins[j])
PinsEntered == PinsTyped /\ PinsInBuckets /\ PinsThere

PinsOf(site, pin) == {j \in 1..Len(SitePins) : /\ SitePins[j].site = site /\ SitePins[j].pin = pin
                                               /\ PinFound(SitePins[j])}

(* The search for a pin finds one of its name with a wire, if there is one. *)
PinsFound ==
  \A site, pin \in Strings :
    \/ find_site_pin(site, pin) = NotFound /\ PinsOf(site, pin) = {}
    \/ /\ find_site_pin(site, pin) \in Nat
       /\ \E j \in PinsOf(site, pin) :
            alt_site_pins.body[find_site_pin(site, pin) + 1] = PinEntry(SitePins[j])

Tested == {"test_nodes", "test_wires", "made"}
PinsAndOn == Tested \cup {"make_site_pin_wires"}
NodePipsAndOn == PinsAndOn \cup {"make_node_to_pips"}
WirePipsAndOn == NodePipsAndOn \cup {"make_wire_to_pips"}
ToNodeAndOn == WirePipsAndOn \cup {"make_wire_to_node"}
Stages == ToNodeAndOn \cup {"make_wires", "make_node_to_wires", "aborted"}

(* What comes later is empty so far. *)
EmptyYet == /\ stage = "make_wires" => node_final = <<>>
            /\ stage \in {"make_wires", "make_node_to_wires", "make_wire_to_node"} => alt_pips = <<>>

MakingTyped == dev \in Devices /\ crc \in Crcs /\ stage \in Stages /\ at \in Nat

MakingInv ==
  /\ MakingTyped /\ EmptyYet
  /\ stage = "make_wires" => BucketsFilled
  /\ stage # "make_wires" => WiresNumbered
  /\ stage = "make_node_to_wires" => NumbersListed
  /\ stage \in ToNodeAndOn => NodesWritten
  /\ stage = "make_wire_to_node" => NodesSet(at)
  /\ stage \in WirePipsAndOn => NodesSet(NodeCount)
  /\ stage = "make_wire_to_pips" => PipsEntered(at)
  /\ stage \in NodePipsAndOn => PipsEntered(Len(DevicePips))
  /\ stage = "make_node_to_pips" => PipsAtNodes(at)
  /\ stage \in PinsAndOn => PipsAtNodes(Len(alt_pips))
  /\ stage = "make_site_pin_wires" => PinsEntered
  /\ stage \in Tested => PinsFound
  /\ AbortsIfNothing

(* An entry of a vector is of the vector's kind. *)
LEMMA EntryIn ==
  ASSUME NEW S, NEW s \in Seq(S)
  PROVE  /\ DOMAIN s = 1..Len(s) /\ Len(s) \in Nat
         /\ \A i \in 1..Len(s) : s[i] \in S /\ s[i] \in ToSet(s)
BY DEF ToSet

(* A function on the places of a vector is a vector. *)
LEMMA MappedVector ==
  ASSUME NEW S, NEW s \in Seq(S), NEW T, NEW f, DOMAIN f = DOMAIN s, f = [i \in DOMAIN f |-> f[i]],
         \A i \in DOMAIN s : f[i] \in T
  PROVE  f \in Seq(T) /\ Len(f) = Len(s)
<1>1. DOMAIN s = 1..Len(s) /\ Len(s) \in Nat
  OBVIOUS
<1>2. f \in [1..Len(s) -> T]
  BY <1>1
<1> QED
  BY <1>1, <1>2

(* What a device has in it. *)
LEMMA DeviceIs ==
  ASSUME dev \in Devices
  PROVE  /\ NodeCount \in Nat /\ Len(dev.wires) \in Nat
         /\ \A n \in 1..NodeCount : dev.nodes[n] \in Seq(0..(Len(dev.wires) - 1))
         /\ \A w \in 0..(Len(dev.wires) - 1) : Key(w) \in Names
<1>1. /\ dev.wires \in Seq(WireNames)
      /\ dev.nodes \in Seq(Seq(0..(Len(dev.wires) - 1)))
  BY DeviceFilesAssumption
<1>2. ASSUME NEW w \in 0..(Len(dev.wires) - 1) PROVE Key(w) \in Names
  <2>1. w + 1 \in 1..Len(dev.wires)
    BY <1>1
  <2>2. dev.wires[w + 1] \in WireNames
    BY <1>1, <2>1
  <2> QED
    BY <2>2 DEF Key, Names, WireNames
<1> QED
  BY <1>1, <1>2 DEF NodeCount

(* Pips and pins of the device, by name. *)
PipNames == [tile : Strings, wire0 : Strings, wire1 : Strings, directional : BOOLEAN, pseudo : BOOLEAN]
PinNames == [site : Strings, pin : Strings, tile : Strings, wire : Strings]

(* A tile and its type. *)
LEMMA TileIs ==
  ASSUME dev \in Devices, NEW i \in DOMAIN dev.tiles
  PROVE  /\ dev.tiles \in Seq(Tiles)
         /\ dev.tiles[i].name \in Strings
         /\ dev.tiles[i].sites \in Seq(Sites)
         /\ Type(dev.tiles[i]).wires \in Seq(Strings)
         /\ Type(dev.tiles[i]).pips \in Seq(TypePips)
         /\ Type(dev.tiles[i]).siteTypes \in Seq(SiteTypes)
         /\ \A p \in DOMAIN Type(dev.tiles[i]).pips :
              LET pip == Type(dev.tiles[i]).pips[p]
              IN /\ pip.wire0 < Len(Type(dev.tiles[i]).wires)
                 /\ pip.wire1 < Len(Type(dev.tiles[i]).wires)
         /\ \A t \in DOMAIN Type(dev.tiles[i]).siteTypes :
              LET siteType == Type(dev.tiles[i]).siteTypes[t]
              IN Len(siteType.pins) <= Len(siteType.wires)
         /\ \A s \in DOMAIN dev.tiles[i].sites :
              dev.tiles[i].sites[s].type < Len(Type(dev.tiles[i]).siteTypes)
<1> DEFINE tile == dev.tiles[i]
           type == Type(tile)
<1>1. /\ dev.types \in Seq(TileTypes) /\ dev.tiles \in Seq(Tiles)
      /\ \A y \in ToSet(dev.types) :
           /\ \A pip \in ToSet(y.pips) : pip.wire0 < Len(y.wires) /\ pip.wire1 < Len(y.wires)
           /\ \A siteType \in ToSet(y.siteTypes) : Len(siteType.pins) <= Len(siteType.wires)
      /\ \A t \in ToSet(dev.tiles) :
           /\ t.type < Len(dev.types)
           /\ \A site \in ToSet(t.sites) : site.type < Len(dev.types[t.type + 1].siteTypes)
  BY DeviceFilesAssumption
<1>2. tile \in Tiles /\ tile \in ToSet(dev.tiles)
  BY <1>1, EntryIn
<1>3. /\ tile.name \in Strings /\ tile.sites \in Seq(Sites)
      /\ tile.type \in Nat /\ tile.type < Len(dev.types)
  <2> HIDE DEF tile
  <2> QED
    BY <1>1, <1>2 DEF Tiles
<1>4. type \in TileTypes /\ type \in ToSet(dev.types)
  <2> HIDE DEF tile
  <2>1. tile.type + 1 \in 1..Len(dev.types)
    BY <1>1, <1>3
  <2>2. dev.types[tile.type + 1] \in TileTypes /\ dev.types[tile.type + 1] \in ToSet(dev.types)
    BY <1>1, <2>1, EntryIn
  <2> QED
    BY <2>2 DEF Type
<1>5. type.wires \in Seq(Strings) /\ type.pips \in Seq(TypePips) /\ type.siteTypes \in Seq(SiteTypes)
  <2> HIDE DEF type
  <2> QED
    BY <1>4 DEF TileTypes
<1>6. \A s \in DOMAIN tile.sites : tile.sites[s].type < Len(type.siteTypes)
  <2>1. \A site \in ToSet(tile.sites) : site.type < Len(type.siteTypes)
    BY <1>1, <1>2 DEF Type
  <2> HIDE DEF tile, type
  <2> QED
    BY <2>1 DEF ToSet
<1>7. /\ \A p \in DOMAIN type.pips : type.pips[p].wire0 < Len(type.wires) /\ type.pips[p].wire1 < Len(type.wires)
      /\ \A t \in DOMAIN type.siteTypes : Len(type.siteTypes[t].pins) <= Len(type.siteTypes[t].wires)
  <2> HIDE DEF type
  <2>1. /\ \A pip \in ToSet(type.pips) : pip.wire0 < Len(type.wires) /\ pip.wire1 < Len(type.wires)
        /\ \A siteType \in ToSet(type.siteTypes) : Len(siteType.pins) <= Len(siteType.wires)
    BY <1>1, <1>4
  <2> QED
    BY <2>1 DEF ToSet
<1> HIDE DEF tile, type
<1>8. /\ dev.tiles \in Seq(Tiles)
  BY <1>1
<1> QED
  BY <1>3, <1>5, <1>6, <1>7, <1>8 DEF tile, type

(* The pips of the device have names. *)
LEMMA DevicePipsAre ==
  ASSUME dev \in Devices
  PROVE  DevicePips \in Seq(PipNames)
<1>1. ASSUME NEW i \in DOMAIN dev.tiles PROVE TilePips(dev.tiles[i]) \in Seq(PipNames)
  <2> DEFINE tile == dev.tiles[i]
             type == Type(tile)
             f == [p \in DOMAIN type.pips |->
                    [tile |-> tile.name, wire0 |-> type.wires[type.pips[p].wire0 + 1],
                     wire1 |-> type.wires[type.pips[p].wire1 + 1],
                     directional |-> type.pips[p].directional, pseudo |-> type.pips[p].pseudo]]
  <2>1. /\ tile.name \in Strings /\ type.wires \in Seq(Strings) /\ type.pips \in Seq(TypePips)
        /\ \A p \in DOMAIN type.pips : /\ type.pips[p].wire0 < Len(type.wires)
                                       /\ type.pips[p].wire1 < Len(type.wires)
    BY TileIs
  <2>2. TilePips(tile) = f
    BY DEF TilePips
  <2> HIDE DEF type, tile
  <2>3. ASSUME NEW p \in DOMAIN type.pips PROVE f[p] \in PipNames
    <3>1. type.pips[p] \in TypePips
      BY <2>1, EntryIn
    <3>2. /\ type.pips[p].wire0 \in Nat /\ type.pips[p].wire1 \in Nat
          /\ type.pips[p].directional \in BOOLEAN /\ type.pips[p].pseudo \in BOOLEAN
      BY <3>1 DEF TypePips
    <3>3. type.wires[type.pips[p].wire0 + 1] \in Strings /\ type.wires[type.pips[p].wire1 + 1] \in Strings
      BY <2>1, <3>2
    <3> QED
      BY <2>1, <3>2, <3>3 DEF PipNames
  <2>4. DOMAIN f = DOMAIN type.pips /\ f = [p \in DOMAIN f |-> f[p]]
    OBVIOUS
  <2> HIDE DEF f
  <2>5. f \in Seq(PipNames)
    BY <2>1, <2>3, <2>4, MappedVector
  <2> QED
    BY <2>2, <2>5 DEF tile
<1> DEFINE g == [i \in DOMAIN dev.tiles |-> TilePips(dev.tiles[i])]
<1>2. g \in Seq(Seq(PipNames))
  <2>1. dev.tiles \in Seq(Tiles)
    BY DeviceFilesAssumption
  <2>2. DOMAIN g = DOMAIN dev.tiles /\ g = [i \in DOMAIN g |-> g[i]]
        /\ \A i \in DOMAIN dev.tiles : g[i] \in Seq(PipNames)
    BY <1>1
  <2> HIDE DEF g
  <2> QED
    BY <2>1, <2>2, MappedVector
<1> QED
  BY <1>2, Flattened DEF DevicePips

(* The pins of the sites of the device have names. *)
LEMMA SitePinsAre ==
  ASSUME dev \in Devices
  PROVE  SitePins \in Seq(PinNames)
<1>1. ASSUME NEW i \in DOMAIN dev.tiles PROVE Pins(dev.tiles[i]) \in Seq(PinNames)
  <2> DEFINE tile == dev.tiles[i]
             type == Type(tile)
             List(s) ==
               [p \in DOMAIN type.siteTypes[tile.sites[s].type + 1].pins |->
                 [site |-> tile.sites[s].name, pin |-> type.siteTypes[tile.sites[s].type + 1].pins[p],
                  tile |-> tile.name, wire |-> type.siteTypes[tile.sites[s].type + 1].wires[p]]]
  <2>1. /\ tile.name \in Strings /\ tile.sites \in Seq(Sites) /\ type.siteTypes \in Seq(SiteTypes)
        /\ \A t \in DOMAIN type.siteTypes : Len(type.siteTypes[t].pins) <= Len(type.siteTypes[t].wires)
        /\ \A s \in DOMAIN tile.sites : tile.sites[s].type < Len(type.siteTypes)
    BY TileIs
  <2>2. Pins(tile) = FlattenSeq([s \in DOMAIN tile.sites |-> List(s)])
    BY DEF Pins
  <2> HIDE DEF type, tile
  <2>3. ASSUME NEW s \in DOMAIN tile.sites PROVE List(s) \in Seq(PinNames)
    <3> DEFINE site == tile.sites[s]
               siteType == type.siteTypes[site.type + 1]
               f == List(s)
    <3>1. site \in Sites
      BY <2>1, EntryIn
    <3>2. site.name \in Strings /\ site.type \in Nat /\ site.type < Len(type.siteTypes)
      BY <2>1, <3>1 DEF Sites
    <3>3. siteType \in SiteTypes /\ Len(siteType.pins) <= Len(siteType.wires)
      <4>1. site.type + 1 \in 1..Len(type.siteTypes)
        BY <2>1, <3>2
      <4> HIDE DEF site
      <4> QED
        BY <2>1, <4>1, EntryIn
    <3>4. siteType.pins \in Seq(Strings) /\ siteType.wires \in Seq(Strings)
      <4> HIDE DEF siteType
      <4> QED
        BY <3>3 DEF SiteTypes
    <3>5. /\ DOMAIN f = DOMAIN siteType.pins /\ f = [p \in DOMAIN f |-> f[p]]
          /\ \A p \in DOMAIN siteType.pins :
               f[p] = [site |-> site.name, pin |-> siteType.pins[p], tile |-> tile.name,
                       wire |-> siteType.wires[p]]
      OBVIOUS
    <3> HIDE DEF site, siteType, f, List
    <3>6. ASSUME NEW p \in DOMAIN siteType.pins PROVE f[p] \in PinNames
      <4>1. p \in 1..Len(siteType.pins) /\ p \in 1..Len(siteType.wires)
        BY <3>3, <3>4
      <4>2. siteType.pins[p] \in Strings /\ siteType.wires[p] \in Strings
        BY <3>4, <4>1
      <4>3. f[p] = [site |-> site.name, pin |-> siteType.pins[p], tile |-> tile.name,
                    wire |-> siteType.wires[p]]
        BY <3>5
      <4> QED
        BY <2>1, <3>2, <4>2, <4>3 DEF PinNames
    <3>7. f \in Seq(PinNames)
      BY <3>4, <3>5, <3>6, MappedVector
    <3> QED
      BY <3>7 DEF f
  <2> DEFINE g == [s \in DOMAIN tile.sites |-> List(s)]
  <2>4. DOMAIN g = DOMAIN tile.sites /\ g = [s \in DOMAIN g |-> g[s]]
        /\ \A s \in DOMAIN tile.sites : g[s] \in Seq(PinNames)
    <3> HIDE DEF List
    <3> QED
      BY <2>3
  <2>5. g \in Seq(Seq(PinNames))
    <3> HIDE DEF g
    <3> QED
      BY <2>1, <2>4, MappedVector
  <2>6. Pins(tile) \in Seq(PinNames)
    <3>1. FlattenSeq(g) \in Seq(PinNames)
      <4> HIDE DEF g
      <4> QED
        BY <2>5, Flattened
    <3> QED
      BY <2>2, <3>1
  <2> QED
    BY <2>6 DEF tile
<1> DEFINE g == [i \in DOMAIN dev.tiles |-> Pins(dev.tiles[i])]
<1>2. g \in Seq(Seq(PinNames))
  <2>1. dev.tiles \in Seq(Tiles)
    BY DeviceFilesAssumption
  <2>2. DOMAIN g = DOMAIN dev.tiles /\ g = [i \in DOMAIN g |-> g[i]]
        /\ \A i \in DOMAIN dev.tiles : g[i] \in Seq(PinNames)
    BY <1>1
  <2> HIDE DEF g
  <2> QED
    BY <2>1, <2>2, MappedVector
<1> QED
  BY <1>2, Flattened DEF SitePins

(* The search for a wire reads the file of wires only. *)
LEMMA FindKept ==
  ASSUME UNCHANGED <<crc, alt_wires>>
  PROVE  \A tile, wire : find_wire(tile, wire)' = find_wire(tile, wire)
BY DEF find_wire

(* While the file of wires and the places stay, so do the numbers. *)
LEMMA WiresKept ==
  ASSUME WiresNumbered, UNCHANGED <<dev, crc, node_renumber, alt_wires>>
  PROVE  WiresNumbered'
<1>1. /\ \A n, k : Number(n, k)' = Number(n, k)
      /\ \A w : Key(w)' = Key(w)
      /\ Numbers' = Numbers /\ NodeCount' = NodeCount
  BY DEF Number, Renumbered, Key, Numbers, WireTotal, NodeCount
<1>2. WiresFound'
  BY FindKept DEF WiresNumbered, WiresFound, WireFound, Numbers, WireTotal
<1>3. NumbersGiven'
  BY <1>1 DEF WiresNumbered, NumbersGiven
<1>4. NumbersOnce'
  BY <1>1 DEF WiresNumbered, NumbersOnce
<1>5. NumbersUsed'
  BY <1>1 DEF WiresNumbered, NumbersUsed
<1> QED
  BY <1>2, <1>3, <1>4, <1>5 DEF WiresNumbered

(* While they and the file of nodes stay, it has the nodes. *)
LEMMA NodesKept ==
  ASSUME NodesWritten, UNCHANGED <<dev, node_renumber, alt_wires, alt_nodes>>
  PROVE  NodesWritten'
BY DEF NodesWritten, NodeCount, FinalOf, Number, Renumbered

(* While the nodes of the wires stay, the wires of the first nodes know theirs. *)
LEMMA NodesSetKept ==
  ASSUME NEW count, NodesSet(count), UNCHANGED <<dev, node_renumber, alt_wires, alt_wire_to_node>>
  PROVE  NodesSet(count)'
BY DEF NodesSet, NodeCount, WireTotal, NodeOf, Number, Renumbered

(* So do the wires of all nodes, their number being the same. *)
LEMMA AllNodesSetKept ==
  ASSUME NodesSet(NodeCount), UNCHANGED <<dev, node_renumber, alt_wires, alt_wire_to_node>>
  PROVE  NodesSet(NodeCount)'
BY DEF NodesSet, NodeCount, WireTotal, NodeOf, Number, Renumbered

(* While the device stays, so does what is read from it. *)
LEMMA ListsKept ==
  ASSUME UNCHANGED dev
  PROVE  /\ DevicePips' = DevicePips /\ SitePins' = SitePins /\ NodeCount' = NodeCount
         /\ HashSize' = HashSize /\ \A w : Key(w)' = Key(w)
BY DEF DevicePips, TilePips, SitePins, Pins, Type, NodeCount, HashSize, Key

(* While the pips stay, so do the ways to take them. *)
LEMMA WaysKept ==
  ASSUME UNCHANGED alt_pips
  PROVE  Ways' = Ways /\ \A way : WireFrom(way)' = WireFrom(way)
BY DEF Ways, WireFrom

(* The pips stay entered at the wires. *)
LEMMA PipsKept ==
  ASSUME PipsEntered(Len(DevicePips)), UNCHANGED <<dev, crc, alt_wires, alt_pips, wire_to_pips>>
  PROVE  PipsEntered(Len(DevicePips))'
<1>1. /\ \A pip : Entered(pip)' = Entered(pip) /\ EntryOf(pip)' = EntryOf(pip)
      /\ Numbers' = Numbers /\ WireTotal' = WireTotal
  BY FindKept DEF Entered, EntryOf, Numbers, WireTotal
<1> QED
  BY <1>1, ListsKept, WaysKept DEF PipsEntered

(* The pips stay entered at the nodes. *)
LEMMA NodePipsKept ==
  ASSUME PipsAtNodes(Len(alt_pips)), UNCHANGED <<dev, alt_wire_to_node, alt_pips, node_to_pips>>
  PROVE  PipsAtNodes(Len(alt_pips))'
<1>1. \A wire : NodeOf(wire)' = NodeOf(wire)
  BY DEF NodeOf
<1> QED
  BY <1>1, ListsKept, WaysKept DEF PipsAtNodes

(* While the files of wires stay, so do the entries of pins. *)
LEMMA PinNameKept ==
  ASSUME UNCHANGED <<dev, crc, alt_wires, alt_wire_to_node>>
  PROVE  /\ \A pin : PinFound(pin)' = PinFound(pin) /\ PinEntry(pin)' = PinEntry(pin)
         /\ \A site, pin : PinsOf(site, pin)' = PinsOf(site, pin)
<1>1. \A wire : NodeOf(wire)' = NodeOf(wire)
  BY DEF NodeOf
<1>2. \A pin : PinFound(pin)' = PinFound(pin) /\ PinEntry(pin)' = PinEntry(pin)
  BY <1>1, FindKept DEF PinFound, PinEntry
<1> QED
  BY <1>2, ListsKept DEF PinsOf

(* While the file of pins stays too, the pins are found. *)
LEMMA PinsKept ==
  ASSUME PinsFound, UNCHANGED <<dev, crc, alt_wires, alt_wire_to_node, alt_site_pins>>
  PROVE  PinsFound'
<1>1. \A site, pin : find_site_pin(site, pin)' = find_site_pin(site, pin)
  BY DEF find_site_pin
<1> QED
  BY <1>1, PinNameKept, ListsKept DEF PinsFound

(* There is a bucket for every checksum. *)
LEMMA BucketFor ==
  ASSUME dev \in Devices, crc \in Crcs, NEW key \in Names
  PROVE  /\ HashSize \in Nat \ {0} /\ crc[key] \in Nat
         /\ crc[key] % HashSize \in 0..(HashSize - 1)
<1>1. HashSize \in Nat \ {0}
  BY DeviceIs, HashSizeIs DEF HashSize
<1>2. crc[key] \in Nat
  BY ChecksumAssumption DEF Names
<1> QED
  BY <1>1, <1>2

(* One vector of a file gets one more entry. *)
LEMMA AppendedAt ==
  ASSUME NEW S, NEW s \in Seq(Seq(S)), NEW i \in 1..Len(s), NEW x \in S,
         NEW t, t = [s EXCEPT ![i] = Append(@, x)]
  PROVE  /\ t \in Seq(Seq(S)) /\ Len(t) = Len(s)
         /\ \A j \in 1..Len(s) : j # i => t[j] = s[j]
         /\ Len(s[i]) \in Nat /\ Len(t[i]) = Len(s[i]) + 1 /\ t[i][Len(s[i]) + 1] = x
         /\ \A k \in 1..Len(s[i]) : t[i][k] = s[i][k]
<1>1. s[i] \in Seq(S)
  OBVIOUS
<1>2. Append(s[i], x) \in Seq(S)
  BY <1>1
<1>3. t[i] = Append(s[i], x)
  OBVIOUS
<1>4. t \in Seq(Seq(S)) /\ Len(t) = Len(s)
  BY <1>2
<1> QED
  BY <1>1, <1>3, <1>4

(* Before the first wire. *)
LEMMA MakeInitInv ==
  ASSUME MakeInit
  PROVE  MakingInv
<1>1. /\ dev \in Devices /\ crc \in Crcs /\ stage = "make_wires" /\ at = 0
      /\ buckets = [b \in 1..HashSize |-> <<>>] /\ node_renumber = [n \in DOMAIN dev.nodes |-> <<>>]
  BY DEF MakeInit
<1>2. HashSize \in Nat /\ NodeCount \in Nat /\ DOMAIN dev.nodes = 1..NodeCount
      /\ \A n \in 1..NodeCount : Len(dev.nodes[n]) \in Nat
  <2>1. HashSize \in Nat
    BY <1>1, DeviceIs, HashSizeIs DEF HashSize
  <2>2. dev.nodes \in Seq(Seq(0..(Len(dev.wires) - 1)))
    BY <1>1, DeviceFilesAssumption
  <2> QED
    BY <2>1, <2>2 DEF NodeCount
<1>3. /\ buckets \in Seq(Seq(Names)) /\ Len(buckets) = HashSize
      /\ node_renumber \in Seq(Seq((0..(HashSize - 1)) \X Nat)) /\ Len(node_renumber) = NodeCount
      /\ \A n \in 1..NodeCount : Len(node_renumber[n]) = 0
      /\ \A b \in 1..HashSize : Len(buckets[b]) = 0
  <2>1. \A S : <<>> \in Seq(S)
    OBVIOUS
  <2>2. buckets \in [1..HashSize -> Seq(Names)]
    BY <1>1, <2>1
  <2>3. node_renumber \in [1..NodeCount -> Seq((0..(HashSize - 1)) \X Nat)]
    BY <1>1, <1>2, <2>1
  <2>4. /\ \A n \in 1..NodeCount : node_renumber[n] = <<>>
        /\ \A b \in 1..HashSize : buckets[b] = <<>>
    BY <1>1, <1>2
  <2> QED
    BY <1>2, <2>2, <2>3, <2>4
<1>4. BucketsTyped
  BY <1>1, <1>2, <1>3 DEF BucketsTyped
<1>5. InPlace /\ PlacesOnce /\ PlacesUsed
  BY <1>3 DEF InPlace, PlacesOnce, PlacesUsed
<1>6. MakingTyped
  BY <1>1 DEF MakingTyped, Stages
<1> QED
  BY <1>1, <1>4, <1>5, <1>6 DEF MakeInit, MakingInv, BucketsFilled, EmptyYet, AbortsIfNothing,
     Tested, PinsAndOn, NodePipsAndOn, WirePipsAndOn, ToNodeAndOn

(* The next wire of a node goes to a place of its own. *)
LEMMA MakeWiresKeeps ==
  ASSUME MakingTyped, BucketsFilled, MakeWires
  PROVE  BucketsFilled'
<1> DEFINE N == at + 1
           K == Len(node_renumber[N]) + 1
           key == Key(dev.nodes[N][K])
           b == crc[key] % HashSize
           place == <<b, Len(buckets[b + 1])>>
<1>1. /\ at \in Nat /\ at < NodeCount /\ Len(node_renumber[N]) < Len(dev.nodes[N])
      /\ buckets' = [buckets EXCEPT ![b + 1] = Append(@, key)]
      /\ node_renumber' = [node_renumber EXCEPT ![N] = Append(@, place)]
      /\ UNCHANGED <<dev, crc, at>>
  BY DEF MakeWires, MakingTyped, NodeCount
<1>2. /\ NodeCount \in Nat /\ N \in 1..NodeCount
      /\ \A n \in 1..NodeCount : Len(dev.nodes[n]) \in Nat /\ Len(node_renumber[n]) \in Nat
      /\ K \in 1..Len(dev.nodes[N])
  <2> HIDE DEF b, key, place
  <2>1. NodeCount \in Nat /\ \A n \in 1..NodeCount : dev.nodes[n] \in Seq(0..(Len(dev.wires) - 1))
    BY DeviceIs DEF MakingTyped
  <2>2. \A n \in 1..NodeCount : node_renumber[n] \in Seq((0..(HashSize - 1)) \X Nat)
    BY DEF BucketsFilled, BucketsTyped
  <2>3. N \in 1..NodeCount
    <3>1. at \in Nat /\ at < NodeCount
      BY <1>1
    <3> QED
      BY <2>1, <3>1
  <2>4. \A n \in 1..NodeCount : Len(dev.nodes[n]) \in Nat /\ Len(node_renumber[n]) \in Nat
    BY <2>1, <2>2
  <2>5. Len(node_renumber[N]) < Len(dev.nodes[N])
    BY <1>1
  <2> QED
    BY <2>1, <2>3, <2>4, <2>5
<1>3. key \in Names
  <2>1. dev.nodes[N][K] \in 0..(Len(dev.wires) - 1)
    <3>1. dev.nodes[N] \in Seq(0..(Len(dev.wires) - 1))
      BY <1>2, DeviceIs DEF MakingTyped
    <3> HIDE DEF N, K
    <3> QED
      BY <1>2, <3>1, SMTT(60)
  <2> QED
    BY <2>1, DeviceIs DEF MakingTyped
<1>4. HashSize \in Nat \ {0} /\ b \in 0..(HashSize - 1) /\ b + 1 \in 1..HashSize
  BY <1>3, BucketFor DEF MakingTyped
<1>5. /\ buckets' \in Seq(Seq(Names)) /\ Len(buckets') = HashSize
      /\ \A c \in 1..HashSize : c # b + 1 => buckets'[c] = buckets[c]
      /\ Len(buckets[b + 1]) \in Nat /\ Len(buckets'[b + 1]) = Len(buckets[b + 1]) + 1
      /\ buckets'[b + 1][Len(buckets[b + 1]) + 1] = key
      /\ \A i \in 1..Len(buckets[b + 1]) : buckets'[b + 1][i] = buckets[b + 1][i]
  <2>1. buckets \in Seq(Seq(Names)) /\ Len(buckets) = HashSize
    BY DEF BucketsFilled, BucketsTyped
  <2>2. buckets' = [buckets EXCEPT ![b + 1] = Append(@, key)]
    BY <1>1
  <2> HIDE DEF b, key
  <2> QED
    BY <1>3, <1>4, <2>1, <2>2, AppendedAt
<1>6. place \in (0..(HashSize - 1)) \X Nat
  BY <1>4, <1>5
<1>7. /\ node_renumber' \in Seq(Seq((0..(HashSize - 1)) \X Nat)) /\ Len(node_renumber') = NodeCount
      /\ \A n \in 1..NodeCount : n # N => node_renumber'[n] = node_renumber[n]
      /\ Len(node_renumber'[N]) = K /\ node_renumber'[N][K] = place
      /\ \A k \in 1..(K - 1) : node_renumber'[N][k] = node_renumber[N][k]
  <2>1. node_renumber \in Seq(Seq((0..(HashSize - 1)) \X Nat)) /\ Len(node_renumber) = NodeCount
    BY DEF BucketsFilled, BucketsTyped
  <2>2. node_renumber' = [node_renumber EXCEPT ![N] = Append(@, place)]
    BY <1>1
  <2>3. Len(node_renumber[N]) \in Nat /\ K - 1 = Len(node_renumber[N])
    BY <1>2
  <2> HIDE DEF place
  <2> QED
    BY <1>2, <1>6, <2>1, <2>2, <2>3, AppendedAt
<1>8. NodeCount' = NodeCount /\ HashSize' = HashSize /\ \A w : Key(w)' = Key(w)
  BY <1>1, ListsKept
<1>9. /\ BucketsTyped /\ InPlace /\ PlacesOnce /\ PlacesUsed
      /\ at' = at /\ dev' = dev /\ crc' = crc /\ at = N - 1 /\ N \in Nat
      /\ crc[key] % HashSize = b /\ key = Key(dev.nodes[N][K])
      /\ place = <<b, Len(buckets[b + 1])>> /\ K = Len(node_renumber[N]) + 1
  <2>1. at \in Nat /\ N \in Nat /\ at = N - 1
    <3>1. at \in Nat
      BY <1>1
    <3> QED
      BY <3>1
  <2>2. at' = at /\ dev' = dev /\ crc' = crc
    BY <1>1
  <2> QED
    BY <2>1, <2>2, Zenon DEF BucketsFilled
<1> HIDE DEF N, K, key, b, place
<1>10. BucketsTyped'
  <2>1. ASSUME NEW n \in 1..NodeCount
        PROVE  Len(node_renumber'[n]) <= Len(dev.nodes[n])
    <3>1. CASE n = N
      BY <3>1, <1>2, <1>7
    <3>2. CASE n # N
      BY <3>2, <1>7, <1>9 DEF BucketsTyped
    <3> QED
      BY <3>1, <3>2
  <2>2. ASSUME NEW n \in 1..NodeCount, n <= at
        PROVE  Len(node_renumber'[n]) = Len(dev.nodes[n])
    <3>1. n # N
      BY <2>2, <1>9
    <3> QED
      BY <3>1, <2>2, <1>7, <1>9 DEF BucketsTyped
  <2> QED
    BY <1>5, <1>7, <1>8, <1>9, <2>1, <2>2 DEF BucketsTyped
<1>11. /\ \A n \in 1..NodeCount : \A k \in 1..Len(node_renumber[n]) :
            /\ node_renumber[n][k] \in (0..(HashSize - 1)) \X Nat
            /\ node_renumber[n][k][1] + 1 \in 1..HashSize
            /\ node_renumber[n][k][2] + 1 \in 1..Len(buckets[node_renumber[n][k][1] + 1])
            /\ node_renumber[n][k] # place
       /\ \A c \in 1..HashSize : Len(buckets[c]) \in Nat
       /\ node_renumber'[N][K] = place /\ place[1] = b /\ place[2] = Len(buckets[b + 1])
  <2>1. \A c \in 1..HashSize : Len(buckets[c]) \in Nat
    BY <1>9 DEF BucketsTyped
  <2>2. ASSUME NEW n \in 1..NodeCount, NEW k \in 1..Len(node_renumber[n])
        PROVE  /\ node_renumber[n][k] \in (0..(HashSize - 1)) \X Nat
               /\ node_renumber[n][k][1] + 1 \in 1..HashSize
               /\ node_renumber[n][k][2] + 1 \in 1..Len(buckets[node_renumber[n][k][1] + 1])
               /\ node_renumber[n][k] # place
    <3> DEFINE p == node_renumber[n][k]
    <3>1. p \in (0..(HashSize - 1)) \X Nat
      <4>1. node_renumber[n] \in Seq((0..(HashSize - 1)) \X Nat)
        BY <1>9 DEF BucketsTyped
      <4> QED
        BY <4>1
    <3>2. p[2] < Len(buckets[p[1] + 1])
      BY <1>9 DEF InPlace
    <3> HIDE DEF p
    <3>3. p[1] \in 0..(HashSize - 1) /\ p[2] \in Nat
      BY <3>1
    <3>4. p # place
      BY <3>2, <3>3, <1>9
    <3> QED
      BY <1>4, <2>1, <3>1, <3>2, <3>3, <3>4, SMTT(60) DEF p
  <2>3. place[1] = b /\ place[2] = Len(buckets[b + 1])
    BY <1>9
  <2>4. node_renumber'[N][K] = place
    BY <1>7
  <2> QED
    BY <2>1, <2>2, <2>3, <2>4
<1>12. ASSUME NEW n \in 1..NodeCount, NEW k \in 1..Len(node_renumber'[n])
       PROVE  \/ n = N /\ k = K
              \/ k \in 1..Len(node_renumber[n]) /\ node_renumber'[n][k] = node_renumber[n][k]
  <2>1. Len(node_renumber[N]) \in Nat /\ K = Len(node_renumber[N]) + 1 /\ N \in 1..NodeCount
    BY <1>2, <1>9
  <2>2. CASE n = N
    <3>1. k \in 1..K
      BY <2>2, <1>7
    <3>2. k = K \/ k \in 1..Len(node_renumber[n])
      BY <2>1, <2>2, <3>1
    <3>3. \A j \in 1..Len(node_renumber[N]) : node_renumber'[N][j] = node_renumber[N][j]
      <4>1. K - 1 = Len(node_renumber[N])
        BY <2>1
      <4>2. \A j \in 1..(K - 1) : node_renumber'[N][j] = node_renumber[N][j]
        BY <1>7
      <4> QED
        BY <4>1, <4>2, Zenon
    <3> QED
      BY <2>2, <3>2, <3>3
  <2>3. CASE n # N
    BY <2>3, <1>7
  <2> QED
    BY <2>2, <2>3
<1>13. InPlace'
  <2>1. ASSUME NEW n \in 1..NodeCount, NEW k \in 1..Len(node_renumber'[n])
        PROVE  LET p == node_renumber'[n][k]
               IN /\ p[2] < Len(buckets'[p[1] + 1])
                  /\ buckets'[p[1] + 1][p[2] + 1] = Key(dev.nodes[n][k])
    <3>1. CASE n = N /\ k = K
      BY <3>1, <1>5, <1>9, <1>11
    <3>2. CASE k \in 1..Len(node_renumber[n]) /\ node_renumber'[n][k] = node_renumber[n][k]
      <4> DEFINE p == node_renumber[n][k]
      <4>1. /\ p[1] + 1 \in 1..HashSize /\ p[2] + 1 \in 1..Len(buckets[p[1] + 1])
            /\ p[2] \in Nat /\ p[1] \in 0..(HashSize - 1) /\ Len(buckets[p[1] + 1]) \in Nat
            /\ buckets[p[1] + 1][p[2] + 1] = Key(dev.nodes[n][k])
        BY <3>2, <1>9, <1>11 DEF InPlace
      <4>2. node_renumber'[n][k] = p
        BY <3>2
      <4> HIDE DEF p
      <4>3. CASE p[1] = b
        <5> DEFINE i == p[2] + 1
        <5>1. /\ i \in 1..Len(buckets[b + 1]) /\ p[2] = i - 1 /\ i \in Nat
              /\ buckets[b + 1][i] = Key(dev.nodes[n][k])
          BY <4>1, <4>3, SMTT(60)
        <5>2. buckets'[b + 1][i] = buckets[b + 1][i] /\ Len(buckets'[b + 1]) = Len(buckets[b + 1]) + 1
          BY <5>1, <1>5
        <5>3. p[2] < Len(buckets'[b + 1])
          BY <4>1, <4>3, <5>2
        <5>4. buckets'[b + 1][p[2] + 1] = Key(dev.nodes[n][k])
          BY <5>1, <5>2
        <5> HIDE DEF i
        <5> QED
          BY <4>2, <4>3, <5>3, <5>4
      <4>4. CASE p[1] # b
        <5>1. p[1] + 1 # b + 1
          BY <4>1, <4>4, <1>4, SMTT(60)
        <5>2. buckets'[p[1] + 1] = buckets[p[1] + 1]
          BY <4>1, <5>1, <1>5
        <5>3. p[2] < Len(buckets[p[1] + 1])
          BY <4>1
        <5> QED
          BY <4>1, <4>2, <5>2, <5>3
      <4> QED
        BY <4>3, <4>4
    <3> QED
      BY <3>1, <3>2, <1>12
  <2> QED
    BY <1>8, <1>9, <2>1 DEF InPlace
<1>14. PlacesOnce'
  <2>1. ASSUME NEW n \in 1..NodeCount, NEW m \in 1..NodeCount,
               NEW k \in 1..Len(node_renumber'[n]), NEW j \in 1..Len(node_renumber'[m]),
               node_renumber'[n][k] = node_renumber'[m][j]
        PROVE  n = m /\ k = j
    <3>1. \/ n = N /\ k = K
          \/ k \in 1..Len(node_renumber[n]) /\ node_renumber'[n][k] = node_renumber[n][k]
      BY <1>12
    <3>2. \/ m = N /\ j = K
          \/ j \in 1..Len(node_renumber[m]) /\ node_renumber'[m][j] = node_renumber[m][j]
      BY <1>12
    <3>3. \A x \in 1..NodeCount : \A y \in 1..Len(node_renumber[x]) : node_renumber[x][y] # place
      BY <1>11
    <3>4. node_renumber'[N][K] = place
      BY <1>11
    <3>5. CASE (n = N /\ k = K) \/ (m = N /\ j = K)
      BY <2>1, <3>1, <3>2, <3>3, <3>4, <3>5
    <3>6. CASE /\ k \in 1..Len(node_renumber[n]) /\ node_renumber'[n][k] = node_renumber[n][k]
               /\ j \in 1..Len(node_renumber[m]) /\ node_renumber'[m][j] = node_renumber[m][j]
      <4>1. node_renumber[n][k] = node_renumber[m][j]
        BY <2>1, <3>6
      <4> QED
        BY <3>6, <4>1, <1>9 DEF PlacesOnce
    <3> QED
      BY <3>1, <3>2, <3>5, <3>6
  <2> QED
    BY <1>8, <2>1 DEF PlacesOnce
<1>15. PlacesUsed'
  <2>1. ASSUME NEW c \in 1..HashSize, NEW i \in 1..Len(buckets'[c])
        PROVE  /\ crc[buckets'[c][i]] % HashSize = c - 1
               /\ \E n \in 1..NodeCount : \E k \in 1..Len(node_renumber'[n]) :
                    node_renumber'[n][k] = <<c - 1, i - 1>>
    <3>1. CASE c = b + 1 /\ i = Len(buckets[b + 1]) + 1
      <4>1. c - 1 = b /\ i - 1 = Len(buckets[b + 1])
        BY <3>1, <1>4, <1>5
      <4>2. N \in 1..NodeCount /\ K \in 1..Len(node_renumber'[N])
        BY <1>2, <1>7
      <4> QED
        BY <3>1, <4>1, <4>2, <1>5, <1>7, <1>9, ZenonT(60)
    <3>2. CASE i \in 1..Len(buckets[c]) /\ buckets'[c][i] = buckets[c][i]
      <4>3. PICK n \in 1..NodeCount : \E k \in 1..Len(node_renumber[n]) :
              node_renumber[n][k] = <<c - 1, i - 1>>
        BY <3>2, <1>9 DEF PlacesUsed
      <4>1. PICK k \in 1..Len(node_renumber[n]) : node_renumber[n][k] = <<c - 1, i - 1>>
        BY <4>3
      <4>2. k \in 1..Len(node_renumber'[n]) /\ node_renumber'[n][k] = node_renumber[n][k]
        <5>1. CASE n # N
          BY <5>1, <1>7
        <5>2. CASE n = N
          <6>1. Len(node_renumber[N]) \in Nat /\ K = Len(node_renumber[N]) + 1 /\ k \in 1..Len(node_renumber[N])
            BY <1>2, <1>9, <5>2
          <6>2. k \in 1..(K - 1) /\ k \in 1..K
            BY <6>1
          <6> QED
            BY <5>2, <6>2, <1>7
        <5> QED
          BY <5>1, <5>2
      <4> QED
        BY <3>2, <4>1, <4>2, <1>9 DEF PlacesUsed
    <3>3. \/ c = b + 1 /\ i = Len(buckets[b + 1]) + 1
          \/ i \in 1..Len(buckets[c]) /\ buckets'[c][i] = buckets[c][i]
      <4>1. CASE c = b + 1
        <5>1. Len(buckets[b + 1]) \in Nat /\ i \in 1..(Len(buckets[b + 1]) + 1)
          BY <4>1, <1>5
        <5>2. i \in 1..Len(buckets[b + 1]) \/ i = Len(buckets[b + 1]) + 1
          BY <5>1
        <5> QED
          BY <4>1, <5>2, <1>5
      <4>2. CASE c # b + 1
        BY <4>2, <1>5
      <4> QED
        BY <4>1, <4>2
    <3> QED
      BY <3>1, <3>2, <3>3
  <2> QED
    BY <1>8, <1>9, <2>1 DEF PlacesUsed
<1> QED
  BY <1>10, <1>13, <1>14, <1>15 DEF BucketsFilled

(* And so it stays for the next node. *)
LEMMA NextNodeKeeps ==
  ASSUME MakingTyped, BucketsFilled, NextNode
  PROVE  BucketsFilled'
<1>1. /\ at \in Nat /\ at < NodeCount /\ at' = at + 1
      /\ Len(node_renumber[at + 1]) = Len(dev.nodes[at + 1])
      /\ UNCHANGED <<dev, crc, buckets, node_renumber>>
  BY DEF NextNode, MakingTyped, NodeCount, Step
<1>2. NodeCount \in Nat
  BY DeviceIs DEF MakingTyped
<1>3. BucketsTyped'
  <2>1. ASSUME NEW n \in 1..NodeCount, n <= at + 1
        PROVE  Len(node_renumber[n]) = Len(dev.nodes[n])
    <3>1. n = at + 1 \/ n <= at
      BY <1>1, <2>1
    <3> QED
      BY <1>1, <3>1 DEF BucketsFilled, BucketsTyped
  <2> QED
    BY <1>1, <1>2, <2>1, ListsKept DEF BucketsFilled, BucketsTyped
<1>4. NodeCount' = NodeCount /\ HashSize' = HashSize /\ \A w : Key(w)' = Key(w)
  BY <1>1, ListsKept
<1>5. InPlace'
  BY <1>1, <1>4 DEF BucketsFilled, InPlace
<1>6. PlacesOnce'
  BY <1>1, <1>4 DEF BucketsFilled, PlacesOnce
<1>7. PlacesUsed'
  <2>1. ASSUME NEW b \in 1..HashSize', NEW i \in 1..Len(buckets'[b])
        PROVE  /\ crc'[buckets'[b][i]] % HashSize' = b - 1
               /\ \E n \in 1..NodeCount' : \E k \in 1..Len(node_renumber'[n]) :
                    node_renumber'[n][k] = <<b - 1, i - 1>>
    <3>1. b \in 1..HashSize /\ i \in 1..Len(buckets[b])
      BY <1>1, <1>4
    <3>2. /\ crc[buckets[b][i]] % HashSize = b - 1
          /\ \E n \in 1..NodeCount : \E k \in 1..Len(node_renumber[n]) :
               node_renumber[n][k] = <<b - 1, i - 1>>
      BY <3>1 DEF BucketsFilled, PlacesUsed
    <3> QED
      BY <3>2, <1>1, <1>4
  <2> QED
    BY <2>1 DEF PlacesUsed
<1> QED
  BY <1>3, <1>5, <1>6, <1>7 DEF BucketsFilled

(* Every place of the file is in one of its vectors. *)
LEMMA PlaceIn ==
  ASSUME NEW S, NEW src \in Seq(Seq(S)), NEW x \in 1..Len(FlattenSeq(src))
  PROVE  \E c \in 1..Len(src) : \E i \in 1..Len(src[c]) :
           /\ x = Offsets(src)[c] + i
           /\ FlattenSeq(src)[x] = src[c][i]
<1>1. x \in 1..Offsets(src)[Len(src) + 1]
  BY Flattened
<1>2. PICK c \in 1..Len(src) : \E i \in 1..Len(src[c]) : x = Offsets(src)[c] + i
  BY <1>1, Located
<1>3. PICK i \in 1..Len(src[c]) : x = Offsets(src)[c] + i
  BY <1>2
<1>4. FlattenSeq(src)[Offsets(src)[c] + i] = src[c][i]
  BY Flattened
<1> QED
  BY <1>3, <1>4

AreKeys(keys, keyOf, bucket) ==
  Len(keys) = Len(bucket) /\ \A i \in 1..Len(keys) : keys[i] = keyOf[bucket[i]]
HasAll(src, b, keyOf, key) ==
  \A c \in 1..Len(src) : \A i \in 1..Len(src[c]) : keyOf[src[c][i]] = key => c = b + 1

(* A file of entries of S, searched for the key in its bucket b: all that have *)
(* the key are there.                                                      *)
Searched(S, src, sets, keySet, keyOf, key, b, keys) ==
  /\ src \in Seq(Seq(S)) /\ sets = dense(src) /\ keyOf \in [S -> keySet]
  /\ b \in 0..(Len(src) - 1) /\ keys \in Seq(keySet)
  /\ AreKeys(keys, keyOf, src[b + 1]) /\ HasAll(src, b, keyOf, key)
FindsKey(sets, keyOf, key, found) ==
  \/ found \in 0..(Len(sets.body) - 1) /\ keyOf[sets.body[found + 1]] = key
  \/ found = NotFound /\ \A x \in 1..Len(sets.body) : keyOf[sets.body[x]] # key

(* In such a file the search finds an entry with the key, if there is one. *)
LEMMA FoundInFile ==
  ASSUME NEW S, NEW src, NEW sets, NEW keySet, NEW keyOf, NEW key, NEW b, NEW keys,
         Searched(S, src, sets, keySet, keyOf, key, b, keys)
  PROVE  FindsKey(sets, keyOf, key, Lookup(sets, b, keys, key))
<1> SUFFICES ASSUME src \in Seq(Seq(S)), sets = dense(src), keyOf \in [S -> keySet],
                    b \in 0..(Len(src) - 1), keys \in Seq(keySet),
                    AreKeys(keys, keyOf, src[b + 1]), HasAll(src, b, keyOf, key)
             PROVE  \/ /\ Lookup(sets, b, keys, key) \in 0..(Len(sets.body) - 1)
                       /\ keyOf[sets.body[Lookup(sets, b, keys, key) + 1]] = key
                    \/ /\ Lookup(sets, b, keys, key) = NotFound
                       /\ \A x \in 1..Len(sets.body) : keyOf[sets.body[x]] # key
  BY DEF Searched, FindsKey
<1>1. /\ sets.body = FlattenSeq(src) /\ b + 1 \in 1..Len(src)
      /\ sets.header[b + 1].offset = Offsets(src)[b + 1]
  <2>1. b + 1 \in 1..Len(src)
    OBVIOUS
  <2> QED
    BY <2>1, DenseIs
<1>2. CASE /\ Lookup(sets, b, keys, key) = NotFound
           /\ \A i \in 1..Len(keys) : keys[i] # key
  <2> SUFFICES ASSUME NEW x \in 1..Len(sets.body), keyOf[sets.body[x]] = key PROVE FALSE
    BY <1>2
  <2>4. x \in 1..Len(FlattenSeq(src))
    BY <1>1
  <2>1. PICK c \in 1..Len(src) : \E i \in 1..Len(src[c]) :
          x = Offsets(src)[c] + i /\ FlattenSeq(src)[x] = src[c][i]
    BY <2>4, PlaceIn
  <2>2. PICK i \in 1..Len(src[c]) : FlattenSeq(src)[x] = src[c][i]
    BY <2>1
  <2>3. c = b + 1
    BY <1>1, <2>2 DEF HasAll
  <2> QED
    BY <1>1, <1>2, <2>2, <2>3 DEF AreKeys
<1>3. ASSUME NEW i \in 1..Len(keys), keys[i] = key, Lookup(sets, b, keys, key) = Place(sets, b, i)
      PROVE  /\ Lookup(sets, b, keys, key) \in 0..(Len(sets.body) - 1)
             /\ keyOf[sets.body[Lookup(sets, b, keys, key) + 1]] = key
  <2> DEFINE w == Lookup(sets, b, keys, key)
             o == Offsets(src)[b + 1]
  <2>1. /\ o \in Nat /\ o + i \in 1..Len(FlattenSeq(src))
        /\ FlattenSeq(src)[o + i] = src[b + 1][i]
    BY <1>1, PlaceInside DEF AreKeys
  <2>2. w = o + i - 1
    BY <1>1, <1>3 DEF Place
  <2> HIDE DEF w, o
  <2>3. w + 1 = o + i /\ w \in 0..(Len(sets.body) - 1)
    BY <1>1, <2>1, <2>2
  <2>4. keyOf[src[b + 1][i]] = key
    BY <1>3 DEF AreKeys
  <2>5. keyOf[sets.body[w + 1]] = key
    BY <1>1, <2>1, <2>3, <2>4
  <2> QED
    BY <2>3, <2>5 DEF w
<1>4. \/ /\ Lookup(sets, b, keys, key) = NotFound
         /\ \A i \in 1..Len(keys) : keys[i] # key
      \/ \E i \in 1..Len(keys) : keys[i] = key /\ Lookup(sets, b, keys, key) = Place(sets, b, i)
  BY LookupIs
<1> QED
  BY <1>2, <1>3, <1>4

(* The buckets are written, and places become numbers. *)
LEMMA WriteWiresNumbers ==
  ASSUME MakingTyped, BucketsFilled, WriteWires
  PROVE  WiresNumbered'
<1> DEFINE O == Offsets(buckets)
           F == FlattenSeq(buckets)
           B(n, k) == node_renumber[n][k][1] + 1
           I(n, k) == node_renumber[n][k][2] + 1
<1>1. /\ at = NodeCount /\ alt_wires' = dense(buckets)
      /\ UNCHANGED <<dev, crc, buckets, node_renumber>>
      /\ BucketsTyped /\ InPlace /\ PlacesOnce /\ PlacesUsed
  BY DEF WriteWires, NodeCount, BucketsFilled
<1>2. /\ buckets \in Seq(Seq(Names)) /\ Len(buckets) = HashSize
      /\ node_renumber \in Seq(Seq((0..(HashSize - 1)) \X Nat)) /\ Len(node_renumber) = NodeCount
      /\ NodeCount \in Nat /\ HashSize \in Nat \ {0}
      /\ \A n \in 1..NodeCount : Len(node_renumber[n]) = Len(dev.nodes[n])
  <2>1. NodeCount \in Nat /\ Len(dev.wires) \in Nat
    BY DeviceIs DEF MakingTyped
  <2>2. HashSize \in Nat \ {0}
    BY <2>1, HashSizeIs DEF HashSize
  <2> QED
    BY <1>1, <2>1, <2>2 DEF BucketsTyped
<1>3. NodeCount' = NodeCount /\ HashSize' = HashSize /\ \A w : Key(w)' = Key(w)
  BY <1>1, ListsKept
<1>4. /\ dense_size(alt_wires') = HashSize /\ alt_wires'.body = F /\ alt_wires'.body \in Seq(Names)
      /\ \A b \in 1..HashSize : /\ alt_wires'.header[b].offset = O[b]
                                /\ dense_at(alt_wires', b - 1) = buckets[b]
  BY <1>1, <1>2, DenseIs
<1>5. ASSUME NEW n \in 1..NodeCount, NEW k \in 1..Len(dev.nodes[n])
      PROVE  /\ B(n, k) \in 1..HashSize /\ I(n, k) \in 1..Len(buckets[B(n, k)])
             /\ node_renumber[n][k] = <<B(n, k) - 1, I(n, k) - 1>>
             /\ O[B(n, k)] \in Nat
             /\ Number(n, k)' \in Nat /\ Number(n, k)' + 1 = O[B(n, k)] + I(n, k)
             /\ buckets[B(n, k)][I(n, k)] = Key(dev.nodes[n][k])
  <2> DEFINE p == node_renumber[n][k]
  <2>1. p \in (0..(HashSize - 1)) \X Nat
    <3>1. node_renumber[n] \in Seq((0..(HashSize - 1)) \X Nat) /\ k \in 1..Len(node_renumber[n])
      BY <1>2
    <3> QED
      BY <3>1
  <2>2. p[2] < Len(buckets[p[1] + 1]) /\ buckets[p[1] + 1][p[2] + 1] = Key(dev.nodes[n][k])
    BY <1>1, <1>2 DEF InPlace
  <2>3. Number(n, k)' = alt_wires'.header[p[1] + 1].offset + p[2]
    BY <1>1 DEF Number, Renumbered
  <2> HIDE DEF p
  <2>4. p[1] \in 0..(HashSize - 1) /\ p[2] \in Nat /\ p = <<p[1], p[2]>>
    BY <2>1
  <2>5. p[1] + 1 \in 1..HashSize /\ p[1] + 1 \in 1..(Len(buckets) + 1)
    <3>1. HashSize \in Nat /\ Len(buckets) = HashSize
      BY <1>2
    <3>2. p[1] + 1 \in 1..HashSize /\ p[1] + 1 \in 1..(HashSize + 1)
      BY <2>4, <3>1
    <3> QED
      BY <3>1, <3>2
  <2>6. Len(buckets[p[1] + 1]) \in Nat /\ O[p[1] + 1] \in Nat
    <3>1. O \in [1..(Len(buckets) + 1) -> Nat]
      BY <1>2, OffsetsSums
    <3> HIDE DEF O
    <3> QED
      BY <1>2, <2>5, <3>1
  <2>7. /\ B(n, k) = p[1] + 1 /\ I(n, k) = p[2] + 1
    BY DEF p
  <2> DEFINE bb == B(n, k)
             ii == I(n, k)
  <2>8. bb = p[1] + 1 /\ ii = p[2] + 1
    BY <2>7
  <2> HIDE DEF B, I, bb, ii, O
  <2>9. p[1] = bb - 1 /\ p[2] = ii - 1
    BY <2>4, <2>8
  <2>10. p = <<bb - 1, ii - 1>>
    BY <2>4, <2>9
  <2>11. ii \in 1..Len(buckets[bb])
    BY <2>2, <2>4, <2>6, <2>8
  <2>12. bb \in 1..HashSize /\ O[bb] \in Nat
    BY <2>5, <2>6, <2>8
  <2>14. Number(n, k)' = O[bb] + p[2] /\ p[2] \in Nat
    BY <1>4, <2>3, <2>4, <2>5, <2>8
  <2>15. Number(n, k)' \in Nat /\ Number(n, k)' + 1 = O[bb] + ii
    BY <2>8, <2>12, <2>14
  <2>13. buckets[bb][ii] = Key(dev.nodes[n][k])
    BY <2>2, <2>8
  <2> QED
    BY <2>10, <2>11, <2>12, <2>13, <2>15 DEF bb, ii, p
<1> HIDE DEF O, F, B, I
<1>6. NumbersGiven'
  <2>1. ASSUME NEW n \in 1..NodeCount, NEW k \in 1..Len(dev.nodes[n])
        PROVE  /\ Number(n, k)' \in 0..(Len(alt_wires'.body) - 1)
               /\ alt_wires'.body[Number(n, k)' + 1] = Key(dev.nodes[n][k])
    <3> DEFINE b == B(n, k)
               i == I(n, k)
               w == Number(n, k)'
    <3>1. /\ b \in 1..HashSize /\ i \in 1..Len(buckets[b]) /\ O[b] \in Nat
          /\ w \in Nat /\ w + 1 = O[b] + i /\ buckets[b][i] = Key(dev.nodes[n][k])
      BY <1>5
    <3> HIDE DEF b, i, w
    <3>2. O[b] + i \in 1..Len(F) /\ F[O[b] + i] = buckets[b][i]
      <4>1. b \in 1..Len(buckets) /\ i \in 1..Len(buckets[b])
        BY <1>2, <3>1
      <4>2. buckets \in Seq(Seq(Names))
        BY <1>2
      <4> QED
        BY <4>1, <4>2, PlaceInside DEF O, F
    <3>3. w + 1 = O[b] + i /\ w \in 0..(Len(F) - 1)
      <4>1. w \in Nat /\ w + 1 = O[b] + i
        BY <3>1
      <4>2. Len(F) \in Nat
        BY <1>4
      <4>3. O[b] + i \in 1..Len(F)
        BY <3>2
      <4> QED
        BY <4>1, <4>2, <4>3
    <3> QED
      BY <1>4, <3>1, <3>2, <3>3 DEF w
  <2> QED
    BY <1>1, <1>3, <1>4, <2>1 DEF NumbersGiven, Numbers, WireTotal
<1>7. NumbersOnce'
  <2>1. ASSUME NEW n \in 1..NodeCount, NEW m \in 1..NodeCount,
               NEW k \in 1..Len(dev.nodes[n]), NEW j \in 1..Len(dev.nodes[m]),
               Number(n, k)' = Number(m, j)'
        PROVE  n = m /\ k = j
    <3>1. /\ B(n, k) \in 1..HashSize /\ I(n, k) \in 1..Len(buckets[B(n, k)])
          /\ node_renumber[n][k] = <<B(n, k) - 1, I(n, k) - 1>> /\ O[B(n, k)] \in Nat
          /\ Number(n, k)' + 1 = O[B(n, k)] + I(n, k)
      BY <1>5
    <3>2. /\ B(m, j) \in 1..HashSize /\ I(m, j) \in 1..Len(buckets[B(m, j)])
          /\ node_renumber[m][j] = <<B(m, j) - 1, I(m, j) - 1>> /\ O[B(m, j)] \in Nat
          /\ Number(m, j)' + 1 = O[B(m, j)] + I(m, j)
      BY <1>5
    <3> DEFINE b == B(n, k)
               i == I(n, k)
               c == B(m, j)
               l == I(m, j)
               w == Number(n, k)'
               v == Number(m, j)'
    <3>3. /\ b \in 1..HashSize /\ i \in 1..Len(buckets[b]) /\ c \in 1..HashSize
          /\ l \in 1..Len(buckets[c]) /\ O[b] \in Nat /\ O[c] \in Nat
          /\ w + 1 = O[b] + i /\ v + 1 = O[c] + l /\ w = v
          /\ node_renumber[n][k] = <<b - 1, i - 1>> /\ node_renumber[m][j] = <<c - 1, l - 1>>
      BY <2>1, <3>1, <3>2
    <3> HIDE DEF b, i, c, l, w, v
    <3>4. O[b] + i = O[c] + l
      <4>1. w + 1 = v + 1
        BY <3>3
      <4> QED
        BY <3>3, <4>1
    <3>5. b \in 1..Len(buckets) /\ c \in 1..Len(buckets)
      BY <1>2, <3>3
    <3>6. b = c /\ i = l
      <4>1. buckets \in Seq(Seq(Names)) /\ i \in 1..Len(buckets[b]) /\ l \in 1..Len(buckets[c])
        BY <1>2, <3>3
      <4>2. Offsets(buckets)[b] + i = Offsets(buckets)[c] + l
        BY <3>4 DEF O
      <4> QED
        BY <3>5, <4>1, <4>2, PlaceOnce
    <3>7. k \in 1..Len(node_renumber[n]) /\ j \in 1..Len(node_renumber[m])
      BY <1>2
    <3>8. node_renumber[n][k] = node_renumber[m][j]
      BY <3>3, <3>6
    <3> QED
      BY <1>1, <3>7, <3>8 DEF PlacesOnce
  <2> QED
    BY <1>1, <1>3, <2>1 DEF NumbersOnce
<1>8. NumbersUsed'
  <2>1. ASSUME NEW w \in 0..(Len(alt_wires'.body) - 1)
        PROVE  \E n \in 1..NodeCount : \E k \in 1..Len(dev.nodes[n]) : w = Number(n, k)'
    <3>1. w + 1 \in 1..Len(F) /\ w \in Nat
      BY <1>4
    <3>2. PICK b \in 1..HashSize : \E i \in 1..Len(buckets[b]) : w + 1 = O[b] + i
      BY <1>2, <3>1, PlaceIn DEF O, F
    <3>3. PICK i \in 1..Len(buckets[b]) : w + 1 = O[b] + i
      BY <3>2
    <3>4. \E n \in 1..NodeCount : \E k \in 1..Len(node_renumber[n]) :
            node_renumber[n][k] = <<b - 1, i - 1>>
      BY <1>1 DEF PlacesUsed
    <3>5. PICK n \in 1..NodeCount : \E k \in 1..Len(node_renumber[n]) :
            node_renumber[n][k] = <<b - 1, i - 1>>
      BY <3>4
    <3>6. PICK k \in 1..Len(node_renumber[n]) : node_renumber[n][k] = <<b - 1, i - 1>>
      BY <3>5
    <3>7. k \in 1..Len(dev.nodes[n])
      BY <1>2
    <3>8. B(n, k) = b /\ I(n, k) = i
      BY <3>6 DEF B, I
    <3>9. Number(n, k)' \in Nat /\ Number(n, k)' + 1 = O[b] + i
      BY <1>5, <3>7, <3>8
    <3>10. w = Number(n, k)'
      BY <3>1, <3>3, <3>9
    <3> QED
      BY <3>7, <3>10
  <2> QED
    BY <1>1, <1>3, <2>1 DEF NumbersUsed, Numbers, WireTotal
<1>9. WiresFound'
  <2>1. ASSUME NEW tile \in Strings, NEW wire \in Strings
        PROVE  WireFound(tile, wire)'
    <3> DEFINE key == <<wire, tile>>
               b == crc[key] % HashSize
               keyOf == [name \in Names |-> name]
               keys == buckets[b + 1]
               w == find_wire(tile, wire)'
    <3>1. key \in Names
      BY DEF Names
    <3>2. b \in 0..(HashSize - 1)
      BY <3>1, BucketFor DEF MakingTyped
    <3>3. b \in 0..(Len(buckets) - 1) /\ b + 1 \in 1..HashSize
      <4> HIDE DEF b
      <4> QED
        BY <1>2, <3>2
    <3>4. w = Lookup(alt_wires', b, keys, key)
      <4>1. dense_at(alt_wires', b) = buckets[b + 1]
        <5> HIDE DEF b
        <5>1. (b + 1) - 1 = b
          BY <3>2
        <5> QED
          BY <1>4, <3>3, <5>1
      <4> QED
        BY <1>1, <1>4, <4>1 DEF find_wire
    <3>5. \A c \in 1..Len(buckets) : \A i \in 1..Len(buckets[c]) :
            buckets[c][i] = key => c = b + 1
      <4> SUFFICES ASSUME NEW c \in 1..Len(buckets), NEW i \in 1..Len(buckets[c]), buckets[c][i] = key
                   PROVE  c = b + 1
        OBVIOUS
      <4>1. b = c - 1
        BY <1>1, <1>2 DEF PlacesUsed
      <4> HIDE DEF b
      <4> QED
        BY <4>1, <1>2
    <3>6. /\ keys \in Seq(Names) /\ keyOf \in [Names -> Names]
          /\ \A i \in 1..Len(keys) : keys[i] \in Names /\ keys[i] = keyOf[keys[i]]
      <4>1. keys \in Seq(Names)
        BY <1>2, <3>3
      <4> HIDE DEF keys
      <4> QED
        BY <4>1
    <3>7. \A c \in 1..Len(buckets) : \A i \in 1..Len(buckets[c]) : keyOf[buckets[c][i]] = buckets[c][i]
      BY <1>2
    <3> HIDE DEF b, keyOf, key
    <3>8. \A i \in 1..Len(keys) : keys[i] = keyOf[buckets[b + 1][i]]
      BY <3>6
    <3>9. \A c \in 1..Len(buckets) : \A i \in 1..Len(buckets[c]) :
            keyOf[buckets[c][i]] = key => c = b + 1
      BY <3>5, <3>7
    <3>10. alt_wires' = dense(buckets) /\ Len(keys) = Len(buckets[b + 1])
      BY <1>1
    <3> HIDE DEF keys
    <3>14. AreKeys(keys, keyOf, buckets[b + 1]) /\ HasAll(buckets, b, keyOf, key)
      BY <3>8, <3>9, <3>10 DEF AreKeys, HasAll
    <3>15. buckets \in Seq(Seq(Names)) /\ keys \in Seq(Names) /\ keyOf \in [Names -> Names]
      BY <1>2, <3>6
    <3>11. \/ /\ Lookup(alt_wires', b, keys, key) \in 0..(Len(alt_wires'.body) - 1)
              /\ keyOf[alt_wires'.body[Lookup(alt_wires', b, keys, key) + 1]] = key
           \/ /\ Lookup(alt_wires', b, keys, key) = NotFound
              /\ \A x \in 1..Len(alt_wires'.body) : keyOf[alt_wires'.body[x]] # key
      <4> DEFINE found == Lookup(alt_wires', b, keys, key)
                 sets == alt_wires'
      <4>1. sets = dense(buckets)
        BY <3>10
      <4> HIDE DEF sets
      <4>2. Searched(Names, buckets, sets, Names, keyOf, key, b, keys)
        BY <3>3, <3>14, <3>15, <4>1 DEF Searched
      <4>3. FindsKey(sets, keyOf, key, Lookup(sets, b, keys, key))
        BY <4>2, FoundInFile, Zenon
      <4> QED
        BY <4>3 DEF FindsKey, sets
    <3> HIDE DEF w
    <3>12. \A x \in 1..Len(alt_wires'.body) : keyOf[alt_wires'.body[x]] = alt_wires'.body[x]
      BY <1>4 DEF keyOf
    <3>13. \/ w \in 0..(Len(alt_wires'.body) - 1) /\ alt_wires'.body[w + 1] = key
           \/ w = NotFound /\ \A x \in 1..Len(alt_wires'.body) : alt_wires'.body[x] # key
      <4>1. w \in 0..(Len(alt_wires'.body) - 1) => w + 1 \in 1..Len(alt_wires'.body)
        BY <1>4
      <4> QED
        BY <3>4, <3>11, <3>12, <4>1
    <3> QED
      BY <3>13 DEF WireFound, w, key, Numbers, WireTotal
  <2> QED
    BY <2>1 DEF WiresFound
<1> QED
  BY <1>6, <1>7, <1>8, <1>9 DEF WiresNumbered

(* The wires of a node by number. *)
LEMMA FinalIs ==
  ASSUME dev \in Devices, NumbersGiven, NEW n \in 1..NodeCount
  PROVE  /\ dev.nodes[n] \in Seq(0..(Len(dev.wires) - 1)) /\ Len(dev.nodes[n]) \in Nat
         /\ FinalOf(n) \in Seq(Nat) /\ Len(FinalOf(n)) = Len(dev.nodes[n])
         /\ DOMAIN FinalOf(n) = 1..Len(dev.nodes[n])
         /\ \A k \in 1..Len(dev.nodes[n]) : /\ FinalOf(n)[k] = Number(n, k)
                                            /\ Number(n, k) \in Numbers /\ Number(n, k) \in Nat
<1>1. dev.nodes[n] \in Seq(0..(Len(dev.wires) - 1))
  BY DeviceIs
<1>2. Len(dev.nodes[n]) \in Nat /\ DOMAIN dev.nodes[n] = 1..Len(dev.nodes[n])
  BY <1>1
<1>3. \A k \in 1..Len(dev.nodes[n]) : Number(n, k) \in Numbers
  BY DEF NumbersGiven
<1>4. \A k \in 1..Len(dev.nodes[n]) : Number(n, k) \in Nat
  BY <1>3 DEF Numbers
<1>5. FinalOf(n) = [k \in 1..Len(dev.nodes[n]) |-> Number(n, k)]
  BY <1>2 DEF FinalOf
<1>6. FinalOf(n) \in [1..Len(dev.nodes[n]) -> Nat]
  BY <1>4, <1>5
<1>7. FinalOf(n) \in Seq(Nat) /\ Len(FinalOf(n)) = Len(dev.nodes[n])
  BY <1>2, <1>6
<1> QED
  BY <1>1, <1>2, <1>3, <1>4, <1>5, <1>7

(* The names at the numbers are those of the wires, so the check passes. *)
LEMMA NodeListed ==
  ASSUME MakingTyped, WiresNumbered, NumbersListed, MakeNodeToWires
  PROVE  stage' = stage /\ NumbersListed'
<1> DEFINE N == at + 1
           final == [k \in DOMAIN dev.nodes[N] |-> Renumbered(node_renumber[N][k])]
<1>1. /\ at \in Nat /\ at < NodeCount /\ N \in 1..NodeCount /\ NodeCount \in Nat
      /\ UNCHANGED <<dev, crc, node_renumber, alt_wires>>
  <2>1. NodeCount \in Nat
    BY DeviceIs DEF MakingTyped
  <2>2. at \in Nat /\ at < NodeCount
    BY DEF MakingTyped, MakeNodeToWires, NodeCount
  <2> QED
    BY <2>1, <2>2 DEF MakeNodeToWires, files
<1>2. final = FinalOf(N)
  BY DEF FinalOf, Number
<1>3. \A k \in DOMAIN dev.nodes[N] : alt_wires.body[final[k] + 1] = Key(dev.nodes[N][k])
  <2>1. DOMAIN dev.nodes[N] = 1..Len(dev.nodes[N])
    BY <1>1, FinalIs DEF MakingTyped, WiresNumbered
  <2> HIDE DEF N, final
  <2> QED
    BY <1>1, <1>2, <2>1, FinalIs DEF MakingTyped, WiresNumbered, NumbersGiven
<1>4. node_final' = Append(node_final, final) /\ at' = at + 1 /\ stage' = stage
  BY <1>3 DEF MakeNodeToWires, Step
<1>5. /\ NodeCount' = NodeCount
      /\ \A n : FinalOf(n)' = FinalOf(n)
  BY <1>1 DEF NodeCount, FinalOf, Number, Renumbered
<1>6. FinalOf(N) \in Seq(Nat)
  BY <1>1, FinalIs DEF MakingTyped, WiresNumbered
<1> HIDE DEF final
<1>7. node_final \in Seq(Seq(Nat)) /\ Len(node_final) = at /\ \A n \in 1..at : node_final[n] = FinalOf(n)
  BY DEF NumbersListed
<1>8. /\ node_final' \in Seq(Seq(Nat)) /\ Len(node_final') = at + 1
      /\ node_final'[N] = FinalOf(N)
      /\ \A n \in 1..at : node_final'[n] = node_final[n]
  <2>1. node_final' = Append(node_final, FinalOf(N))
    BY <1>2, <1>4
  <2> HIDE DEF N
  <2>2. N = Len(node_final) + 1
    BY <1>7 DEF N
  <2>3. Len(node_final) = at /\ at \in Nat /\ node_final \in Seq(Seq(Nat))
    BY <1>1, <1>7
  <2> QED
    BY <1>6, <2>1, <2>2, <2>3
<1>9. \A n \in 1..(at + 1) : node_final'[n] = FinalOf(n)
  <2> SUFFICES ASSUME NEW n \in 1..(at + 1) PROVE node_final'[n] = FinalOf(n)
    OBVIOUS
  <2>1. n = N \/ n \in 1..at
    BY <1>1
  <2> QED
    BY <1>7, <1>8, <2>1
<1>10. at + 1 <= NodeCount
  <2>1. at \in Nat /\ at < NodeCount /\ NodeCount \in Nat
    BY <1>1
  <2> QED
    BY <2>1
<1> QED
  BY <1>4, <1>5, <1>8, <1>9, <1>10 DEF NumbersListed

(* The file of nodes has the numbers of the wires.  Nothing is written of  *)
(* nodes without wires.                                                    *)
LEMMA NodesAreWritten ==
  ASSUME MakingTyped, WiresNumbered, NumbersListed, WriteNodes
  PROVE  /\ NodesWritten' /\ NodesSet(0)'
         /\ \/ stage' = "make_wire_to_node" /\ at' = 0
            \/ stage' = "aborted" /\ at' = at /\ AbortsIfNothing'
<1>1. /\ at = NodeCount /\ alt_nodes' = dense(node_final)
      /\ alt_wire_to_node' = [w \in DOMAIN alt_wires.body |-> 0]
      /\ \/ stage' = "make_wire_to_node" /\ at' = 0
         \/ alt_wires.body = <<>> /\ stage' = "aborted" /\ at' = at
      /\ UNCHANGED <<dev, crc, node_renumber, alt_wires>>
  BY DEF WriteNodes, NodeCount, Start
<1>2. /\ NodeCount' = NodeCount /\ WireTotal' = WireTotal
      /\ \A n : FinalOf(n)' = FinalOf(n)
  BY <1>1 DEF NodeCount, WireTotal, FinalOf, Number, Renumbered
<1>3. /\ NodeCount \in Nat /\ alt_wires.body \in Seq(Names)
      /\ node_final \in Seq(Seq(Nat)) /\ Len(node_final) = NodeCount
      /\ \A n \in 1..NodeCount : node_final[n] = FinalOf(n)
  BY <1>1, DeviceIs DEF MakingTyped, WiresNumbered, NumbersGiven, NumbersListed
<1>4. NodesWritten'
  <2>1. dense_size(alt_nodes') = NodeCount
    BY <1>1, <1>3, DenseIs
  <2>2. ASSUME NEW n \in 1..NodeCount PROVE dense_at(alt_nodes', n - 1) = FinalOf(n)
    <3>1. \A b \in 1..Len(node_final) : dense_at(alt_nodes', b - 1) = node_final[b]
      <4> DEFINE sets == alt_nodes'
      <4>1. sets = dense(node_final) /\ node_final \in Seq(Seq(Nat))
        BY <1>1, <1>3
      <4> HIDE DEF sets
      <4>2. \A b \in 1..Len(node_final) : dense_at(sets, b - 1) = node_final[b]
        BY <4>1, DenseIs
      <4> QED
        BY <4>2 DEF sets
    <3>2. n \in 1..Len(node_final) /\ node_final[n] = FinalOf(n)
      BY <1>3
    <3>3. dense_at(alt_nodes', n - 1) = node_final[n]
      BY <3>1, <3>2
    <3> QED
      BY <3>2, <3>3
  <2> QED
    BY <1>1, <1>2, <2>1, <2>2 DEF NodesWritten, dense_size, dense_at
<1>5. NodesSet(0)'
  <2>1. DOMAIN alt_wires.body = 1..WireTotal
    BY <1>3 DEF WireTotal
  <2>2. alt_wire_to_node' \in [1..WireTotal -> Nat]
    BY <1>1, <2>1
  <2> QED
    BY <1>2, <1>3, <2>2 DEF NodesSet
<1>6. ASSUME alt_wires.body = <<>> PROVE AbortsIfNothing'
  <2>1. Numbers = {}
    BY <1>6 DEF Numbers, WireTotal
  <2>2. ASSUME NEW n \in 1..NodeCount PROVE dev.nodes[n] = <<>>
    <3>1. Len(dev.nodes[n]) \in Nat /\ \A k \in 1..Len(dev.nodes[n]) : Number(n, k) \in Numbers
      BY FinalIs DEF MakingTyped, WiresNumbered
    <3>2. Len(dev.nodes[n]) = 0
      BY <2>1, <3>1
    <3>3. dev.nodes[n] \in Seq(0..(Len(dev.wires) - 1))
      BY FinalIs DEF MakingTyped, WiresNumbered
    <3> QED
      BY <3>2, <3>3
  <2>3. DOMAIN dev.nodes = 1..NodeCount
    BY DeviceFilesAssumption DEF MakingTyped, NodeCount
  <2> QED
    BY <1>1, <2>2, <2>3 DEF AbortsIfNothing
<1> QED
  BY <1>1, <1>4, <1>5, <1>6

(* The wires of the next node get it, and no other wire loses its own. *)
LEMMA NodeIsSet ==
  ASSUME MakingTyped, WiresNumbered, NodesWritten, NodesSet(at), MakeWireToNode
  PROVE  NodesSet(at)'
<1> DEFINE N == at + 1
<1>1. /\ at \in Nat /\ at < NodeCount /\ N \in 1..NodeCount /\ NodeCount \in Nat
  <2>1. NodeCount \in Nat
    BY DeviceIs DEF MakingTyped
  <2>2. at \in Nat /\ at < NodeCount
    BY DEF MakingTyped, MakeWireToNode, NodesWritten
  <2> QED
    BY <2>1, <2>2
<1>2. /\ at' = at + 1 /\ UNCHANGED <<dev, node_renumber, alt_wires>>
      /\ alt_wire_to_node' = [w \in DOMAIN alt_wire_to_node |->
           IF w - 1 \in ToSet(dense_at(alt_nodes, at)) THEN at ELSE alt_wire_to_node[w]]
  BY DEF MakeWireToNode, Step
<1>3. /\ NodeCount' = NodeCount /\ WireTotal' = WireTotal
      /\ \A n, k : Number(n, k)' = Number(n, k)
  BY <1>2 DEF NodeCount, WireTotal, Number, Renumbered
<1>4. dense_at(alt_nodes, at) = FinalOf(N)
  <2>1. N - 1 = at
    BY <1>1
  <2> QED
    BY <1>1, <2>1 DEF NodesWritten
<1>5. /\ alt_wire_to_node \in [1..WireTotal -> Nat]
      /\ \A n \in 1..at : \A k \in 1..Len(dev.nodes[n]) : NodeOf(Number(n, k)) = n - 1
  BY DEF NodesSet
<1> DEFINE S == ToSet(FinalOf(N))
<1>6. alt_wire_to_node' = [w \in 1..WireTotal |-> IF w - 1 \in S THEN at ELSE alt_wire_to_node[w]]
  BY <1>2, <1>4, <1>5
<1>7. S = {Number(N, k) : k \in 1..Len(dev.nodes[N])}
  <2>1. /\ DOMAIN FinalOf(N) = 1..Len(dev.nodes[N])
        /\ \A k \in 1..Len(dev.nodes[N]) : FinalOf(N)[k] = Number(N, k)
    BY <1>1, FinalIs DEF MakingTyped, WiresNumbered
  <2> QED
    BY <2>1 DEF ToSet
<1> HIDE DEF S
<1>8. alt_wire_to_node' \in [1..WireTotal -> Nat]
  BY <1>1, <1>5, <1>6
<1>9. ASSUME NEW n \in 1..(at + 1), NEW k \in 1..Len(dev.nodes[n])
      PROVE  alt_wire_to_node'[Number(n, k) + 1] = n - 1
  <2>1. n \in 1..NodeCount
    BY <1>1
  <2> DEFINE w == Number(n, k)
  <2>2. w \in Numbers /\ w \in Nat
    BY <2>1, FinalIs DEF MakingTyped, WiresNumbered
  <2>3. w + 1 \in 1..WireTotal /\ (w + 1) - 1 = w
    <3>1. WireTotal \in Nat
      BY DEF WireTotal, WiresNumbered, NumbersGiven
    <3> HIDE DEF w
    <3> QED
      BY <2>2, <3>1 DEF Numbers
  <2>4. alt_wire_to_node'[w + 1] = IF w \in S THEN at ELSE alt_wire_to_node[w + 1]
    <3> HIDE DEF w
    <3> QED
      BY <1>6, <2>3
  <2>5. CASE n = N
    <3>1. w \in S
      BY <1>7, <2>5
    <3> QED
      BY <1>1, <2>4, <2>5, <3>1
  <2>6. CASE n # N
    <3>1. n \in 1..at
      BY <1>1, <2>6
    <3>2. w \notin S
      <4> SUFFICES ASSUME w \in S PROVE FALSE
        OBVIOUS
      <4>1. PICK j \in 1..Len(dev.nodes[N]) : Number(n, k) = Number(N, j)
        BY <1>7
      <4> QED
        BY <1>1, <2>1, <2>6, <4>1 DEF WiresNumbered, NumbersOnce
    <3>3. alt_wire_to_node[w + 1] = n - 1
      BY <1>5, <3>1 DEF NodeOf
    <3> QED
      BY <2>4, <3>2, <3>3
  <2> QED
    BY <2>5, <2>6
<1>10. at + 1 <= NodeCount
  <2>1. at \in Nat /\ at < NodeCount /\ NodeCount \in Nat
    BY <1>1
  <2> QED
    BY <2>1
<1> QED
  BY <1>2, <1>3, <1>8, <1>9, <1>10 DEF NodesSet, NodeOf

(* Something new at the end of a list. *)
LEMMA ListedLast ==
  ASSUME NEW T, NEW list \in Seq(T), NEW some, Lists(list, some), NEW x \in T, x \notin some
  PROVE  Append(list, x) \in Seq(T) /\ Lists(Append(list, x), some \cup {x})
<1> DEFINE t == Append(list, x)
           n == Len(list)
<1>1. /\ n \in Nat /\ t \in Seq(T) /\ DOMAIN t = 1..(n + 1) /\ DOMAIN list = 1..n
      /\ t[n + 1] = x /\ \A i \in 1..n : t[i] = list[i]
  OBVIOUS
<1>2. /\ \A i, j \in 1..n : list[i] = list[j] => i = j
      /\ some = {list[i] : i \in 1..n}
  BY <1>1 DEF Lists, IsInjective, ToSet
<1> HIDE DEF t, n
<1>3. \A i \in 1..(n + 1) : i = n + 1 \/ i \in 1..n
  BY <1>1
<1>4. \A i \in 1..n : i \in 1..(n + 1) /\ i # n + 1
  BY <1>1
<1>5. \A i \in 1..n : t[i] \in some /\ t[i] # x
  BY <1>1, <1>2
<1>6. IsInjective(t)
  <2> SUFFICES ASSUME NEW i \in 1..(n + 1), NEW j \in 1..(n + 1), t[i] = t[j] PROVE i = j
    BY <1>1 DEF IsInjective
  <2>1. CASE i \in 1..n /\ j \in 1..n
    BY <1>1, <1>2, <2>1
  <2>2. CASE i = n + 1 \/ j = n + 1
    BY <1>1, <1>3, <1>5, <2>2
  <2> QED
    BY <1>3, <2>1, <2>2
<1>7. ToSet(t) = some \cup {x}
  <2>1. n + 1 \in 1..(n + 1)
    BY <1>1
  <2>2. ToSet(t) = {t[i] : i \in 1..(n + 1)}
    BY <1>1 DEF ToSet
  <2>3. ASSUME NEW y \in ToSet(t) PROVE y \in some \cup {x}
    BY <1>1, <1>3, <1>5, <2>2
  <2>4. ASSUME NEW y \in some PROVE y \in ToSet(t)
    BY <1>1, <1>2, <1>4, <2>2
  <2>5. x \in ToSet(t)
    BY <1>1, <2>1, <2>2
  <2> QED
    BY <2>3, <2>4, <2>5
<1> QED
  BY <1>1, <1>6, <1>7 DEF t, Lists

(* Lists of ways of taking pips, and a pip with none in them. *)
AllListed(m, lists, old) == /\ lists \in [1..m -> Seq(Nat \X BOOLEAN)]
                            /\ \A w \in 1..m : Lists(lists[w], old[w])
FreshPip(m, id, old) == \A w \in 1..m : <<id, TRUE>> \notin old[w] /\ <<id, FALSE>> \notin old[w]

Entering(lists, id, i, j, one) ==
  LET forward == [lists EXCEPT ![i] = Append(@, <<id, TRUE>>)]
  IN IF one = 1 THEN forward ELSE [forward EXCEPT ![j] = Append(@, <<id, FALSE>>)]

(* The ways of a pip are entered in the lists where they leave. *)
LEMMA WaysEntered ==
  ASSUME NEW m \in Nat, NEW lists, NEW old, AllListed(m, lists, old),
         NEW id \in Nat, FreshPip(m, id, old), NEW i \in 1..m, NEW j \in 1..m, NEW one
  PROVE  /\ Entering(lists, id, i, j, one) \in [1..m -> Seq(Nat \X BOOLEAN)]
         /\ \A w \in 1..m :
              Lists(Entering(lists, id, i, j, one)[w],
                    (old[w] \cup (IF w = i THEN {<<id, TRUE>>} ELSE {}))
                      \cup (IF w = j /\ one # 1 THEN {<<id, FALSE>>} ELSE {}))
<1> DEFINE T == Nat \X BOOLEAN
           t == Entering(lists, id, i, j, one)
           first(w) == old[w] \cup (IF w = i THEN {<<id, TRUE>>} ELSE {})
           both(w) == first(w) \cup (IF w = j /\ one # 1 THEN {<<id, FALSE>>} ELSE {})
           forward == [lists EXCEPT ![i] = Append(@, <<id, TRUE>>)]
           back == [forward EXCEPT ![j] = Append(@, <<id, FALSE>>)]
<1>1. <<id, TRUE>> \in T /\ <<id, FALSE>> \in T
  OBVIOUS
<1>2. ASSUME NEW w \in 1..m
      PROVE  forward[w] \in Seq(T) /\ Lists(forward[w], first(w))
  <2>1. lists[w] \in Seq(T) /\ Lists(lists[w], old[w]) /\ <<id, TRUE>> \notin old[w]
    BY DEF AllListed, FreshPip
  <2>4. DOMAIN lists = 1..m
    BY DEF AllListed
  <2>2. CASE w = i
    <3>1. forward[w] = Append(lists[w], <<id, TRUE>>) /\ first(w) = old[w] \cup {<<id, TRUE>>}
      BY <2>2, <2>4
    <3>2. /\ Append(lists[w], <<id, TRUE>>) \in Seq(T)
          /\ Lists(Append(lists[w], <<id, TRUE>>), old[w] \cup {<<id, TRUE>>})
      <4> DEFINE x == <<id, TRUE>>
      <4> HIDE DEF x, T
      <4> QED
        BY <1>1, <2>1, ListedLast DEF x
    <3> QED
      BY <3>1, <3>2
  <2>3. CASE w # i
    <3>1. forward[w] = lists[w] /\ first(w) = old[w]
      BY <2>3, <2>4
    <3> QED
      BY <2>1, <3>1
  <2> QED
    BY <2>2, <2>3
<1>3. forward \in [1..m -> Seq(T)]
  <2>1. DOMAIN forward = 1..m /\ forward = [w \in DOMAIN forward |-> forward[w]]
    BY DEF AllListed
  <2> QED
    BY <1>2, <2>1
<1>4. ASSUME NEW w \in 1..m PROVE <<id, FALSE>> \notin first(w)
  <2>1. <<id, TRUE>> # <<id, FALSE>>
    OBVIOUS
  <2> QED
    BY <2>1 DEF FreshPip
<1>5. ASSUME one # 1, NEW w \in 1..m
      PROVE  back[w] \in Seq(T) /\ Lists(back[w], both(w))
  <2> DEFINE f == first(w)
  <2>1. forward[w] \in Seq(T) /\ Lists(forward[w], f) /\ <<id, FALSE>> \notin f
    BY <1>2, <1>4
  <2>4. both(w) = f \cup (IF w = j THEN {<<id, FALSE>>} ELSE {})
    BY <1>5
  <2> HIDE DEF f, first, both
  <2>2. CASE w = j
    <3>1. back[w] = Append(forward[w], <<id, FALSE>>) /\ both(w) = f \cup {<<id, FALSE>>}
      BY <1>3, <2>2, <2>4
    <3>2. /\ Append(forward[w], <<id, FALSE>>) \in Seq(T)
          /\ Lists(Append(forward[w], <<id, FALSE>>), f \cup {<<id, FALSE>>})
      <4> DEFINE x == <<id, FALSE>>
      <4> HIDE DEF x, T
      <4> QED
        BY <1>1, <2>1, ListedLast DEF x
    <3> QED
      BY <3>1, <3>2
  <2>3. CASE w # j
    <3>1. back[w] = forward[w] /\ both(w) = f
      BY <1>3, <2>3, <2>4
    <3> QED
      BY <2>1, <3>1
  <2> QED
    BY <2>2, <2>3
<1>6. CASE one = 1
  <2>1. t = forward /\ \A w \in 1..m : both(w) = first(w)
    BY <1>6 DEF Entering
  <2> QED
    BY <1>2, <1>3, <2>1
<1>7. CASE one # 1
  <2>1. t = back
    BY <1>7 DEF Entering
  <2>2. DOMAIN back = 1..m /\ back = [w \in DOMAIN back |-> back[w]]
    BY <1>3
  <2> HIDE DEF back, both
  <2>3. back \in [1..m -> Seq(T)] /\ \A w \in 1..m : Lists(back[w], both(w))
    BY <1>5, <1>7, <2>2
  <2> QED
    BY <2>1, <2>3 DEF both
<1> QED
  BY <1>6, <1>7

(* What is found for names is a number, or nothing is. *)
LEMMA FoundIs ==
  ASSUME WiresNumbered, NEW tile \in Strings, NEW wire \in Strings
  PROVE  find_wire(tile, wire) \in Numbers \/ find_wire(tile, wire) = NotFound
BY DEF WiresNumbered, WiresFound, WireFound

(* Numbers are places of the file of wires. *)
LEMMA NumberPlaces ==
  ASSUME WiresNumbered
  PROVE  /\ WireTotal \in Nat /\ \A w \in Numbers : w \in Nat /\ w + 1 \in 1..WireTotal
         /\ NotFound \notin Numbers
<1>1. WireTotal \in Nat
  BY DEF WireTotal, WiresNumbered, NumbersGiven
<1> QED
  BY <1>1 DEF Numbers, NotFound

(* Before the first pip. *)
LEMMA NoPipsYet ==
  ASSUME MakingTyped, WiresNumbered, NodesWritten, NodesSet(at), alt_pips = <<>>, WireToNodeMade
  PROVE  NodesSet(NodeCount)' /\ PipsEntered(0)'
<1>1. /\ at = NodeCount /\ UNCHANGED <<dev, crc, node_renumber, alt_wires, alt_wire_to_node, alt_pips>>
      /\ wire_to_pips' = [w \in DOMAIN alt_wires.body |-> <<>>]
  BY DEF WireToNodeMade, NodesWritten, files
<1>2. NodesSet(NodeCount)'
  <2>1. NodesSet(NodeCount)
    BY <1>1 DEF NodesSet
  <2> QED
    BY <1>1, <2>1, AllNodesSetKept
<1>3. DOMAIN alt_wires.body = 1..WireTotal /\ WireTotal' = WireTotal /\ Numbers' = Numbers
  BY <1>1 DEF WireTotal, Numbers, WiresNumbered, NumbersGiven
<1>4. wire_to_pips' = [w \in 1..WireTotal |-> <<>>]
  BY <1>1, <1>3
<1>5. Ways' = {}
  BY <1>1 DEF Ways
<1>6. ToSet(<<>>) = {} /\ IsInjective(<<>>)
  BY DEF ToSet, IsInjective
<1>7. wire_to_pips' \in [1..WireTotal -> Seq(Nat \X BOOLEAN)]
  BY <1>4
<1>8. \A w \in 1..WireTotal : Lists(wire_to_pips'[w], {way \in Ways' : WireFrom(way)' = w - 1})
  BY <1>4, <1>5, <1>6 DEF Lists
<1>9. DevicePips' = DevicePips /\ Len(DevicePips) \in Nat
  BY <1>1, ListsKept, DevicePipsAre DEF MakingTyped
<1>10. /\ alt_pips' \in Seq([wire0 : Numbers, wire1 : Numbers, directional : BOOLEAN])
       /\ ToSet(alt_pips') = {}
  BY <1>1, <1>6
<1>11. PipsEntered(0)'
  <2>1. {EntryOf(DevicePips[i]) : i \in {j \in 1..0 : Entered(DevicePips[j])}}' = {}
    OBVIOUS
  <2> QED
    BY <1>3, <1>7, <1>8, <1>9, <1>10, <2>1 DEF PipsEntered
<1> QED
  BY <1>2, <1>11

(* A pip of the device that is passed over. *)
LEMMA PipSkipped ==
  ASSUME MakingTyped, WiresNumbered, PipsEntered(at), at < Len(DevicePips),
         ~Entered(DevicePips[at + 1]), at' = at + 1,
         UNCHANGED <<dev, crc, alt_wires, alt_pips, wire_to_pips>>
  PROVE  PipsEntered(at)'
<1>1. /\ \A pip : Entered(pip)' = Entered(pip) /\ EntryOf(pip)' = EntryOf(pip)
      /\ Numbers' = Numbers /\ WireTotal' = WireTotal
  BY FindKept DEF Entered, EntryOf, Numbers, WireTotal
<1>2. Len(DevicePips) \in Nat /\ at \in Nat
  BY DevicePipsAre DEF MakingTyped
<1>3. {j \in 1..(at + 1) : Entered(DevicePips[j])} = {j \in 1..at : Entered(DevicePips[j])}
  <2>1. \A j : j \in 1..(at + 1) <=> j \in 1..at \/ j = at + 1
    BY <1>2
  <2> QED
    BY <2>1
<1>4. ToSet(alt_pips) = {EntryOf(DevicePips[i]) : i \in {j \in 1..(at + 1) : Entered(DevicePips[j])}}
  BY <1>3 DEF PipsEntered
<1> QED
  BY <1>1, <1>2, <1>4, ListsKept, WaysKept DEF PipsEntered

EnterPip ==
  LET pip == DevicePips[at + 1]
      id == Len(alt_pips)
      forward == [wire_to_pips EXCEPT ![EntryOf(pip).wire0 + 1] = Append(@, <<id, TRUE>>)]
  IN /\ alt_pips' = Append(alt_pips, EntryOf(pip))
     /\ wire_to_pips' = IF pip.directional THEN forward
                        ELSE [forward EXCEPT ![EntryOf(pip).wire1 + 1] = Append(@, <<id, FALSE>>)]

(* A pip of the device that is entered. *)
LEMMA PipIsEntered ==
  ASSUME MakingTyped, WiresNumbered, PipsEntered(at), at < Len(DevicePips),
         Entered(DevicePips[at + 1]), at' = at + 1, UNCHANGED <<dev, crc, alt_wires>>, EnterPip
  PROVE  PipsEntered(at)'
<1> DEFINE pip == DevicePips[at + 1]
           entry == EntryOf(pip)
           id == Len(alt_pips)
           E == [wire0 : Numbers, wire1 : Numbers, directional : BOOLEAN]
           old == [w \in 1..WireTotal |-> {way \in Ways : WireFrom(way) = w - 1}]
<1>1. /\ \A p : Entered(p)' = Entered(p) /\ EntryOf(p)' = EntryOf(p)
      /\ Numbers' = Numbers /\ WireTotal' = WireTotal /\ DevicePips' = DevicePips
  BY FindKept, ListsKept DEF Entered, EntryOf, Numbers, WireTotal
<1>2. Len(DevicePips) \in Nat /\ at \in Nat /\ at + 1 <= Len(DevicePips)
  <2>1. Len(DevicePips) \in Nat /\ at \in Nat
    BY DevicePipsAre DEF MakingTyped
  <2> QED
    BY <2>1
<1>3. pip \in PipNames
  <2>1. at + 1 \in 1..Len(DevicePips)
    BY <1>2
  <2> QED
    BY <2>1, DevicePipsAre, EntryIn DEF MakingTyped
<1>4. /\ entry \in E /\ entry.directional = pip.directional
      /\ entry.wire0 \in Numbers /\ entry.wire1 \in Numbers /\ pip.directional \in BOOLEAN
  <2> HIDE DEF pip
  <2>1. /\ pip.tile \in Strings /\ pip.wire0 \in Strings /\ pip.wire1 \in Strings
        /\ pip.directional \in BOOLEAN
    BY <1>3 DEF PipNames
  <2>2. find_wire(pip.tile, pip.wire0) # NotFound /\ find_wire(pip.tile, pip.wire1) # NotFound
    BY DEF Entered, pip
  <2>3. find_wire(pip.tile, pip.wire0) \in Numbers /\ find_wire(pip.tile, pip.wire1) \in Numbers
    BY <2>1, <2>2, FoundIs
  <2> QED
    BY <2>1, <2>3 DEF EntryOf
<1>5. /\ alt_pips \in Seq(E) /\ id \in Nat
      /\ ToSet(alt_pips) = {EntryOf(DevicePips[i]) : i \in {j \in 1..at : Entered(DevicePips[j])}}
      /\ wire_to_pips \in [1..WireTotal -> Seq(Nat \X BOOLEAN)]
      /\ \A w \in 1..WireTotal : Lists(wire_to_pips[w], old[w])
  BY DEF PipsEntered
<1>6. alt_pips' = Append(alt_pips, entry)
  BY DEF EnterPip
<1> HIDE DEF entry, E, id
<1>7. /\ alt_pips' \in Seq(E) /\ Len(alt_pips') = id + 1 /\ alt_pips'[id + 1] = entry
      /\ \A i \in 1..id : alt_pips'[i] = alt_pips[i]
      /\ ToSet(alt_pips') = ToSet(alt_pips) \cup {entry}
  <2>1. /\ alt_pips' \in Seq(E) /\ Len(alt_pips') = id + 1 /\ alt_pips'[id + 1] = entry
        /\ \A i \in 1..id : alt_pips'[i] = alt_pips[i]
        /\ DOMAIN alt_pips' = 1..(id + 1) /\ DOMAIN alt_pips = 1..id
    BY <1>4, <1>5, <1>6 DEF id
  <2>2. \A i : i \in 1..(id + 1) <=> i \in 1..id \/ i = id + 1
    BY <1>5
  <2> QED
    BY <2>1, <2>2 DEF ToSet
<1>8. ToSet(alt_pips') = {EntryOf(DevicePips[i]) : i \in {j \in 1..(at + 1) : Entered(DevicePips[j])}}
  <2>1. \A j : j \in 1..(at + 1) <=> j \in 1..at \/ j = at + 1
    BY <1>2
  <2>2. entry = EntryOf(DevicePips[at + 1])
    BY DEF entry
  <2> QED
    BY <1>5, <1>7, <2>1, <2>2
<1>9. /\ \A way \in Ways : way \in Nat \X BOOLEAN /\ way[1] \in 0..(id - 1)
      /\ Ways' = Ways \cup ({<<id, TRUE>>} \cup (IF pip.directional THEN {} ELSE {<<id, FALSE>>}))
      /\ \A way \in Ways : WireFrom(way)' = WireFrom(way)
      /\ \A way : /\ way = <<id, TRUE>> => WireFrom(way)' = entry.wire0
                  /\ way = <<id, FALSE>> => WireFrom(way)' = entry.wire1
  <2>1. \A x \in 0..(id - 1) : alt_pips'[x + 1] = alt_pips[x + 1]
    BY <1>5, <1>7
  <2>2. \A x : x \in 0..id <=> x \in 0..(id - 1) \/ x = id
    BY <1>5
  <2>3. /\ Ways = {way \in (0..(id - 1)) \X BOOLEAN : way[2] \/ ~alt_pips[way[1] + 1].directional}
        /\ Ways' = {way \in (0..id) \X BOOLEAN : way[2] \/ ~alt_pips'[way[1] + 1].directional}
    <3>1. Len(alt_pips') - 1 = id
      BY <1>5, <1>7
    <3> QED
      BY <3>1 DEF Ways, id
  <2>4. \A way \in Ways : way \in Nat \X BOOLEAN /\ way[1] \in 0..(id - 1)
    BY <1>5, <2>3
  <2>5. Ways' = Ways \cup ({<<id, TRUE>>} \cup (IF pip.directional THEN {} ELSE {<<id, FALSE>>}))
    <3> HIDE DEF pip
    <3>1. ASSUME NEW way \in Ways'
          PROVE  way \in Ways \cup ({<<id, TRUE>>} \cup (IF pip.directional THEN {} ELSE {<<id, FALSE>>}))
      <4>1. /\ way = <<way[1], way[2]>> /\ way[2] \in BOOLEAN /\ way[1] \in 0..id
            /\ (way[2] \/ ~alt_pips'[way[1] + 1].directional)
        BY <2>3
      <4>2. CASE way[1] \in 0..(id - 1)
        BY <2>1, <2>3, <4>1, <4>2
      <4>3. CASE way[1] = id
        <5>1. way[2] \/ ~pip.directional
          BY <1>4, <1>7, <4>1, <4>3
        <5>2. CASE way[2] = TRUE
          BY <4>1, <4>3, <5>2
        <5>3. CASE way[2] = FALSE
          <6>1. way = <<id, FALSE>>
            BY <4>1, <4>3, <5>3
          <6>2. ~pip.directional
            BY <5>1, <5>3
          <6> QED
            BY <6>1, <6>2
        <5> QED
          BY <4>1, <5>2, <5>3
      <4> QED
        BY <2>2, <4>1, <4>2, <4>3
    <3>2. ASSUME NEW way \in Ways PROVE way \in Ways'
      <4>1. /\ way \in (0..(id - 1)) \X BOOLEAN
            /\ (way[2] \/ ~alt_pips[way[1] + 1].directional)
        BY <2>3
      <4>2. way[1] \in 0..(id - 1) /\ way[2] \in BOOLEAN /\ way = <<way[1], way[2]>>
        BY <4>1
      <4>3. way[1] \in 0..id
        BY <2>2, <4>2
      <4>4. way \in (0..id) \X BOOLEAN
        BY <4>2, <4>3
      <4> QED
        BY <2>1, <2>3, <4>1, <4>2, <4>4
    <3>3. <<id, TRUE>> \in Ways'
      <4>1. id \in 0..id
        BY <1>5
      <4> QED
        BY <2>3, <4>1
    <3>4. ~pip.directional => <<id, FALSE>> \in Ways'
      <4>1. id \in 0..id
        BY <1>5
      <4> QED
        BY <1>4, <1>7, <2>3, <4>1
    <3> QED
      BY <3>1, <3>2, <3>3, <3>4
  <2>6. \A way \in Ways : WireFrom(way)' = WireFrom(way)
    BY <2>1, <2>4 DEF WireFrom
  <2>7. ASSUME NEW way
        PROVE  /\ way = <<id, TRUE>> => WireFrom(way)' = entry.wire0
               /\ way = <<id, FALSE>> => WireFrom(way)' = entry.wire1
    <3>1. way = <<id, TRUE>> => way[1] = id /\ way[2]
      OBVIOUS
    <3>2. way = <<id, FALSE>> => way[1] = id /\ ~way[2]
      OBVIOUS
    <3>3. way[1] = id /\ way[2] => WireFrom(way)' = entry.wire0
      BY <1>7 DEF WireFrom
    <3>4. way[1] = id /\ ~way[2] => WireFrom(way)' = entry.wire1
      BY <1>7 DEF WireFrom
    <3> QED
      BY <3>1, <3>2, <3>3, <3>4
  <2> QED
    BY <2>4, <2>5, <2>6, <2>7
<1> DEFINE i == entry.wire0 + 1
           j == entry.wire1 + 1
           forward == [wire_to_pips EXCEPT ![i] = Append(@, <<id, TRUE>>)]
<1>10. i \in 1..WireTotal /\ j \in 1..WireTotal /\ WireTotal \in Nat
  BY <1>4, NumberPlaces
<1>11. \A w \in 1..WireTotal : <<id, TRUE>> \notin old[w] /\ <<id, FALSE>> \notin old[w]
  <2>1. id \notin 0..(id - 1)
    BY <1>5
  <2> QED
    BY <1>9, <2>1
<1>12. wire_to_pips' = IF pip.directional THEN forward ELSE [forward EXCEPT ![j] = Append(@, <<id, FALSE>>)]
  BY DEF EnterPip, entry, id
<1>15. ASSUME NEW w \in 1..WireTotal
       PROVE  {way \in Ways' : WireFrom(way)' = w - 1}
                = (old[w] \cup (IF w = i THEN {<<id, TRUE>>} ELSE {}))
                    \cup (IF w = j /\ ~pip.directional THEN {<<id, FALSE>>} ELSE {})
  <2>1. (entry.wire0 = w - 1 <=> w = i) /\ (entry.wire1 = w - 1 <=> w = j)
    <3>1. entry.wire0 \in Nat /\ entry.wire1 \in Nat /\ w \in Int
      BY <1>4, NumberPlaces
    <3> QED
      BY <3>1
  <2>2. \A way : way \in old[w] <=> way \in Ways /\ WireFrom(way) = w - 1
    OBVIOUS
  <2> HIDE DEF old, i, j, pip
  <2> DEFINE new == (old[w] \cup (IF w = i THEN {<<id, TRUE>>} ELSE {}))
                      \cup (IF w = j /\ ~pip.directional THEN {<<id, FALSE>>} ELSE {})
  <2>3. ASSUME NEW way \in Ways', WireFrom(way)' = w - 1 PROVE way \in new
    <3>1. CASE way \in Ways
      BY <1>9, <2>2, <2>3, <3>1
    <3>2. CASE way = <<id, TRUE>>
      BY <1>9, <2>1, <2>3, <3>2
    <3>3. CASE way = <<id, FALSE>> /\ ~pip.directional
      BY <1>9, <2>1, <2>3, <3>3
    <3> QED
      BY <1>9, <3>1, <3>2, <3>3
  <2>4. ASSUME NEW way \in new PROVE way \in Ways' /\ WireFrom(way)' = w - 1
    <3>1. CASE way \in old[w]
      BY <1>9, <2>2, <3>1
    <3>2. CASE way = <<id, TRUE>> /\ w = i
      BY <1>9, <2>1, <3>2
    <3>3. CASE way = <<id, FALSE>> /\ w = j /\ ~pip.directional
      BY <1>9, <2>1, <3>3
    <3> QED
      BY <2>4, <3>1, <3>2, <3>3
  <2> HIDE DEF new
  <2>5. {way \in Ways' : WireFrom(way)' = w - 1} = new
    BY <2>3, <2>4
  <2> QED
    BY <2>5 DEF new
<1>13. /\ wire_to_pips' \in [1..WireTotal -> Seq(Nat \X BOOLEAN)]
       /\ \A w \in 1..WireTotal :
            Lists(wire_to_pips'[w], (old[w] \cup (IF w = i THEN {<<id, TRUE>>} ELSE {}))
                    \cup (IF w = j /\ ~pip.directional THEN {<<id, FALSE>>} ELSE {}))
  <2> DEFINE one == IF pip.directional THEN 1 ELSE 2
  <2>1. wire_to_pips' = Entering(wire_to_pips, id, i, j, one)
    BY <1>12 DEF Entering
  <2>2. id \in Nat /\ (one # 1 <=> ~pip.directional)
    BY <1>5
  <2>3. AllListed(WireTotal, wire_to_pips, old) /\ FreshPip(WireTotal, id, old)
    BY <1>5, <1>11 DEF AllListed, FreshPip
  <2> HIDE DEF one, old, i, j, pip
  <2>4. /\ Entering(wire_to_pips, id, i, j, one) \in [1..WireTotal -> Seq(Nat \X BOOLEAN)]
        /\ \A w \in 1..WireTotal :
             Lists(Entering(wire_to_pips, id, i, j, one)[w],
                   (old[w] \cup (IF w = i THEN {<<id, TRUE>>} ELSE {}))
                     \cup (IF w = j /\ one # 1 THEN {<<id, FALSE>>} ELSE {}))
    BY <1>10, <2>2, <2>3, WaysEntered
  <2> QED
    BY <2>1, <2>2, <2>4
<1> HIDE DEF old, i, j, pip
<1>14. \A w \in 1..WireTotal : Lists(wire_to_pips'[w], {way \in Ways' : WireFrom(way)' = w - 1})
  BY <1>13, <1>15
<1> QED
  BY <1>1, <1>2, <1>7, <1>8, <1>13, <1>14 DEF PipsEntered, E

(* The next pip of the device. *)
LEMMA PipKeeps ==
  ASSUME MakingTyped, WiresNumbered, PipsEntered(at), MakeWireToPips
  PROVE  PipsEntered(at)'
<1> DEFINE pip == DevicePips[at + 1]
<1>1. at < Len(DevicePips) /\ at' = at + 1 /\ UNCHANGED <<dev, crc, alt_wires>>
  BY DEF MakeWireToPips, Step
<1>2. CASE ~Entered(pip)
  <2>1. UNCHANGED <<alt_pips, wire_to_pips>>
    BY <1>2 DEF MakeWireToPips, Entered
  <2> QED
    BY <1>1, <1>2, <2>1, PipSkipped
<1>3. CASE Entered(pip)
  <2>1. EnterPip
    BY <1>3 DEF MakeWireToPips, Entered, EntryOf, EnterPip
  <2> QED
    BY <1>1, <1>3, <2>1, PipIsEntered
<1> QED
  BY <1>2, <1>3

(* Every number has a node. *)
LEMMA NodeOfIs ==
  ASSUME dev \in Devices, WiresNumbered, NodesSet(NodeCount), NEW w \in Numbers
  PROVE  NodeOf(w) \in Nat /\ NodeOf(w) + 1 \in 1..NodeCount
<1>1. NodeCount \in Nat
  BY DeviceIs
<1>2. PICK n \in 1..NodeCount : \E k \in 1..Len(dev.nodes[n]) : w = Number(n, k)
  BY DEF WiresNumbered, NumbersUsed
<1>3. NodeOf(w) = n - 1
  BY <1>2 DEF NodesSet
<1> QED
  BY <1>1, <1>3

(* Pips are entered with numbers of wires. *)
LEMMA PipWires ==
  ASSUME NEW count, PipsEntered(count)
  PROVE  /\ Len(alt_pips) \in Nat
         /\ \A id \in 0..(Len(alt_pips) - 1) :
              /\ alt_pips[id + 1] \in [wire0 : Numbers, wire1 : Numbers, directional : BOOLEAN]
              /\ alt_pips[id + 1].wire0 \in Numbers /\ alt_pips[id + 1].wire1 \in Numbers
         /\ \A way \in Ways : /\ way \in Nat \X BOOLEAN /\ way[1] \in 0..(Len(alt_pips) - 1)
                              /\ WireFrom(way) \in Numbers
<1> DEFINE E == [wire0 : Numbers, wire1 : Numbers, directional : BOOLEAN]
           m == Len(alt_pips)
<1>1. alt_pips \in Seq(E) /\ m \in Nat
  BY DEF PipsEntered
<1>2. \A id \in 0..(m - 1) : id + 1 \in 1..m
  BY <1>1
<1> HIDE DEF E
<1>3. \A id \in 0..(m - 1) : alt_pips[id + 1] \in E
  BY <1>1, <1>2
<1>4. \A id \in 0..(m - 1) : alt_pips[id + 1].wire0 \in Numbers /\ alt_pips[id + 1].wire1 \in Numbers
  BY <1>3 DEF E
<1>5. \A way \in Ways : way \in Nat \X BOOLEAN /\ way[1] \in 0..(m - 1)
  BY <1>1 DEF Ways
<1>6. \A way \in Ways : WireFrom(way) \in Numbers
  BY <1>4, <1>5 DEF WireFrom
<1> QED
  BY <1>1, <1>3, <1>4, <1>5, <1>6 DEF E

(* Before the first pip at a node. *)
LEMMA NoNodePipsYet ==
  ASSUME MakingTyped, WiresNumbered, NodesWritten, PipsEntered(at), WireToPipsMade
  PROVE  PipsEntered(Len(DevicePips))' /\ PipsAtNodes(0)'
<1>1. /\ at = Len(DevicePips) /\ node_to_pips' = [i \in 1..NodeCount |-> <<>>]
      /\ UNCHANGED <<dev, crc, alt_wires, alt_wire_to_node, alt_pips, wire_to_pips>>
  BY DEF WireToPipsMade, NodesWritten, files
<1>2. PipsEntered(Len(DevicePips))
  BY <1>1 DEF PipsEntered
<1>3. PipsEntered(Len(DevicePips))'
  BY <1>1, <1>2, PipsKept
<1>4. NodeCount' = NodeCount /\ Ways' = Ways /\ Len(alt_pips) \in Nat
      /\ \A way \in Ways : ~(way[1] < 0)
  BY <1>1, <1>2, ListsKept, WaysKept, PipWires
<1>5. node_to_pips' \in [1..NodeCount -> Seq(Nat \X BOOLEAN)]
  BY <1>1
<1>6. ToSet(<<>>) = {} /\ IsInjective(<<>>)
  BY DEF ToSet, IsInjective
<1>7. ASSUME NEW n \in 1..NodeCount
      PROVE  Lists(node_to_pips'[n], {way \in Ways' : way[1] < 0 /\ NodeOf(WireFrom(way))' = n - 1})
  <2>1. {way \in Ways' : way[1] < 0 /\ NodeOf(WireFrom(way))' = n - 1} = {}
    BY <1>4
  <2> QED
    BY <1>1, <1>6, <2>1 DEF Lists
<1>8. PipsAtNodes(0)'
  BY <1>1, <1>4, <1>5, <1>7 DEF PipsAtNodes
<1> QED
  BY <1>3, <1>8

(* The next pip is entered at the nodes it leaves. *)
LEMMA NodePipKeeps ==
  ASSUME MakingTyped, WiresNumbered, NodesSet(NodeCount), PipsEntered(Len(DevicePips)),
         PipsAtNodes(at), MakeNodeToPips
  PROVE  PipsAtNodes(at)'
<1> DEFINE entry == alt_pips[at + 1]
           out == NodeOf(entry.wire0)
           back == NodeOf(entry.wire1)
           old == [n \in 1..NodeCount |-> {way \in Ways : way[1] < at /\ NodeOf(WireFrom(way)) = n - 1}]
           one == IF entry.directional THEN 1 ELSE 2
           i == out + 1
           j == back + 1
<1>1. /\ at \in Nat /\ at < Len(alt_pips) /\ Len(alt_pips) \in Nat /\ at' = at + 1
      /\ UNCHANGED <<dev, alt_wires, alt_wire_to_node, alt_pips>>
  BY PipWires DEF MakeNodeToPips, MakingTyped, files, Step
<1>2. get_pip_node_in(<<at, TRUE>>) = out /\ get_pip_node_in(<<at, FALSE>>) = back
  BY DEF get_pip_node_in
<1>3. node_to_pips' = Entering(node_to_pips, at, i, j, one)
  <2> DEFINE forward == [node_to_pips EXCEPT ![i] = Append(@, <<at, TRUE>>)]
  <2>1. node_to_pips' = IF entry.directional THEN forward
                        ELSE [forward EXCEPT ![j] = Append(@, <<at, FALSE>>)]
    <3>1. get_pip_node_in(<<at, TRUE>>) + 1 = i /\ get_pip_node_in(<<at, FALSE>>) + 1 = j
      BY <1>2
    <3> HIDE DEF i, j, out, back
    <3> QED
      BY <3>1 DEF MakeNodeToPips
  <2> HIDE DEF i, j, out, back
  <2>2. CASE entry.directional
    BY <2>1, <2>2 DEF Entering
  <2>3. CASE ~entry.directional
    BY <2>1, <2>3 DEF Entering
  <2> QED
    BY <2>2, <2>3
<1>4. /\ entry.wire0 \in Numbers /\ entry.wire1 \in Numbers
      /\ at \in 0..(Len(alt_pips) - 1)
  BY <1>1, PipWires
<1>5. /\ out \in Nat /\ back \in Nat /\ i \in 1..NodeCount /\ j \in 1..NodeCount /\ NodeCount \in Nat
  BY <1>4, NodeOfIs, DeviceIs DEF MakingTyped
<1>6. AllListed(NodeCount, node_to_pips, old)
  BY DEF AllListed, PipsAtNodes
<1>7. FreshPip(NodeCount, at, old)
  BY <1>1 DEF FreshPip
<1>8. /\ NodeCount' = NodeCount /\ Ways' = Ways /\ Len(alt_pips') = Len(alt_pips)
      /\ \A way : WireFrom(way)' = WireFrom(way) /\ NodeOf(WireFrom(way))' = NodeOf(WireFrom(way))
  BY <1>1, ListsKept, WaysKept DEF NodeOf
<1>9. \A way \in Ways : /\ way \in Nat \X BOOLEAN /\ way[1] \in Nat /\ WireFrom(way) \in Numbers
                        /\ NodeOf(WireFrom(way)) \in Nat
  BY PipWires, NodeOfIs DEF MakingTyped
<1>10. \A way : /\ way = <<at, TRUE>> => way \in Ways /\ way[1] = at /\ NodeOf(WireFrom(way)) = out
                /\ way = <<at, FALSE>> /\ ~entry.directional =>
                     way \in Ways /\ way[1] = at /\ NodeOf(WireFrom(way)) = back
                /\ way \in Ways /\ way[1] = at =>
                     way = <<at, TRUE>> \/ (way = <<at, FALSE>> /\ ~entry.directional)
  <2> SUFFICES ASSUME NEW way
               PROVE  /\ way = <<at, TRUE>> => way \in Ways /\ way[1] = at /\ NodeOf(WireFrom(way)) = out
                      /\ way = <<at, FALSE>> /\ ~entry.directional =>
                           way \in Ways /\ way[1] = at /\ NodeOf(WireFrom(way)) = back
                      /\ way \in Ways /\ way[1] = at =>
                           way = <<at, TRUE>> \/ (way = <<at, FALSE>> /\ ~entry.directional)
    OBVIOUS
  <2>1. ASSUME way = <<at, TRUE>>
        PROVE  way \in Ways /\ way[1] = at /\ NodeOf(WireFrom(way)) = out
    <3>1. way[1] = at /\ way[2] /\ way \in (0..(Len(alt_pips) - 1)) \X BOOLEAN
      BY <1>4, <2>1
    <3> QED
      BY <3>1 DEF Ways, WireFrom
  <2>2. ASSUME way = <<at, FALSE>>, ~entry.directional
        PROVE  way \in Ways /\ way[1] = at /\ NodeOf(WireFrom(way)) = back
    <3>1. way[1] = at /\ ~way[2] /\ way \in (0..(Len(alt_pips) - 1)) \X BOOLEAN
      BY <1>4, <2>2
    <3> QED
      BY <2>2, <3>1 DEF Ways, WireFrom
  <2>3. ASSUME way \in Ways, way[1] = at
        PROVE  way = <<at, TRUE>> \/ (way = <<at, FALSE>> /\ ~entry.directional)
    <3>1. /\ way = <<way[1], way[2]>> /\ way[2] \in BOOLEAN
          /\ (way[2] \/ ~alt_pips[way[1] + 1].directional)
      BY <2>3 DEF Ways
    <3>2. CASE way[2] = TRUE
      BY <2>3, <3>1, <3>2
    <3>3. CASE way[2] = FALSE
      <4>1. way = <<at, FALSE>>
        BY <2>3, <3>1, <3>3
      <4>2. ~entry.directional
        BY <2>3, <3>1, <3>3
      <4> QED
        BY <4>1, <4>2
    <3> QED
      BY <3>1, <3>2, <3>3
  <2> QED
    BY <2>1, <2>2, <2>3
<1>11. one # 1 <=> ~entry.directional
  OBVIOUS
<1> HIDE DEF entry, out, back, one
<1>12. ASSUME NEW n \in 1..NodeCount
       PROVE  {way \in Ways : way[1] < at + 1 /\ NodeOf(WireFrom(way)) = n - 1}
                = (old[n] \cup (IF n = i THEN {<<at, TRUE>>} ELSE {}))
                    \cup (IF n = j /\ one # 1 THEN {<<at, FALSE>>} ELSE {})
  <2>1. (out = n - 1 <=> n = i) /\ (back = n - 1 <=> n = j)
    BY <1>5
  <2>2. \A way : way \in old[n] <=> way \in Ways /\ way[1] < at /\ NodeOf(WireFrom(way)) = n - 1
    OBVIOUS
  <2>3. \A way \in Ways : way[1] < at + 1 <=> way[1] < at \/ way[1] = at
    BY <1>1, <1>9
  <2> DEFINE new == (old[n] \cup (IF n = i THEN {<<at, TRUE>>} ELSE {}))
                      \cup (IF n = j /\ one # 1 THEN {<<at, FALSE>>} ELSE {})
  <2> HIDE DEF old, i, j
  <2>4. ASSUME NEW way \in Ways, way[1] < at + 1, NodeOf(WireFrom(way)) = n - 1 PROVE way \in new
    <3>1. CASE way[1] < at
      BY <2>2, <2>4, <3>1
    <3>2. CASE way = <<at, TRUE>>
      BY <1>10, <2>1, <2>4, <3>2
    <3>3. CASE way = <<at, FALSE>> /\ ~entry.directional
      BY <1>10, <1>11, <2>1, <2>4, <3>3
    <3> QED
      BY <1>10, <2>3, <2>4, <3>1, <3>2, <3>3
  <2>5. ASSUME NEW way \in new
        PROVE  way \in Ways /\ way[1] < at + 1 /\ NodeOf(WireFrom(way)) = n - 1
    <3>1. CASE way \in old[n]
      BY <2>2, <2>3, <3>1
    <3>2. CASE way = <<at, TRUE>> /\ n = i
      BY <1>10, <2>1, <2>3, <3>2
    <3>3. CASE way = <<at, FALSE>> /\ n = j /\ one # 1
      BY <1>10, <1>11, <2>1, <2>3, <3>3
    <3> QED
      BY <2>5, <3>1, <3>2, <3>3
  <2> HIDE DEF new
  <2>6. {way \in Ways : way[1] < at + 1 /\ NodeOf(WireFrom(way)) = n - 1} = new
    BY <2>4, <2>5
  <2> QED
    BY <2>6 DEF new
<1> HIDE DEF old, i, j
<1>13. /\ node_to_pips' \in [1..NodeCount -> Seq(Nat \X BOOLEAN)]
       /\ \A n \in 1..NodeCount :
            Lists(node_to_pips'[n], (old[n] \cup (IF n = i THEN {<<at, TRUE>>} ELSE {}))
                                      \cup (IF n = j /\ one # 1 THEN {<<at, FALSE>>} ELSE {}))
  <2>1. /\ Entering(node_to_pips, at, i, j, one) \in [1..NodeCount -> Seq(Nat \X BOOLEAN)]
        /\ \A n \in 1..NodeCount :
             Lists(Entering(node_to_pips, at, i, j, one)[n],
                   (old[n] \cup (IF n = i THEN {<<at, TRUE>>} ELSE {}))
                     \cup (IF n = j /\ one # 1 THEN {<<at, FALSE>>} ELSE {}))
    BY <1>1, <1>5, <1>6, <1>7, WaysEntered
  <2> QED
    BY <1>3, <2>1
<1>14. \A n \in 1..NodeCount :
         Lists(node_to_pips'[n], {way \in Ways' : way[1] < at' /\ NodeOf(WireFrom(way))' = n - 1})
  <2> SUFFICES ASSUME NEW n \in 1..NodeCount
               PROVE  Lists(node_to_pips'[n], {way \in Ways' : way[1] < at' /\ NodeOf(WireFrom(way))' = n - 1})
    OBVIOUS
  <2>1. {way \in Ways' : way[1] < at' /\ NodeOf(WireFrom(way))' = n - 1}
          = {way \in Ways : way[1] < at + 1 /\ NodeOf(WireFrom(way)) = n - 1}
    BY <1>1, <1>8
  <2> QED
    BY <1>12, <1>13, <2>1
<1>15. at' <= Len(alt_pips')
  BY <1>1
<1> QED
  BY <1>8, <1>13, <1>14, <1>15 DEF PipsAtNodes

(* Before the first pin. *)
LEMMA NoPinsYet ==
  ASSUME MakingTyped, WiresNumbered, PipsEntered(Len(DevicePips)), PipsAtNodes(at), NodeToPipsMade
  PROVE  PipsAtNodes(Len(alt_pips))' /\ PinsEntered'
<1>1. /\ at = Len(alt_pips) /\ at' = 0 /\ buckets' = [b \in 1..HashSize |-> <<>>]
      /\ UNCHANGED <<dev, crc, alt_wires, alt_wire_to_node, alt_pips, node_to_pips>>
  BY DEF NodeToPipsMade, files, Start
<1>2. PipsAtNodes(Len(alt_pips))'
  <2>1. PipsAtNodes(Len(alt_pips))
    BY <1>1 DEF PipsAtNodes
  <2> QED
    BY <1>1, <2>1, NodePipsKept
<1>3. HashSize \in Nat /\ HashSize' = HashSize /\ SitePins' = SitePins /\ Len(SitePins) \in Nat
  <2>1. HashSize \in Nat
    BY DeviceIs, HashSizeIs DEF HashSize, MakingTyped
  <2>2. SitePins \in Seq(PinNames)
    BY SitePinsAre DEF MakingTyped
  <2>3. Len(SitePins) \in Nat
    BY <2>2
  <2> QED
    BY <1>1, <2>1, <2>3, ListsKept
<1>4. /\ Len(buckets') = HashSize /\ \A b \in 1..HashSize : Len(buckets'[b]) = 0
      /\ \A S : buckets' \in Seq(Seq(S))
  BY <1>1, <1>3
<1>5. PinsTyped'
  BY <1>1, <1>3, <1>4 DEF PinsTyped
<1>6. PinsInBuckets' /\ PinsThere'
  BY <1>1, <1>3, <1>4 DEF PinsInBuckets, PinsThere
<1> QED
  BY <1>2, <1>5, <1>6 DEF PinsEntered

(* A pin whose wire is found goes to the bucket of its name. *)
LEMMA PinKeeps ==
  ASSUME MakingTyped, WiresNumbered, NodesSet(NodeCount), PinsEntered, MakeSitePinWires
  PROVE  PinsEntered'
<1> DEFINE N == at + 1
           pin == SitePins[N]
           entry == PinEntry(pin)
           b == crc[<<pin.site, pin.pin>>] % HashSize
<1>1. /\ at \in Nat /\ at < Len(SitePins) /\ at' = at + 1
      /\ UNCHANGED <<dev, crc, alt_wires, alt_wire_to_node>>
      /\ buckets' = IF ~PinFound(pin) THEN buckets ELSE [buckets EXCEPT ![b + 1] = Append(@, entry)]
  BY DEF MakingTyped, MakeSitePinWires, files, Step, PinFound, PinEntry
<1> HIDE DEF pin, entry, b
<1>2. /\ SitePins \in Seq(PinNames) /\ Len(SitePins) \in Nat /\ N \in 1..Len(SitePins) /\ N <= Len(SitePins)
  <2>1. at \in Nat /\ at < Len(SitePins)
    BY <1>1
  <2>2. SitePins \in Seq(PinNames) /\ Len(SitePins) \in Nat
    BY SitePinsAre DEF MakingTyped
  <2> QED
    BY <2>1, <2>2
<1>3. /\ pin \in PinNames /\ pin.site \in Strings /\ pin.pin \in Strings
      /\ pin.tile \in Strings /\ pin.wire \in Strings
  <2>1. pin \in PinNames
    BY <1>2, EntryIn DEF pin
  <2> QED
    BY <2>1 DEF PinNames
<1>4. /\ SitePins' = SitePins /\ HashSize' = HashSize
      /\ \A p : PinFound(p)' = PinFound(p) /\ PinEntry(p)' = PinEntry(p)
      /\ \A e : HashOf(e)' = HashOf(e)
      /\ PinEntries' = PinEntries
  <2>1. SitePins' = SitePins /\ HashSize' = HashSize
    BY <1>1, ListsKept
  <2>2. PinEntries' = PinEntries
    BY <1>1 DEF PinEntries, Numbers, WireTotal
  <2> QED
    BY <1>1, <2>1, <2>2, PinNameKept DEF HashOf
<1>5. PinFound(pin) => /\ entry \in PinEntries /\ HashOf(entry) = b
                       /\ b \in 0..(HashSize - 1) /\ b + 1 \in 1..HashSize
  <2> SUFFICES ASSUME PinFound(pin)
               PROVE  /\ entry \in PinEntries /\ HashOf(entry) = b
                      /\ b \in 0..(HashSize - 1) /\ b + 1 \in 1..HashSize
    OBVIOUS
  <2>1. find_wire(pin.tile, pin.wire) \in Numbers
    BY <1>3, FoundIs DEF PinFound
  <2>2. NodeOf(find_wire(pin.tile, pin.wire)) \in Nat
    BY <2>1, NodeOfIs DEF MakingTyped
  <2>3. entry \in PinEntries /\ entry.site = pin.site /\ entry.pin = pin.pin
    BY <1>3, <2>1, <2>2 DEF entry, PinEntry, PinEntries
  <2>4. HashOf(entry) = b
    BY <2>3 DEF HashOf, b
  <2>5. <<pin.site, pin.pin>> \in Names
    BY <1>3 DEF Names
  <2>6. HashSize \in Nat \ {0} /\ b \in 0..(HashSize - 1)
    BY <2>5, BucketFor DEF MakingTyped, b
  <2> QED
    BY <2>3, <2>4, <2>6
<1>6. /\ buckets \in Seq(Seq(PinEntries)) /\ Len(buckets) = HashSize
      /\ PinsInBuckets /\ PinsThere
  BY DEF PinsEntered, PinsTyped
<1>7. \A j : j \in 1..N <=> j \in 1..at \/ j = N
  BY <1>1
<1> HIDE DEF N
<1>8. at' = N /\ SitePins[N] = pin
  BY <1>1 DEF N, pin
<1>9. CASE ~PinFound(pin)
  <2>1. buckets' = buckets
    BY <1>1, <1>9
  <2>2. PinsTyped'
    BY <1>2, <1>4, <1>6, <1>8, <2>1 DEF PinsTyped
  <2>3. PinsInBuckets'
    BY <1>4, <1>6, <1>7, <1>8, <2>1, SMTT(60) DEF PinsInBuckets
  <2>4. PinsThere'
    BY <1>4, <1>6, <1>7, <1>8, <1>9, <2>1 DEF PinsThere
  <2> QED
    BY <2>2, <2>3, <2>4 DEF PinsEntered
<1>10. CASE PinFound(pin)
  <2>1. /\ buckets' \in Seq(Seq(PinEntries)) /\ Len(buckets') = HashSize
        /\ \A c \in 1..HashSize : c # b + 1 => buckets'[c] = buckets[c]
        /\ Len(buckets[b + 1]) \in Nat /\ Len(buckets'[b + 1]) = Len(buckets[b + 1]) + 1
        /\ buckets'[b + 1][Len(buckets[b + 1]) + 1] = entry
        /\ \A i \in 1..Len(buckets[b + 1]) : buckets'[b + 1][i] = buckets[b + 1][i]
    <3>1. buckets' = [buckets EXCEPT ![b + 1] = Append(@, entry)]
      BY <1>1, <1>10
    <3>2. entry \in PinEntries /\ b + 1 \in 1..Len(buckets)
      BY <1>5, <1>6, <1>10
    <3> QED
      BY <1>6, <3>1, <3>2, AppendedAt
  <2>2. PinsTyped'
    BY <1>2, <1>4, <1>8, <2>1 DEF PinsTyped
  <2>3. ASSUME NEW c \in 1..HashSize, NEW i \in 1..Len(buckets'[c])
        PROVE  \/ c = b + 1 /\ i = Len(buckets[b + 1]) + 1 /\ buckets'[c][i] = entry
               \/ i \in 1..Len(buckets[c]) /\ buckets'[c][i] = buckets[c][i]
    <3>1. CASE c = b + 1
      <4>1. Len(buckets[b + 1]) \in Nat /\ i \in 1..(Len(buckets[b + 1]) + 1)
        BY <2>1, <3>1
      <4>2. i \in 1..Len(buckets[b + 1]) \/ i = Len(buckets[b + 1]) + 1
        BY <4>1
      <4> QED
        BY <2>1, <3>1, <4>2
    <3>2. CASE c # b + 1
      BY <2>1, <3>2
    <3> QED
      BY <3>1, <3>2
  <2>4. ASSUME NEW c \in 1..HashSize, NEW i \in 1..Len(buckets[c])
        PROVE  i \in 1..Len(buckets'[c]) /\ buckets'[c][i] = buckets[c][i]
    <3>1. CASE c = b + 1
      <4>1. Len(buckets[b + 1]) \in Nat /\ i \in 1..Len(buckets[b + 1])
        BY <2>1, <3>1
      <4>2. i \in 1..(Len(buckets[b + 1]) + 1)
        BY <4>1
      <4> QED
        BY <2>1, <3>1, <4>1, <4>2
    <3>2. CASE c # b + 1
      BY <2>1, <3>2
    <3> QED
      BY <3>1, <3>2
  <2>5. ASSUME NEW c \in 1..HashSize, NEW i \in 1..Len(buckets'[c])
        PROVE  /\ HashOf(buckets'[c][i]) = c - 1
               /\ \E j \in 1..N : PinFound(SitePins[j]) /\ buckets'[c][i] = PinEntry(SitePins[j])
    <3>1. CASE c = b + 1 /\ i = Len(buckets[b + 1]) + 1 /\ buckets'[c][i] = entry
      <4>1. HashOf(buckets'[c][i]) = c - 1
        <5>1. b \in 0..(HashSize - 1) /\ HashOf(entry) = b
          BY <1>5, <1>10
        <5>2. c - 1 = b
          BY <3>1, <5>1
        <5> QED
          BY <3>1, <5>1, <5>2
      <4>2. N \in 1..N
        BY <1>7
      <4> QED
        BY <1>8, <1>10, <3>1, <4>1, <4>2 DEF entry
    <3>2. CASE i \in 1..Len(buckets[c]) /\ buckets'[c][i] = buckets[c][i]
      <4>1. /\ HashOf(buckets[c][i]) = c - 1
            /\ \E j \in 1..at : PinFound(SitePins[j]) /\ buckets[c][i] = PinEntry(SitePins[j])
        BY <1>6, <3>2 DEF PinsInBuckets
      <4>2. \E j \in 1..N : PinFound(SitePins[j]) /\ buckets[c][i] = PinEntry(SitePins[j])
        BY <1>7, <4>1
      <4> QED
        BY <3>2, <4>1, <4>2
    <3> QED
      BY <2>3, <3>1, <3>2
  <2>6. PinsInBuckets'
    BY <1>4, <1>8, <2>5 DEF PinsInBuckets
  <2>7. ASSUME NEW j \in 1..N, PinFound(SitePins[j])
        PROVE  \E c \in 1..HashSize : \E i \in 1..Len(buckets'[c]) : buckets'[c][i] = PinEntry(SitePins[j])
    <3>1. CASE j = N
      <4>1. Len(buckets[b + 1]) + 1 \in 1..Len(buckets'[b + 1]) /\ b + 1 \in 1..HashSize
        BY <1>5, <1>10, <2>1
      <4> QED
        BY <1>8, <2>1, <3>1, <4>1 DEF entry
    <3>2. CASE j \in 1..at
      <4>1. PICK c \in 1..HashSize : \E i \in 1..Len(buckets[c]) : buckets[c][i] = PinEntry(SitePins[j])
        BY <1>6, <2>7, <3>2 DEF PinsThere
      <4>2. PICK i \in 1..Len(buckets[c]) : buckets[c][i] = PinEntry(SitePins[j])
        BY <4>1
      <4> QED
        BY <2>4, <4>2
    <3> QED
      BY <1>7, <3>1, <3>2
  <2>8. PinsThere'
    BY <1>4, <1>8, <2>7 DEF PinsThere
  <2> QED
    BY <2>2, <2>6, <2>8 DEF PinsEntered
<1> QED
  BY <1>9, <1>10

(* The search finds the pins of the buckets that are written. *)
LEMMA PinsAreWritten ==
  ASSUME MakingTyped, WiresNumbered, PinsEntered, WriteSitePins
  PROVE  PinsFound'
<1> DEFINE sets == alt_site_pins'
           keyOf == [e \in PinEntries |-> <<e.site, e.pin>>]
<1>1. /\ at = Len(SitePins) /\ sets = dense(buckets)
      /\ UNCHANGED <<dev, crc, alt_wires, alt_wire_to_node>>
  BY DEF WriteSitePins
<1>2. /\ SitePins' = SitePins /\ HashSize' = HashSize
      /\ \A p : PinFound(p)' = PinFound(p) /\ PinEntry(p)' = PinEntry(p)
      /\ \A site, pin : PinsOf(site, pin)' = PinsOf(site, pin)
  BY <1>1, ListsKept, PinNameKept
<1>3. /\ buckets \in Seq(Seq(PinEntries)) /\ Len(buckets) = HashSize
      /\ PinsInBuckets /\ PinsThere
  BY DEF PinsEntered, PinsTyped
<1>4. ASSUME NEW site \in Strings, NEW pin \in Strings
      PROVE  \/ find_site_pin(site, pin)' = NotFound /\ PinsOf(site, pin) = {}
             \/ /\ find_site_pin(site, pin)' \in Nat
                /\ \E j \in PinsOf(site, pin) :
                     sets.body[find_site_pin(site, pin)' + 1] = PinEntry(SitePins[j])
  <2> DEFINE key == <<site, pin>>
             b == crc[key] % HashSize
             bucket == buckets[b + 1]
             keys == PinKeys(bucket)
             found == Lookup(sets, b, keys, key)
  <2>1. key \in Names
    BY DEF Names
  <2>2. HashSize \in Nat \ {0} /\ b \in 0..(HashSize - 1)
    BY <2>1, BucketFor DEF MakingTyped
  <2>3. b + 1 \in 1..HashSize /\ (b + 1) - 1 = b /\ b \in 0..(Len(buckets) - 1)
    <3> HIDE DEF b
    <3> QED
      BY <1>3, <2>2
  <2>4. /\ dense_size(sets) = HashSize /\ sets.body = FlattenSeq(buckets)
        /\ dense_at(sets, b) = bucket
    <3>1. /\ dense_size(sets) = Len(buckets) /\ sets.body = FlattenSeq(buckets)
          /\ \A c \in 1..Len(buckets) : dense_at(sets, c - 1) = buckets[c]
      <4> HIDE DEF sets
      <4> QED
        BY <1>1, <1>3, DenseIs
    <3> HIDE DEF b, sets
    <3>2. b + 1 \in 1..Len(buckets)
      BY <1>3, <2>3
    <3>3. dense_at(sets, (b + 1) - 1) = buckets[b + 1]
      BY <3>1, <3>2
    <3> QED
      BY <1>3, <2>3, <3>1, <3>3
  <2>5. find_site_pin(site, pin)' = found
    BY <1>1, <2>4 DEF find_site_pin
  <2>6. bucket \in Seq(PinEntries)
    BY <1>3, <2>3
  <2>7. /\ keys \in Seq(Names) /\ AreKeys(keys, keyOf, bucket)
    <3> HIDE DEF bucket
    <3>1. keys = [i \in DOMAIN bucket |-> <<bucket[i].site, bucket[i].pin>>]
      BY DEF PinKeys
    <3>2. \A i \in DOMAIN bucket : /\ bucket[i] \in PinEntries
                                   /\ <<bucket[i].site, bucket[i].pin>> \in Names
      <4>1. \A i \in DOMAIN bucket : bucket[i] \in PinEntries
        BY <2>6
      <4>2. \A e \in PinEntries : <<e.site, e.pin>> \in Names
        BY DEF PinEntries, Names
      <4> QED
        BY <4>1, <4>2
    <3>3. DOMAIN bucket = 1..Len(bucket) /\ Len(bucket) \in Nat
      BY <2>6
    <3> HIDE DEF keys
    <3>4. keys \in [1..Len(bucket) -> Names]
      BY <3>1, <3>2, <3>3
    <3>5. keys \in Seq(Names) /\ Len(keys) = Len(bucket)
      BY <3>3, <3>4
    <3>6. \A i \in 1..Len(keys) : keys[i] = keyOf[bucket[i]]
      BY <3>1, <3>2, <3>3, <3>5
    <3> QED
      BY <3>5, <3>6 DEF AreKeys
  <2>8. \A e \in PinEntries : keyOf[e] = <<e.site, e.pin>>
    OBVIOUS
  <2>9. keyOf \in [PinEntries -> Names]
    <3>1. \A e \in PinEntries : <<e.site, e.pin>> \in Names
      BY DEF PinEntries, Names
    <3> QED
      BY <3>1
  <2>10. HasAll(buckets, b, keyOf, key)
    <3> SUFFICES ASSUME NEW c \in 1..Len(buckets), NEW i \in 1..Len(buckets[c]),
                        keyOf[buckets[c][i]] = key
                 PROVE  c = b + 1
      BY DEF HasAll
    <3> DEFINE e == buckets[c][i]
    <3>1. e \in PinEntries /\ c \in 1..HashSize
      BY <1>3
    <3>2. <<e.site, e.pin>> = key
      BY <2>8, <3>1
    <3>3. HashOf(e) = c - 1
      BY <1>3, <3>1 DEF PinsInBuckets
    <3>4. HashOf(e) = b
      BY <3>2 DEF HashOf
    <3> HIDE DEF b, e
    <3> QED
      BY <2>3, <3>1, <3>3, <3>4
  <2> HIDE DEF sets, keyOf, b, bucket, keys
  <2>11. \/ /\ Lookup(sets, b, keys, key) \in 0..(Len(sets.body) - 1)
            /\ keyOf[sets.body[Lookup(sets, b, keys, key) + 1]] = key
         \/ /\ Lookup(sets, b, keys, key) = NotFound
            /\ \A x \in 1..Len(sets.body) : keyOf[sets.body[x]] # key
    <3>1. AreKeys(keys, keyOf, buckets[b + 1])
      BY <2>7 DEF bucket
    <3>2. buckets \in Seq(Seq(PinEntries)) /\ b \in 0..(Len(buckets) - 1) /\ sets = dense(buckets)
      BY <1>1, <1>3, <2>3
    <3>3. keys \in Seq(Names) /\ keyOf \in [PinEntries -> Names]
      BY <2>7, <2>9
    <3> HIDE DEF key, found
    <3>4. Searched(PinEntries, buckets, sets, Names, keyOf, key, b, keys)
      BY <2>10, <3>1, <3>2, <3>3 DEF Searched
    <3>5. FindsKey(sets, keyOf, key, Lookup(sets, b, keys, key))
      BY <3>4, FoundInFile, Zenon
    <3> QED
      BY <3>5 DEF FindsKey
  <2>12. CASE found = NotFound /\ \A x \in 1..Len(sets.body) : keyOf[sets.body[x]] # key
    <3>1. ASSUME NEW j \in PinsOf(site, pin) PROVE FALSE
      <4>1. j \in 1..at /\ PinFound(SitePins[j]) /\ SitePins[j].site = site /\ SitePins[j].pin = pin
        BY <1>1 DEF PinsOf
      <4>2. PICK c \in 1..HashSize : \E i \in 1..Len(buckets[c]) : buckets[c][i] = PinEntry(SitePins[j])
        BY <1>3, <4>1 DEF PinsThere
      <4>3. PICK i \in 1..Len(buckets[c]) : buckets[c][i] = PinEntry(SitePins[j])
        BY <4>2
      <4>4. /\ Offsets(buckets)[c] + i \in 1..Len(sets.body)
            /\ sets.body[Offsets(buckets)[c] + i] = buckets[c][i]
        <5>1. c \in 1..Len(buckets)
          BY <1>3
        <5> QED
          BY <1>3, <2>4, <5>1, PlaceInside
      <4>5. buckets[c][i] \in PinEntries
        BY <1>3
      <4>6. keyOf[buckets[c][i]] = key
        <5>1. PinEntry(SitePins[j]).site = site /\ PinEntry(SitePins[j]).pin = pin
          BY <4>1 DEF PinEntry
        <5> QED
          BY <2>8, <4>3, <4>5, <5>1
      <4> QED
        BY <2>12, <4>4, <4>6
    <3> QED
      BY <2>5, <2>12, <3>1
  <2>13. CASE found \in 0..(Len(sets.body) - 1) /\ keyOf[sets.body[found + 1]] = key
    <3> HIDE DEF found
    <3>1. found + 1 \in 1..Len(FlattenSeq(buckets)) /\ found \in Nat
      <4>1. Len(FlattenSeq(buckets)) \in Nat
        <5>1. FlattenSeq(buckets) \in Seq(PinEntries)
          BY <1>3, Flattened
        <5> QED
          BY <5>1
      <4> QED
        BY <2>4, <2>13, <4>1
    <3>2. PICK c \in 1..Len(buckets) : \E i \in 1..Len(buckets[c]) :
            /\ found + 1 = Offsets(buckets)[c] + i
            /\ FlattenSeq(buckets)[found + 1] = buckets[c][i]
      BY <1>3, <3>1, PlaceIn
    <3>3. PICK i \in 1..Len(buckets[c]) : FlattenSeq(buckets)[found + 1] = buckets[c][i]
      BY <3>2
    <3>4. c \in 1..HashSize /\ buckets[c][i] \in PinEntries
      BY <1>3
    <3>5. PICK j \in 1..at : PinFound(SitePins[j]) /\ buckets[c][i] = PinEntry(SitePins[j])
      BY <1>3, <3>4 DEF PinsInBuckets
    <3>6. SitePins[j].site = site /\ SitePins[j].pin = pin
      <4>1. <<buckets[c][i].site, buckets[c][i].pin>> = key
        BY <2>4, <2>8, <2>13, <3>3, <3>4
      <4>2. buckets[c][i].site = SitePins[j].site /\ buckets[c][i].pin = SitePins[j].pin
        BY <3>5 DEF PinEntry
      <4> QED
        BY <4>1, <4>2
    <3>7. j \in PinsOf(site, pin)
      BY <1>1, <3>5, <3>6 DEF PinsOf
    <3>8. sets.body[found + 1] = PinEntry(SitePins[j])
      BY <2>4, <3>3, <3>5
    <3> QED
      BY <2>5, <3>1, <3>7, <3>8
  <2> QED
    BY <2>11, <2>12, <2>13 DEF found
<1> QED
  BY <1>2, <1>4 DEF PinsFound

(* The test of a node passes. *)
LEMMA NodePasses ==
  ASSUME MakingTyped, WiresNumbered, NodesWritten, NodesSet(NodeCount), TestNodes
  PROVE  stage' = stage /\ at' = at + 1
<1> DEFINE N == at + 1
           node == dev.nodes[N]
           alt == dense_at(alt_nodes, at)
<1>1. at \in Nat /\ N \in 1..NodeCount /\ N - 1 = at
  <2>1. at \in Nat /\ at < NodeCount
    BY DEF MakingTyped, TestNodes, NodeCount
  <2>2. NodeCount \in Nat
    BY DeviceIs DEF MakingTyped
  <2> QED
    BY <2>1, <2>2
<1>2. alt = FinalOf(N)
  BY <1>1 DEF NodesWritten
<1>3. /\ Len(alt) = Len(node)
      /\ DOMAIN node = 1..Len(node)
      /\ \A k \in 1..Len(node) : alt[k] = Number(N, k)
  BY <1>1, <1>2, FinalIs DEF MakingTyped, WiresNumbered
<1>4. \A k \in 1..Len(node) : NodeOf(Number(N, k)) = at
  BY <1>1 DEF NodesSet
<1>5. \A k \in 1..Len(node) : alt_wires.body[Number(N, k) + 1] = Key(node[k])
  BY <1>1 DEF WiresNumbered, NumbersGiven
<1>6. \A k \in DOMAIN node : NodeOf(alt[k]) = at /\ alt_wires.body[alt[k] + 1] = Key(node[k])
  <2> HIDE DEF node, alt, N
  <2> QED
    BY <1>3, <1>4, <1>5
<1> QED
  BY <1>3, <1>6 DEF TestNodes, Step

(* While the wires are numbered, a wire or the next node leaves the buckets filled. *)
LEMMA NumberingInv ==
  ASSUME MakingInv, MakeWires \/ NextNode
  PROVE  MakingInv'
<1>1. /\ stage = "make_wires" /\ stage' = stage /\ at' \in Nat
      /\ UNCHANGED <<dev, crc, node_final, alt_pips>>
  <2>1. MakingTyped
    BY DEF MakingInv
  <2>2. CASE MakeWires
    BY <2>1, <2>2 DEF MakeWires, files, MakingTyped
  <2>3. CASE NextNode
    BY <2>1, <2>3 DEF NextNode, Step, files, MakingTyped
  <2> QED
    BY <2>2, <2>3
<1>2. MakingTyped /\ EmptyYet /\ BucketsFilled
  BY <1>1 DEF MakingInv
<1>3. BucketsFilled'
  BY <1>2, MakeWiresKeeps, NextNodeKeeps
<1>4. MakingTyped' /\ EmptyYet' /\ AbortsIfNothing'
  BY <1>1, <1>2 DEF MakingTyped, EmptyYet, AbortsIfNothing
<1> QED
  BY <1>1, <1>3, <1>4 DEF MakingInv, Tested, PinsAndOn, NodePipsAndOn, WirePipsAndOn, ToNodeAndOn

(* When the file of wires is written, the wires have numbers. *)
LEMMA WireFileInv ==
  ASSUME MakingInv, WriteWires
  PROVE  MakingInv'
<1>1. /\ stage = "make_wires" /\ stage' = "make_node_to_wires" /\ at' = 0
      /\ UNCHANGED <<dev, crc, node_final, alt_pips>>
  BY DEF WriteWires, Start
<1>2. MakingTyped /\ EmptyYet /\ BucketsFilled
  BY <1>1 DEF MakingInv
<1>3. WiresNumbered'
  BY <1>2, WriteWiresNumbers
<1>4. NumbersListed'
  <2>1. NodeCount' \in Nat
    BY <1>1, <1>2, DeviceIs, ListsKept DEF MakingTyped
  <2>2. node_final' = <<>>
    BY <1>1, <1>2 DEF EmptyYet
  <2> QED
    BY <1>1, <2>1, <2>2 DEF NumbersListed
<1>5. MakingTyped' /\ EmptyYet' /\ AbortsIfNothing'
  BY <1>1, <1>2 DEF MakingTyped, EmptyYet, AbortsIfNothing, Stages
<1> QED
  BY <1>1, <1>3, <1>4, <1>5 DEF MakingInv, Tested, PinsAndOn, NodePipsAndOn, WirePipsAndOn, ToNodeAndOn

(* A node is listed by the numbers of its wires, and never fails the check. *)
LEMMA NodeListInv ==
  ASSUME MakingInv, MakeNodeToWires
  PROVE  MakingInv'
<1>1. /\ stage = "make_node_to_wires"
      /\ UNCHANGED <<dev, crc, node_renumber, alt_wires, alt_pips>>
  BY DEF MakeNodeToWires, files
<1>2. MakingTyped /\ EmptyYet /\ WiresNumbered /\ NumbersListed
  BY <1>1 DEF MakingInv
<1>3. stage' = stage /\ NumbersListed'
  BY <1>2, NodeListed
<1>4. at' \in Nat
  BY <1>2, <1>3, <1>1 DEF MakeNodeToWires, Step, MakingTyped
<1>5. WiresNumbered'
  BY <1>1, <1>2, WiresKept
<1>6. MakingTyped' /\ EmptyYet' /\ AbortsIfNothing'
  BY <1>1, <1>2, <1>3, <1>4 DEF MakingTyped, EmptyYet, AbortsIfNothing, Stages
<1> QED
  BY <1>1, <1>3, <1>5, <1>6 DEF MakingInv, Tested, PinsAndOn, NodePipsAndOn, WirePipsAndOn, ToNodeAndOn

(* When the file of nodes is written, the making aborts only if there is no wire. *)
LEMMA NodeFileInv ==
  ASSUME MakingInv, WriteNodes
  PROVE  MakingInv'
<1>1. /\ stage = "make_node_to_wires"
      /\ UNCHANGED <<dev, crc, node_renumber, alt_wires, alt_pips>>
  BY DEF WriteNodes
<1>2. MakingTyped /\ EmptyYet /\ WiresNumbered /\ NumbersListed
  BY <1>1 DEF MakingInv
<1>3. /\ NodesWritten' /\ NodesSet(0)'
      /\ \/ stage' = "make_wire_to_node" /\ at' = 0
         \/ stage' = "aborted" /\ at' = at /\ AbortsIfNothing'
  BY <1>2, NodesAreWritten
<1>4. WiresNumbered'
  BY <1>1, <1>2, WiresKept
<1>5. MakingTyped' /\ EmptyYet' /\ AbortsIfNothing'
  BY <1>1, <1>2, <1>3 DEF MakingTyped, EmptyYet, AbortsIfNothing, Stages, Tested, PinsAndOn,
     NodePipsAndOn, WirePipsAndOn, ToNodeAndOn
<1>6. at' = 0 => NodesSet(at)'
  BY <1>3 DEF NodesSet
<1> QED
  BY <1>1, <1>3, <1>4, <1>5, <1>6 DEF MakingInv, Tested, PinsAndOn, NodePipsAndOn, WirePipsAndOn, ToNodeAndOn

(* The wires of one more node know it. *)
LEMMA WireNodeInv ==
  ASSUME MakingInv, MakeWireToNode
  PROVE  MakingInv'
<1>1. /\ stage = "make_wire_to_node" /\ stage' = stage /\ at' = at + 1
      /\ UNCHANGED <<dev, crc, node_renumber, alt_wires, alt_nodes, alt_pips>>
  BY DEF MakeWireToNode, Step
<1>2. MakingTyped /\ EmptyYet /\ WiresNumbered /\ NodesWritten /\ NodesSet(at)
  BY <1>1 DEF MakingInv, ToNodeAndOn
<1>3. NodesSet(at)'
  BY <1>2, NodeIsSet
<1>4. WiresNumbered' /\ NodesWritten'
  BY <1>1, <1>2, WiresKept, NodesKept
<1>5. MakingTyped' /\ EmptyYet' /\ AbortsIfNothing'
  BY <1>1, <1>2 DEF MakingTyped, EmptyYet, AbortsIfNothing
<1> QED
  BY <1>1, <1>3, <1>4, <1>5 DEF MakingInv, Tested, PinsAndOn, NodePipsAndOn, WirePipsAndOn, ToNodeAndOn

(* When every wire knows its node, there are vectors for pips without a pip. *)
LEMMA WireNodesInv ==
  ASSUME MakingInv, WireToNodeMade
  PROVE  MakingInv'
<1>1. /\ stage = "make_wire_to_node" /\ stage' = "make_wire_to_pips" /\ at' = 0
      /\ UNCHANGED <<dev, crc, node_renumber, alt_wires, alt_nodes, alt_pips>>
  BY DEF WireToNodeMade, Start, files
<1>2. MakingTyped /\ EmptyYet /\ WiresNumbered /\ NodesWritten /\ NodesSet(at) /\ alt_pips = <<>>
  BY <1>1 DEF MakingInv, ToNodeAndOn, EmptyYet
<1>3. NodesSet(NodeCount)' /\ PipsEntered(0)'
  BY <1>2, NoPipsYet
<1>4. WiresNumbered' /\ NodesWritten'
  BY <1>1, <1>2, WiresKept, NodesKept
<1>5. MakingTyped' /\ EmptyYet' /\ AbortsIfNothing'
  BY <1>1, <1>2 DEF MakingTyped, EmptyYet, AbortsIfNothing, Stages, ToNodeAndOn, WirePipsAndOn
<1>6. PipsEntered(at)'
  BY <1>1, <1>3 DEF PipsEntered
<1> QED
  BY <1>1, <1>3, <1>4, <1>5, <1>6 DEF MakingInv, Tested, PinsAndOn, NodePipsAndOn, WirePipsAndOn, ToNodeAndOn

(* One more pip of the device is entered at its wires, or left out. *)
LEMMA WirePipInv ==
  ASSUME MakingInv, MakeWireToPips
  PROVE  MakingInv'
<1>1. /\ stage = "make_wire_to_pips" /\ stage' = stage /\ at' = at + 1
      /\ UNCHANGED <<dev, crc, node_renumber, alt_wires, alt_nodes, alt_wire_to_node>>
  BY DEF MakeWireToPips, Step
<1>2. MakingTyped /\ EmptyYet /\ WiresNumbered /\ NodesWritten /\ NodesSet(NodeCount) /\ PipsEntered(at)
  BY <1>1 DEF MakingInv, ToNodeAndOn, WirePipsAndOn
<1>3. PipsEntered(at)'
  BY <1>2, PipKeeps
<1>4. WiresNumbered' /\ NodesWritten' /\ NodesSet(NodeCount)'
  BY <1>1, <1>2, WiresKept, NodesKept, AllNodesSetKept
<1>5. MakingTyped' /\ EmptyYet' /\ AbortsIfNothing'
  BY <1>1, <1>2 DEF MakingTyped, EmptyYet, AbortsIfNothing
<1> QED
  BY <1>1, <1>3, <1>4, <1>5 DEF MakingInv, Tested, PinsAndOn, NodePipsAndOn, WirePipsAndOn, ToNodeAndOn

(* When every pip is entered at wires, there are vectors for the nodes without one. *)
LEMMA WirePipsInv ==
  ASSUME MakingInv, WireToPipsMade
  PROVE  MakingInv'
<1>1. /\ stage = "make_wire_to_pips" /\ stage' = "make_node_to_pips" /\ at' = 0
      /\ UNCHANGED <<dev, crc, node_renumber, alt_wires, alt_nodes, alt_wire_to_node>>
  BY DEF WireToPipsMade, Start, files
<1>2. MakingTyped /\ EmptyYet /\ WiresNumbered /\ NodesWritten /\ NodesSet(NodeCount) /\ PipsEntered(at)
  BY <1>1 DEF MakingInv, ToNodeAndOn, WirePipsAndOn
<1>3. PipsEntered(Len(DevicePips))' /\ PipsAtNodes(0)'
  BY <1>2, NoNodePipsYet
<1>4. WiresNumbered' /\ NodesWritten' /\ NodesSet(NodeCount)'
  BY <1>1, <1>2, WiresKept, NodesKept, AllNodesSetKept
<1>5. MakingTyped' /\ EmptyYet' /\ AbortsIfNothing'
  BY <1>1, <1>2 DEF MakingTyped, EmptyYet, AbortsIfNothing, Stages, ToNodeAndOn, WirePipsAndOn, NodePipsAndOn
<1>6. PipsAtNodes(at)'
  BY <1>1, <1>3 DEF PipsAtNodes
<1> QED
  BY <1>1, <1>3, <1>4, <1>5, <1>6 DEF MakingInv, Tested, PinsAndOn, NodePipsAndOn, WirePipsAndOn, ToNodeAndOn

(* One more pip is entered at its nodes. *)
LEMMA NodePipInv ==
  ASSUME MakingInv, MakeNodeToPips
  PROVE  MakingInv'
<1>1. /\ stage = "make_node_to_pips" /\ stage' = stage /\ at' = at + 1
      /\ UNCHANGED <<dev, crc, node_renumber, alt_wires, alt_nodes, alt_wire_to_node, alt_pips, wire_to_pips>>
  BY DEF MakeNodeToPips, Step, files
<1>2. /\ MakingTyped /\ EmptyYet /\ WiresNumbered /\ NodesWritten /\ NodesSet(NodeCount)
      /\ PipsEntered(Len(DevicePips)) /\ PipsAtNodes(at)
  BY <1>1 DEF MakingInv, ToNodeAndOn, WirePipsAndOn, NodePipsAndOn
<1>3. PipsAtNodes(at)'
  BY <1>2, NodePipKeeps
<1>4. WiresNumbered' /\ NodesWritten' /\ NodesSet(NodeCount)' /\ PipsEntered(Len(DevicePips))'
  BY <1>1, <1>2, WiresKept, NodesKept, AllNodesSetKept, PipsKept
<1>5. MakingTyped' /\ EmptyYet' /\ AbortsIfNothing'
  BY <1>1, <1>2 DEF MakingTyped, EmptyYet, AbortsIfNothing
<1> QED
  BY <1>1, <1>3, <1>4, <1>5 DEF MakingInv, Tested, PinsAndOn, NodePipsAndOn, WirePipsAndOn, ToNodeAndOn

(* When every pip is entered at nodes, the buckets are emptied for the pins. *)
LEMMA NodePipsInv ==
  ASSUME MakingInv, NodeToPipsMade
  PROVE  MakingInv'
<1>1. /\ stage = "make_node_to_pips" /\ stage' = "make_site_pin_wires" /\ at' = 0
      /\ UNCHANGED <<dev, crc, node_renumber, alt_wires, alt_nodes, alt_wire_to_node, alt_pips, wire_to_pips>>
  BY DEF NodeToPipsMade, Start, files
<1>2. /\ MakingTyped /\ EmptyYet /\ WiresNumbered /\ NodesWritten /\ NodesSet(NodeCount)
      /\ PipsEntered(Len(DevicePips)) /\ PipsAtNodes(at)
  BY <1>1 DEF MakingInv, ToNodeAndOn, WirePipsAndOn, NodePipsAndOn
<1>3. PipsAtNodes(Len(alt_pips))' /\ PinsEntered'
  BY <1>2, NoPinsYet
<1>4. WiresNumbered' /\ NodesWritten' /\ NodesSet(NodeCount)' /\ PipsEntered(Len(DevicePips))'
  BY <1>1, <1>2, WiresKept, NodesKept, AllNodesSetKept, PipsKept
<1>5. MakingTyped' /\ EmptyYet' /\ AbortsIfNothing'
  BY <1>1, <1>2 DEF MakingTyped, EmptyYet, AbortsIfNothing, Stages, ToNodeAndOn, WirePipsAndOn,
     NodePipsAndOn, PinsAndOn
<1> QED
  BY <1>1, <1>3, <1>4, <1>5 DEF MakingInv, Tested, PinsAndOn, NodePipsAndOn, WirePipsAndOn, ToNodeAndOn

(* One more pin is put in its bucket, or left out. *)
LEMMA PinInv ==
  ASSUME MakingInv, MakeSitePinWires
  PROVE  MakingInv'
<1>1. /\ stage = "make_site_pin_wires" /\ stage' = stage /\ at' = at + 1
      /\ UNCHANGED <<dev, crc, node_renumber, alt_wires, alt_nodes, alt_wire_to_node, alt_pips,
                     wire_to_pips, node_to_pips>>
  BY DEF MakeSitePinWires, Step, files
<1>2. /\ MakingTyped /\ EmptyYet /\ WiresNumbered /\ NodesWritten /\ NodesSet(NodeCount)
      /\ PipsEntered(Len(DevicePips)) /\ PipsAtNodes(Len(alt_pips)) /\ PinsEntered
  BY <1>1 DEF MakingInv, ToNodeAndOn, WirePipsAndOn, NodePipsAndOn, PinsAndOn
<1>3. PinsEntered'
  BY <1>2, PinKeeps
<1>4. /\ WiresNumbered' /\ NodesWritten' /\ NodesSet(NodeCount)' /\ PipsEntered(Len(DevicePips))'
      /\ PipsAtNodes(Len(alt_pips))'
  BY <1>1, <1>2, WiresKept, NodesKept, AllNodesSetKept, PipsKept, NodePipsKept
<1>5. MakingTyped' /\ EmptyYet' /\ AbortsIfNothing'
  BY <1>1, <1>2 DEF MakingTyped, EmptyYet, AbortsIfNothing
<1> QED
  BY <1>1, <1>3, <1>4, <1>5 DEF MakingInv, Tested, PinsAndOn, NodePipsAndOn, WirePipsAndOn, ToNodeAndOn

(* When the file of pins is written, they are found. *)
LEMMA PinFileInv ==
  ASSUME MakingInv, WriteSitePins
  PROVE  MakingInv'
<1>1. /\ stage = "make_site_pin_wires" /\ stage' = "test_nodes" /\ at' = 0
      /\ UNCHANGED <<dev, crc, node_renumber, alt_wires, alt_nodes, alt_wire_to_node, alt_pips,
                     wire_to_pips, node_to_pips>>
  BY DEF WriteSitePins, Start
<1>2. /\ MakingTyped /\ EmptyYet /\ WiresNumbered /\ NodesWritten /\ NodesSet(NodeCount)
      /\ PipsEntered(Len(DevicePips)) /\ PipsAtNodes(Len(alt_pips)) /\ PinsEntered
  BY <1>1 DEF MakingInv, ToNodeAndOn, WirePipsAndOn, NodePipsAndOn, PinsAndOn
<1>3. PinsFound'
  BY <1>2, PinsAreWritten
<1>4. /\ WiresNumbered' /\ NodesWritten' /\ NodesSet(NodeCount)' /\ PipsEntered(Len(DevicePips))'
      /\ PipsAtNodes(Len(alt_pips))'
  BY <1>1, <1>2, WiresKept, NodesKept, AllNodesSetKept, PipsKept, NodePipsKept
<1>5. MakingTyped' /\ EmptyYet' /\ AbortsIfNothing'
  BY <1>1, <1>2 DEF MakingTyped, EmptyYet, AbortsIfNothing, Stages, ToNodeAndOn, WirePipsAndOn,
     NodePipsAndOn, PinsAndOn, Tested
<1> QED
  BY <1>1, <1>3, <1>4, <1>5 DEF MakingInv, Tested, PinsAndOn, NodePipsAndOn, WirePipsAndOn, ToNodeAndOn

(* The tests change no file, and pass. *)
LEMMA TestsInv ==
  ASSUME MakingInv, TestNodes \/ NodesTested \/ TestWires \/ WiresTested
  PROVE  MakingInv'
<1>1. /\ stage \in Tested
      /\ UNCHANGED <<dev, crc, node_renumber, alt_wires, alt_nodes, alt_wire_to_node, alt_pips,
                     alt_site_pins, wire_to_pips, node_to_pips>>
  <2>1. CASE TestNodes
    BY <2>1 DEF TestNodes, files, Tested
  <2>2. CASE NodesTested
    BY <2>2 DEF NodesTested, files, Tested
  <2>3. CASE TestWires
    BY <2>3 DEF TestWires, files, Tested
  <2>4. CASE WiresTested
    BY <2>4 DEF WiresTested, files, Tested
  <2> QED
    BY <2>1, <2>2, <2>3, <2>4
<1>2. /\ MakingTyped /\ EmptyYet /\ WiresNumbered /\ NodesWritten /\ NodesSet(NodeCount)
      /\ PipsEntered(Len(DevicePips)) /\ PipsAtNodes(Len(alt_pips)) /\ PinsFound
  BY <1>1 DEF MakingInv, ToNodeAndOn, WirePipsAndOn, NodePipsAndOn, PinsAndOn, Tested
<1>3. stage' \in Tested /\ at' \in Nat
  <2>1. at \in Nat
    BY <1>2 DEF MakingTyped
  <2>2. CASE TestNodes
    BY <1>1, <1>2, <2>1, <2>2, NodePasses
  <2>3. CASE NodesTested
    BY <2>3 DEF NodesTested, Start, Tested
  <2>4. CASE TestWires
    BY <1>1, <2>1, <2>4 DEF TestWires, Step
  <2>5. CASE WiresTested
    BY <2>1, <2>5 DEF WiresTested, Tested
  <2> QED
    BY <2>2, <2>3, <2>4, <2>5
<1>4. /\ WiresNumbered' /\ NodesWritten' /\ NodesSet(NodeCount)' /\ PipsEntered(Len(DevicePips))'
      /\ PipsAtNodes(Len(alt_pips))' /\ PinsFound'
  BY <1>1, <1>2, WiresKept, NodesKept, AllNodesSetKept, PipsKept, NodePipsKept, PinsKept
<1>5. MakingTyped' /\ EmptyYet' /\ AbortsIfNothing'
  BY <1>1, <1>2, <1>3 DEF MakingTyped, EmptyYet, AbortsIfNothing, Stages, ToNodeAndOn, WirePipsAndOn,
     NodePipsAndOn, PinsAndOn, Tested
<1> QED
  BY <1>3, <1>4, <1>5 DEF MakingInv, Tested, PinsAndOn, NodePipsAndOn, WirePipsAndOn, ToNodeAndOn

(* Nothing changes after the end. *)
LEMMA MakingStutters ==
  ASSUME MakingInv, UNCHANGED making
  PROVE  MakingInv'
<1>1. UNCHANGED <<dev, crc, stage, at, buckets, node_renumber, node_final, wire_to_pips,
                  node_to_pips, alt_wires, alt_nodes, alt_wire_to_node, alt_pips, alt_site_pins>>
  BY DEF making, files
<1>2. MakingTyped' /\ EmptyYet' /\ AbortsIfNothing'
  BY <1>1 DEF MakingInv, MakingTyped, EmptyYet, AbortsIfNothing
<1>3. NodeCount' = NodeCount /\ HashSize' = HashSize /\ DevicePips' = DevicePips /\ SitePins' = SitePins
  BY <1>1, ListsKept
<1>4. CASE stage = "make_wires"
  <2>1. BucketsTyped /\ InPlace /\ PlacesOnce /\ PlacesUsed
    BY <1>4 DEF MakingInv, BucketsFilled
  <2>2. BucketsTyped'
    BY <1>1, <1>3, <2>1 DEF BucketsTyped
  <2>5. PlacesOnce'
    BY <1>1, <1>3, <2>1 DEF PlacesOnce
  <2>3. InPlace'
    BY <1>1, <1>3, <2>1, ListsKept DEF InPlace
  <2>4. PlacesUsed'
    <3>1. ASSUME NEW b \in 1..HashSize, NEW i \in 1..Len(buckets[b])
          PROVE  /\ crc[buckets[b][i]] % HashSize = b - 1
                 /\ \E n \in 1..NodeCount : \E k \in 1..Len(node_renumber[n]) :
                      node_renumber[n][k] = <<b - 1, i - 1>>
      BY <2>1 DEF PlacesUsed
    <3>2. ASSUME NEW b \in 1..HashSize', NEW i \in 1..Len(buckets'[b])
          PROVE  /\ crc'[buckets'[b][i]] % HashSize' = b - 1
                 /\ \E n \in 1..NodeCount' : \E k \in 1..Len(node_renumber'[n]) :
                      node_renumber'[n][k] = <<b - 1, i - 1>>
      <4>1. b \in 1..HashSize /\ i \in 1..Len(buckets[b])
        BY <1>1, <1>3
      <4> QED
        BY <1>1, <1>3, <3>1, <4>1
    <3> QED
      BY <3>2 DEF PlacesUsed
  <2> QED
    BY <1>1, <1>2, <1>4, <2>2, <2>3, <2>4, <2>5 DEF MakingInv, BucketsFilled, Tested, PinsAndOn,
       NodePipsAndOn, WirePipsAndOn, ToNodeAndOn
<1>5. CASE stage = "make_node_to_wires"
  <2>1. WiresNumbered /\ NumbersListed
    BY <1>5 DEF MakingInv
  <2>2. WiresNumbered'
    BY <1>1, <2>1, WiresKept
  <2>3. \A n : FinalOf(n)' = FinalOf(n)
    BY <1>1 DEF FinalOf, Number, Renumbered
  <2>4. NumbersListed'
    BY <1>1, <1>3, <2>1, <2>3 DEF NumbersListed
  <2> QED
    BY <1>1, <1>2, <1>5, <2>2, <2>4 DEF MakingInv, Tested, PinsAndOn, NodePipsAndOn, WirePipsAndOn, ToNodeAndOn
<1>6. CASE stage \in ToNodeAndOn
  <2>1. WiresNumbered /\ NodesWritten
    BY <1>6 DEF MakingInv, Tested, PinsAndOn, NodePipsAndOn, WirePipsAndOn, ToNodeAndOn
  <2>2. WiresNumbered' /\ NodesWritten'
    BY <1>1, <2>1, WiresKept, NodesKept
  <2>3. /\ \A n, k : Number(n, k)' = Number(n, k)
        /\ \A w : NodeOf(w)' = NodeOf(w)
        /\ WireTotal' = WireTotal /\ Numbers' = Numbers
    BY <1>1 DEF Number, Renumbered, NodeOf, WireTotal, Numbers
  <2>4. stage = "make_wire_to_node" => NodesSet(at)'
    BY <1>1, <1>3, <2>3 DEF MakingInv, NodesSet
  <2>5. stage \in WirePipsAndOn => NodesSet(NodeCount)'
    BY <1>1, AllNodesSetKept DEF MakingInv
  <2>6. stage = "make_wire_to_pips" => PipsEntered(at)'
    <3>1. \A pip : Entered(pip)' = Entered(pip) /\ EntryOf(pip)' = EntryOf(pip)
      BY <1>1, FindKept DEF Entered, EntryOf
    <3> QED
      BY <1>1, <1>3, <2>3, <3>1, WaysKept DEF MakingInv, PipsEntered
  <2>7. stage \in NodePipsAndOn => PipsEntered(Len(DevicePips))'
    BY <1>1, PipsKept DEF MakingInv
  <2>8. stage = "make_node_to_pips" => PipsAtNodes(at)'
    BY <1>1, <1>3, <2>3, WaysKept DEF MakingInv, PipsAtNodes
  <2>9. stage \in PinsAndOn => PipsAtNodes(Len(alt_pips))'
    BY <1>1, NodePipsKept DEF MakingInv
  <2>10. stage = "make_site_pin_wires" => PinsEntered'
    <3>1. \A e : HashOf(e)' = HashOf(e)
      BY <1>1, <1>3 DEF HashOf
    <3>2. PinEntries' = PinEntries
      BY <2>3 DEF PinEntries
    <3>3. PinsTyped /\ PinsInBuckets /\ PinsThere => PinsTyped' /\ PinsInBuckets' /\ PinsThere'
      BY <1>1, <1>3, <3>1, <3>2, PinNameKept DEF PinsTyped, PinsInBuckets, PinsThere
    <3> QED
      BY <3>3 DEF MakingInv, PinsEntered
  <2>11. stage \in Tested => PinsFound'
    BY <1>1, PinsKept DEF MakingInv
  <2>12. stage \notin {"make_wires", "make_node_to_wires"}
    BY <1>6 DEF Tested, PinsAndOn, NodePipsAndOn, WirePipsAndOn, ToNodeAndOn
  <2> QED
    BY <1>1, <1>2, <2>2, <2>4, <2>5, <2>6, <2>7, <2>8, <2>9, <2>10, <2>11, <2>12 DEF MakingInv
<1>7. CASE stage = "aborted"
  <2>1. WiresNumbered'
    BY <1>1, <1>7, WiresKept DEF MakingInv
  <2> QED
    BY <1>1, <1>2, <1>7, <2>1 DEF MakingInv, Tested, PinsAndOn, NodePipsAndOn, WirePipsAndOn, ToNodeAndOn
<1>8. stage \in Stages
  BY DEF MakingInv, MakingTyped
<1> QED
  BY <1>4, <1>5, <1>6, <1>7, <1>8 DEF Stages

(* The invariant of the making, for every device and checksum. *)
THEOREM MakingInvariant == MakeSpec => []MakingInv
<1>1. MakeInit => MakingInv
  BY MakeInitInv
<1>2. MakingInv /\ [MakeNext]_making => MakingInv'
  <2> SUFFICES ASSUME MakingInv, [MakeNext]_making PROVE MakingInv'
    OBVIOUS
  <2>1. CASE Make
    BY <2>1, NumberingInv, WireFileInv, NodeListInv, NodeFileInv, WireNodeInv, WireNodesInv,
       WirePipInv, WirePipsInv, NodePipInv, NodePipsInv, PinInv, PinFileInv,
       TestsInv DEF Make
  <2>2. CASE UNCHANGED making
    BY <2>2, MakingStutters
  <2> QED
    BY <2>1, <2>2 DEF MakeNext, MakeEnded
<1> QED
  BY <1>1, <1>2, PTL DEF MakeSpec

(* What has been made. *)
Made == /\ dev \in Devices /\ WiresNumbered /\ NodesWritten /\ NodesSet(NodeCount)
        /\ PipsEntered(Len(DevicePips)) /\ PipsAtNodes(Len(alt_pips)) /\ PinsFound

(* The invariant says at the end that everything has. *)
LEMMA MadeIs ==
  ASSUME MakingInv, stage = "made"
  PROVE  Made
BY DEF MakingInv, MakingTyped, Made, Tested, PinsAndOn, NodePipsAndOn, WirePipsAndOn, ToNodeAndOn

(* The nodes are listed by number, and a wire knows the node that has it. *)
LEMMA NumberIs ==
  ASSUME Made
  PROVE  /\ \A n \in 1..NodeCount : /\ Len(dev.nodes[n]) \in Nat
                                    /\ DOMAIN dev.nodes[n] = 1..Len(dev.nodes[n])
                                    /\ dense_at(alt_nodes, n - 1) = FinalOf(n)
                                    /\ DOMAIN FinalOf(n) = 1..Len(dev.nodes[n])
                                    /\ Len(FinalOf(n)) = Len(dev.nodes[n])
         /\ \A n \in 1..NodeCount : \A k \in 1..Len(dev.nodes[n]) :
              /\ FinalOf(n)[k] = Number(n, k) /\ Number(n, k) \in Numbers
              /\ NodeOf(Number(n, k)) = n - 1
              /\ alt_wires.body[Number(n, k) + 1] = Key(dev.nodes[n][k])
<1>1. \A n \in 1..NodeCount : dev.nodes[n] \in Seq(0..(Len(dev.wires) - 1))
  BY DeviceIs DEF Made
<1>2. ASSUME NEW n \in 1..NodeCount
      PROVE  /\ Len(dev.nodes[n]) \in Nat /\ DOMAIN dev.nodes[n] = 1..Len(dev.nodes[n])
             /\ DOMAIN FinalOf(n) = 1..Len(dev.nodes[n])
             /\ Len(FinalOf(n)) = Len(dev.nodes[n])
             /\ \A k \in 1..Len(dev.nodes[n]) : FinalOf(n)[k] = Number(n, k)
  <2>1. Len(dev.nodes[n]) \in Nat /\ DOMAIN dev.nodes[n] = 1..Len(dev.nodes[n])
    BY <1>1
  <2>2. /\ DOMAIN FinalOf(n) = 1..Len(dev.nodes[n])
        /\ \A k \in 1..Len(dev.nodes[n]) : FinalOf(n)[k] = Number(n, k)
    BY <2>1 DEF FinalOf
  <2> QED
    BY <2>1, <2>2
<1>3. \A n \in 1..NodeCount : dense_at(alt_nodes, n - 1) = FinalOf(n)
  BY DEF Made, NodesWritten
<1>4. \A n \in 1..NodeCount : \A k \in 1..Len(dev.nodes[n]) :
        /\ Number(n, k) \in Numbers
        /\ alt_wires.body[Number(n, k) + 1] = Key(dev.nodes[n][k])
  BY DEF Made, WiresNumbered, NumbersGiven
<1>5. \A n \in 1..NodeCount : \A k \in 1..Len(dev.nodes[n]) : NodeOf(Number(n, k)) = n - 1
  BY DEF Made, NodesSet
<1> QED
  BY <1>2, <1>3, <1>4, <1>5

(* The file of nodes and the node of a wire say the same. *)
LEMMA MadeNumbersAgree ==
  ASSUME Made
  PROVE  /\ dense_size(alt_nodes) = Len(dev.nodes)
         /\ \A w \in 0..(Len(alt_wires.body) - 1) : \A n \in 0..(Len(dev.nodes) - 1) :
              Cardinality({k \in 1..Len(dense_at(alt_nodes, n)) : dense_at(alt_nodes, n)[k] = w})
                = IF NodeOf(w) = n THEN 1 ELSE 0
<1>1. dense_size(alt_nodes) = Len(dev.nodes)
  BY DEF Made, NodesWritten, NodeCount
<1>2. ASSUME NEW w \in Numbers, NEW n \in 0..(NodeCount - 1)
      PROVE  Cardinality({k \in 1..Len(dense_at(alt_nodes, n)) : dense_at(alt_nodes, n)[k] = w})
               = IF NodeOf(w) = n THEN 1 ELSE 0
  <2> DEFINE N == n + 1
             K == {k \in 1..Len(dense_at(alt_nodes, n)) : dense_at(alt_nodes, n)[k] = w}
  <2>0. NodeCount \in Nat
    BY DeviceIs DEF Made
  <2>1. N \in 1..NodeCount /\ N - 1 = n
    BY <2>0
  <2>2. K = {k \in 1..Len(dev.nodes[N]) : Number(N, k) = w}
    <3> HIDE DEF N
    <3>1. dense_at(alt_nodes, n) = FinalOf(N) /\ Len(FinalOf(N)) = Len(dev.nodes[N])
          /\ \A k \in 1..Len(dev.nodes[N]) : FinalOf(N)[k] = Number(N, k)
      BY <2>1, NumberIs
    <3> QED
      BY <3>1
  <2>31. PICK m \in 1..NodeCount : \E j \in 1..Len(dev.nodes[m]) : w = Number(m, j)
    BY DEF Made, WiresNumbered, NumbersUsed
  <2>3. PICK j \in 1..Len(dev.nodes[m]) : w = Number(m, j)
    BY <2>31
  <2>4. NodeOf(w) = m - 1
    BY <2>3, NumberIs
  <2>5. \A k \in 1..Len(dev.nodes[N]) : Number(N, k) = w => N = m /\ k = j
    BY <2>1, <2>3 DEF Made, WiresNumbered, NumbersOnce
  <2> HIDE DEF N, K
  <2>6. CASE N = m
    <3>1. K = {j}
      BY <2>2, <2>3, <2>5, <2>6
    <3>2. Cardinality(K) = 1
      BY <3>1, FS_Singleton
    <3> QED
      BY <2>1, <2>4, <2>6, <3>2 DEF K
  <2>7. CASE N # m
    <3>1. K = {}
      BY <2>2, <2>5, <2>7
    <3>2. Cardinality(K) = 0
      BY <3>1, FS_EmptySet
    <3>3. NodeOf(w) # n
      BY <2>0, <2>1, <2>4, <2>7
    <3> QED
      BY <3>2, <3>3 DEF K
  <2> QED
    BY <2>6, <2>7
<1> QED
  BY <1>1, <1>2 DEF Numbers, WireTotal, NodeCount

(* On a sound device a name is that of one wire of one node. *)
LEMMA NameOfOne ==
  ASSUME dev \in Devices, SoundWires,
         NEW n \in 1..NodeCount, NEW k \in 1..Len(dev.nodes[n]),
         NEW m \in 1..NodeCount, NEW j \in 1..Len(dev.nodes[m]),
         Key(dev.nodes[n][k]) = Key(dev.nodes[m][j])
  PROVE  n = m /\ k = j
<1> DEFINE v == dev.nodes[n][k]
           w == dev.nodes[m][j]
           S == 0..(Len(dev.wires) - 1)
<1>1. dev.wires \in Seq(WireNames) /\ dev.nodes \in Seq(Seq(S))
  BY DeviceFilesAssumption
<1>2. v \in S /\ w \in S
  <2>1. dev.nodes[n] \in Seq(S) /\ dev.nodes[m] \in Seq(S)
    BY DeviceIs
  <2> HIDE DEF S
  <2> QED
    BY <2>1
<1>3. v = w
  <2> HIDE DEF v, w
  <2>1. v + 1 \in DOMAIN dev.wires /\ w + 1 \in DOMAIN dev.wires
    <3>2. DOMAIN dev.wires = 1..Len(dev.wires) /\ Len(dev.wires) \in Nat
      BY <1>1, SMTT(60)
    <3>1. v \in Nat /\ w \in Nat /\ v < Len(dev.wires) /\ w < Len(dev.wires)
      BY <1>2, <3>2
    <3> QED
      BY <3>1, <3>2
  <2>2. dev.wires[v + 1] \in WireNames /\ dev.wires[w + 1] \in WireNames
    BY <1>1, <2>1
  <2>3. /\ dev.wires[v + 1].wire = dev.wires[w + 1].wire
        /\ dev.wires[v + 1].tile = dev.wires[w + 1].tile
    <3>1. Key(v) = Key(w)
      BY DEF v, w
    <3> QED
      BY <3>1 DEF Key
  <2>4. dev.wires[v + 1] = dev.wires[w + 1]
    BY <2>2, <2>3 DEF WireNames
  <2>5. v + 1 = w + 1
    BY <2>1, <2>4 DEF SoundWires, IsInjective
  <2> QED
    BY <1>2, <2>5
<1> DEFINE F == FlattenSeq(dev.nodes)
           a == Offsets(dev.nodes)[n] + k
           b == Offsets(dev.nodes)[m] + j
<1>4. a \in 1..Len(F) /\ F[a] = v
  <2> HIDE DEF S
  <2> QED
    BY <1>1, PlaceInside DEF NodeCount
<1>5. b \in 1..Len(F) /\ F[b] = w
  <2> HIDE DEF S
  <2> QED
    BY <1>1, PlaceInside DEF NodeCount
<1>6. DOMAIN F = 1..Len(F)
  <2> HIDE DEF S
  <2>1. F \in Seq(S)
    BY <1>1, Flattened
  <2> QED
    BY <2>1
<1>7. a = b
  <2>1. IsInjective(F)
    BY DEF SoundWires
  <2> HIDE DEF F, a, b, v, w
  <2> QED
    BY <1>3, <1>4, <1>5, <1>6, <2>1 DEF IsInjective
<1> HIDE DEF S
<1> QED
  BY <1>1, <1>7, PlaceOnce DEF NodeCount

(* What the search for a wire finds is the wire of the node that has one of the name. *)
LEMMA NodesOfFound ==
  ASSUME Made, SoundWires, NEW tile \in Strings, NEW wire \in Strings
  PROVE  \/ find_wire(tile, wire) = NotFound /\ NodesOf(tile, wire) = {}
         \/ /\ find_wire(tile, wire) \in Numbers
            /\ NodesOf(tile, wire) = {NodeOf(find_wire(tile, wire))}
            /\ NodeOf(find_wire(tile, wire)) \in 0..(NodeCount - 1)
<1> DEFINE w == find_wire(tile, wire)
           name == [tile |-> tile, wire |-> wire]
<1>0. /\ dev \in Devices /\ NodeCount \in Nat
      /\ \A n \in 1..NodeCount : dev.nodes[n] \in Seq(0..(Len(dev.wires) - 1))
  BY DeviceIs DEF Made
<1>1. \/ w \in Numbers /\ alt_wires.body[w + 1] = <<wire, tile>>
      \/ w = NotFound /\ \A x \in 1..WireTotal : alt_wires.body[x] # <<wire, tile>>
  BY DEF Made, WiresNumbered, WiresFound, WireFound
<1>2. ASSUME NEW n \in NodesOf(tile, wire)
      PROVE  /\ n + 1 \in 1..NodeCount /\ n \in 0..(NodeCount - 1)
             /\ \E k \in 1..Len(dev.nodes[n + 1]) : Key(dev.nodes[n + 1][k]) = <<wire, tile>>
  <2>1. n \in 0..(NodeCount - 1)
    BY DEF NodesOf, NodeCount
  <2>2. n + 1 \in 1..NodeCount
    BY <1>0, <2>1
  <2>3. PICK v \in ToSet(dev.nodes[n + 1]) : dev.wires[v + 1] = name
    BY DEF NodesOf
  <2>4. PICK k \in 1..Len(dev.nodes[n + 1]) : v = dev.nodes[n + 1][k]
    <3>1. dev.nodes[n + 1] \in Seq(0..(Len(dev.wires) - 1))
      BY <1>0, <2>2
    <3> QED
      BY <3>1 DEF ToSet
  <2>5. Key(v) = <<wire, tile>>
    BY <2>3 DEF Key
  <2> QED
    BY <2>1, <2>2, <2>4, <2>5
<1>3. ASSUME NEW n \in 1..NodeCount, NEW k \in 1..Len(dev.nodes[n]),
             Key(dev.nodes[n][k]) = <<wire, tile>>
      PROVE  n - 1 \in NodesOf(tile, wire)
  <2> DEFINE v == dev.nodes[n][k]
  <2>1. v \in 0..(Len(dev.wires) - 1) /\ v \in ToSet(dev.nodes[n])
    <3>1. dev.nodes[n] \in Seq(0..(Len(dev.wires) - 1))
      BY <1>0
    <3> QED
      BY <3>1 DEF ToSet
  <2>2. v + 1 \in DOMAIN dev.wires /\ dev.wires \in Seq(WireNames)
    <3>1. dev.wires \in Seq(WireNames)
      BY <1>0, DeviceFilesAssumption
    <3> HIDE DEF v
    <3> QED
      BY <2>1, <3>1
  <2>3. dev.wires[v + 1] \in WireNames /\ dev.wires[v + 1].tile = tile /\ dev.wires[v + 1].wire = wire
    <3>1. Key(v) = <<wire, tile>>
      BY <1>3
    <3> HIDE DEF v
    <3> QED
      BY <2>2, <3>1 DEF Key
  <2>4. dev.wires[v + 1] = name
    <3> HIDE DEF v
    <3> QED
      BY <2>3 DEF WireNames
  <2>5. n - 1 \in 0..(NodeCount - 1) /\ (n - 1) + 1 = n
    BY <1>0
  <2> QED
    BY <2>1, <2>4, <2>5 DEF NodesOf, NodeCount
<1> HIDE DEF w
<1>4. CASE w = NotFound /\ \A x \in 1..WireTotal : alt_wires.body[x] # <<wire, tile>>
  <2>1. ASSUME NEW n \in NodesOf(tile, wire) PROVE FALSE
    <3>1. n + 1 \in 1..NodeCount
      BY <1>2
    <3>2. PICK k \in 1..Len(dev.nodes[n + 1]) : Key(dev.nodes[n + 1][k]) = <<wire, tile>>
      BY <1>2
    <3>3. /\ Number(n + 1, k) \in Numbers
          /\ alt_wires.body[Number(n + 1, k) + 1] = <<wire, tile>>
      BY <3>1, <3>2, NumberIs
    <3>4. Number(n + 1, k) + 1 \in 1..WireTotal
      <4>1. alt_wires.body \in Seq(Names)
        BY DEF Made, WiresNumbered, NumbersGiven
      <4>2. WireTotal \in Nat
        BY <4>1 DEF WireTotal
      <4> QED
        BY <3>3, <4>2 DEF Numbers
    <3> QED
      BY <1>4, <3>3, <3>4
  <2> QED
    BY <1>4, <2>1 DEF w
<1>5. CASE w \in Numbers /\ alt_wires.body[w + 1] = <<wire, tile>>
  <2>1. PICK n \in 1..NodeCount : \E k \in 1..Len(dev.nodes[n]) : w = Number(n, k)
    BY <1>5 DEF Made, WiresNumbered, NumbersUsed
  <2>2. PICK k \in 1..Len(dev.nodes[n]) : w = Number(n, k)
    BY <2>1
  <2>3. NodeOf(w) = n - 1 /\ Key(dev.nodes[n][k]) = <<wire, tile>>
    BY <1>5, <2>2, NumberIs
  <2>4. n - 1 \in NodesOf(tile, wire) /\ n - 1 \in 0..(NodeCount - 1)
    BY <1>0, <1>3, <2>3
  <2>5. ASSUME NEW m \in NodesOf(tile, wire) PROVE m = n - 1
    <3>1. m + 1 \in 1..NodeCount /\ m \in 0..(NodeCount - 1)
      BY <1>2
    <3>2. PICK j \in 1..Len(dev.nodes[m + 1]) : Key(dev.nodes[m + 1][j]) = <<wire, tile>>
      BY <1>2
    <3>3. m + 1 = n
      BY <1>0, <2>3, <3>1, <3>2, NameOfOne
    <3> QED
      BY <3>1, <3>3
  <2>6. NodesOf(tile, wire) = {NodeOf(w)}
    BY <2>3, <2>4, <2>5
  <2> QED
    BY <1>5, <2>3, <2>4, <2>6 DEF w
<1> QED
  BY <1>1, <1>4, <1>5

(* Wires and pins lead to the nodes of the device. *)
LEMMA MadeNamesFound ==
  ASSUME Made
  PROVE  NamesFound
<1> SUFFICES ASSUME SoundWires
             PROVE  /\ \A name \in ToSet(dev.wires) :
                         {NodeOf(v) : v \in {find_wire(name.tile, name.wire)} \ {NotFound}}
                           = NodesOf(name.tile, name.wire)
                    /\ SoundPins => \A pin \in ToSet(SitePins) :
                         /\ find_site_pin_wire(pin.site, pin.pin) = find_wire(pin.tile, pin.wire)
                         /\ {find_site_pin_node(pin.site, pin.pin)} \ {NotFound}
                              = NodesOf(pin.tile, pin.wire)
  BY DEF NamesFound
<1>0. dev \in Devices
  BY DEF Made
<1>1. ASSUME NEW w \in Numbers PROVE w # NotFound
  BY DEF Numbers, NotFound
<1>2. ASSUME NEW name \in ToSet(dev.wires)
      PROVE  {NodeOf(v) : v \in {find_wire(name.tile, name.wire)} \ {NotFound}}
               = NodesOf(name.tile, name.wire)
  <2> DEFINE w == find_wire(name.tile, name.wire)
             some == NodesOf(name.tile, name.wire)
  <2>1. name.tile \in Strings /\ name.wire \in Strings
    <3>1. dev.wires \in Seq(WireNames)
      BY <1>0, DeviceFilesAssumption
    <3>2. name \in WireNames
      BY <3>1 DEF ToSet
    <3> QED
      BY <3>2 DEF WireNames
  <2>2. \/ w = NotFound /\ some = {}
        \/ w \in Numbers /\ some = {NodeOf(w)}
    BY <2>1, NodesOfFound
  <2> HIDE DEF w, some
  <2>3. {NodeOf(v) : v \in {w} \ {NotFound}} = some
    BY <1>1, <2>2
  <2> QED
    BY <2>3 DEF w, some
<1>3. ASSUME SoundPins, NEW pin \in ToSet(SitePins)
      PROVE  /\ find_site_pin_wire(pin.site, pin.pin) = find_wire(pin.tile, pin.wire)
             /\ {find_site_pin_node(pin.site, pin.pin)} \ {NotFound} = NodesOf(pin.tile, pin.wire)
  <2> DEFINE w == find_wire(pin.tile, pin.wire)
             i == find_site_pin(pin.site, pin.pin)
             some == NodesOf(pin.tile, pin.wire)
  <2>1. SitePins \in Seq(PinNames)
    BY <1>0, SitePinsAre
  <2>2. PICK p \in 1..Len(SitePins) : pin = SitePins[p]
    BY <2>1 DEF ToSet
  <2>3. pin.site \in Strings /\ pin.pin \in Strings /\ pin.tile \in Strings /\ pin.wire \in Strings
    <3>1. pin \in PinNames
      BY <2>1, <2>2
    <3> QED
      BY <3>1 DEF PinNames
  <2>4. \/ w = NotFound /\ some = {}
        \/ w \in Numbers /\ some = {NodeOf(w)} /\ NodeOf(w) \in 0..(NodeCount - 1)
    BY <2>3, NodesOfFound
  <2>5. \/ i = NotFound /\ PinsOf(pin.site, pin.pin) = {}
        \/ /\ i \in Nat
           /\ \E j \in PinsOf(pin.site, pin.pin) : alt_site_pins.body[i + 1] = PinEntry(SitePins[j])
    BY <2>3 DEF Made, PinsFound
  <2>6. /\ find_site_pin_wire(pin.site, pin.pin)
             = IF i = NotFound THEN NotFound ELSE alt_site_pins.body[i + 1].wire
        /\ find_site_pin_node(pin.site, pin.pin)
             = IF i = NotFound THEN NotFound ELSE alt_site_pins.body[i + 1].node
    BY DEF find_site_pin_wire, find_site_pin_node
  <2>7. CASE i = NotFound /\ PinsOf(pin.site, pin.pin) = {}
    <3>1. w = NotFound
      <4>1. p \notin PinsOf(pin.site, pin.pin)
        BY <2>7
      <4>2. ~PinFound(pin)
        BY <2>2, <4>1 DEF PinsOf
      <4> QED
        BY <4>2 DEF PinFound
    <3>2. some = {}
      BY <1>1, <2>4, <3>1
    <3> HIDE DEF i, w, some
    <3>3. find_site_pin_wire(pin.site, pin.pin) = w
      BY <2>6, <2>7, <3>1
    <3>4. {find_site_pin_node(pin.site, pin.pin)} \ {NotFound} = some
      BY <2>6, <2>7, <3>2
    <3> QED
      BY <3>3, <3>4 DEF w, some
  <2>8. CASE i \in Nat /\ \E j \in PinsOf(pin.site, pin.pin) :
                            alt_site_pins.body[i + 1] = PinEntry(SitePins[j])
    <3>1. PICK j \in PinsOf(pin.site, pin.pin) : alt_site_pins.body[i + 1] = PinEntry(SitePins[j])
      BY <2>8
    <3>2. SitePins[j] = pin /\ PinFound(pin)
      <4>1. /\ j \in 1..Len(SitePins) /\ PinFound(SitePins[j])
            /\ SitePins[j].site = SitePins[p].site /\ SitePins[j].pin = SitePins[p].pin
        BY <2>2 DEF PinsOf
      <4>2. j \in DOMAIN SitePins /\ p \in DOMAIN SitePins
        BY <2>1, <4>1
      <4>3. j = p
        BY <1>3, <4>1, <4>2 DEF SoundPins
      <4> QED
        BY <2>2, <4>1, <4>3
    <3>3. w # NotFound
      BY <3>2 DEF PinFound
    <3>4. alt_site_pins.body[i + 1].wire = w /\ alt_site_pins.body[i + 1].node = NodeOf(w)
      BY <3>1, <3>2 DEF PinEntry
    <3>5. i # NotFound
      BY <2>8 DEF NotFound
    <3> HIDE DEF i, w, some
    <3>6. some = {NodeOf(w)} /\ NodeOf(w) # NotFound
      BY <2>4, <3>3 DEF NotFound
    <3>7. find_site_pin_wire(pin.site, pin.pin) = w
      BY <2>6, <3>4, <3>5
    <3>8. {find_site_pin_node(pin.site, pin.pin)} \ {NotFound} = some
      BY <2>6, <3>4, <3>5, <3>6
    <3> QED
      BY <3>7, <3>8 DEF w, some
  <2> QED
    BY <2>5, <2>7, <2>8
<1> QED
  BY <1>2, <1>3

(* A way leaves its wire, which is one of a node. *)
LEMMA WayIs ==
  ASSUME Made, NEW way \in Ways
  PROVE  /\ way \in Nat \X BOOLEAN /\ way[1] < Len(alt_pips)
         /\ alt_pips[way[1] + 1] \in ToSet(alt_pips)
         /\ way[2] = TRUE \/ (way[2] = FALSE /\ ~alt_pips[way[1] + 1].directional)
         /\ WireFrom(way) \in Numbers
         /\ \E n \in 1..NodeCount : \E k \in 1..Len(dev.nodes[n]) :
              WireFrom(way) = Number(n, k) /\ NodeOf(WireFrom(way)) = n - 1
<1> DEFINE entry == alt_pips[way[1] + 1]
<1>1. alt_pips \in Seq([wire0 : Numbers, wire1 : Numbers, directional : BOOLEAN])
  BY DEF Made, PipsEntered
<1>2. /\ way \in (0..(Len(alt_pips) - 1)) \X BOOLEAN
      /\ way[2] \/ ~entry.directional
  BY DEF Ways
<1>3. way[1] \in 0..(Len(alt_pips) - 1) /\ way[2] \in BOOLEAN
  BY <1>2
<1>4. way[1] + 1 \in 1..Len(alt_pips) /\ way[1] \in Nat /\ way[1] < Len(alt_pips)
  BY <1>1, <1>3
<1>5. way \in Nat \X BOOLEAN
  BY <1>2, <1>4
<1>6. entry \in ToSet(alt_pips) /\ entry \in [wire0 : Numbers, wire1 : Numbers, directional : BOOLEAN]
  BY <1>1, <1>4, EntryIn
<1>7. WireFrom(way) \in Numbers
  BY <1>3, <1>6 DEF WireFrom
<1>81. PICK n \in 1..NodeCount : \E k \in 1..Len(dev.nodes[n]) : WireFrom(way) = Number(n, k)
  BY <1>7 DEF Made, WiresNumbered, NumbersUsed
<1>8. PICK k \in 1..Len(dev.nodes[n]) : WireFrom(way) = Number(n, k)
  BY <1>81
<1>9. NodeOf(WireFrom(way)) = n - 1
  BY <1>8, NumberIs
<1>10. way[2] = TRUE \/ (way[2] = FALSE /\ ~entry.directional)
  <2>1. way[2] = TRUE \/ way[2] = FALSE
    BY <1>3
  <2>2. CASE way[2] = FALSE
    <3>1. ~entry.directional
      BY <1>2, <2>2, Zenon
    <3> QED
      BY <2>2, <3>1, Zenon
  <2>3. CASE way[2] = TRUE
    BY <2>3, Zenon
  <2> QED
    BY <2>1, <2>2, <2>3, Zenon
<1> QED
  BY <1>4, <1>5, <1>6, <1>7, <1>8, <1>9, <1>10

(* By wires and by pips, the same leaves a node. *)
LEMMA MadePipsAtBothEnds ==
  ASSUME Made
  PROVE  PipsAtBothEnds
<1> SUFFICES ASSUME NEW n \in 0..(NodeCount - 1)
             PROVE  LET byWire == FlattenSeq([k \in DOMAIN dense_at(alt_nodes, n) |->
                                               wire_to_pips[dense_at(alt_nodes, n)[k] + 1]])
                    IN /\ ToSet(byWire) = ToSet(node_to_pips[n + 1])
                       /\ IsInjective(byWire) /\ IsInjective(node_to_pips[n + 1])
  BY DEF PipsAtBothEnds, NodeCount
<1> DEFINE N == n + 1
           L == Len(dev.nodes[N])
           seqs == [k \in DOMAIN dense_at(alt_nodes, n) |-> wire_to_pips[dense_at(alt_nodes, n)[k] + 1]]
<1>0. NodeCount \in Nat
  BY DeviceIs DEF Made
<1>1. N \in 1..NodeCount /\ N - 1 = n
  BY <1>0
<1>2. L \in Nat /\ seqs = [k \in 1..L |-> wire_to_pips[Number(N, k) + 1]]
  <2> HIDE DEF N
  <2>1. /\ dense_at(alt_nodes, n) = FinalOf(N) /\ DOMAIN FinalOf(N) = 1..L
        /\ L \in Nat /\ \A k \in 1..L : FinalOf(N)[k] = Number(N, k)
    BY <1>1, NumberIs
  <2> QED
    BY <2>1
<1>3. /\ wire_to_pips \in [1..WireTotal -> Seq(Nat \X BOOLEAN)]
      /\ \A w \in 1..WireTotal : Lists(wire_to_pips[w], {way \in Ways : WireFrom(way) = w - 1})
  BY DEF Made, PipsEntered
<1>4. Lists(node_to_pips[N], {way \in Ways : way[1] < Len(alt_pips) /\ NodeOf(WireFrom(way)) = N - 1})
  <2> HIDE DEF N
  <2> QED
    BY <1>1 DEF Made, PipsAtNodes
<1> HIDE DEF N
<1>5. ASSUME NEW k \in 1..L
      PROVE  /\ Number(N, k) \in Nat
             /\ wire_to_pips[Number(N, k) + 1] \in Seq(Nat \X BOOLEAN)
             /\ IsInjective(wire_to_pips[Number(N, k) + 1])
             /\ ToSet(wire_to_pips[Number(N, k) + 1]) = {way \in Ways : WireFrom(way) = Number(N, k)}
  <2> DEFINE w == Number(N, k) + 1
  <2>1. Number(N, k) \in Numbers
    BY <1>1, NumberIs
  <2>2. Number(N, k) \in Nat /\ w \in 1..WireTotal /\ w - 1 = Number(N, k)
    <3>1. alt_wires.body \in Seq(Names)
      BY DEF Made, WiresNumbered, NumbersGiven
    <3>2. WireTotal \in Nat
      BY <3>1 DEF WireTotal
    <3> QED
      BY <2>1, <3>2 DEF Numbers
  <2> HIDE DEF w
  <2>3. Lists(wire_to_pips[w], {way \in Ways : WireFrom(way) = w - 1})
    BY <1>3, <2>2
  <2>4. wire_to_pips[w] \in Seq(Nat \X BOOLEAN)
    BY <1>3, <2>2
  <2> QED
    BY <2>2, <2>3, <2>4 DEF Lists, w
<1> HIDE DEF L
<1>6. /\ seqs \in Seq(Seq(Nat \X BOOLEAN)) /\ Len(seqs) = L
      /\ \A k \in 1..L : seqs[k] = wire_to_pips[Number(N, k) + 1]
  <2> DEFINE s == seqs
  <2>1. s \in [1..L -> Seq(Nat \X BOOLEAN)] /\ \A k \in 1..L : s[k] = wire_to_pips[Number(N, k) + 1]
    BY <1>2, <1>5
  <2> HIDE DEF s
  <2>2. s \in Seq(Seq(Nat \X BOOLEAN)) /\ Len(s) = L
    BY <1>2, <2>1
  <2> QED
    BY <2>1, <2>2 DEF s
<1> HIDE DEF seqs
<1> DEFINE byWire == FlattenSeq(seqs)
<1>7. ToSet(byWire) = UNION {ToSet(seqs[k]) : k \in 1..L}
  BY <1>6, FlattenedRange
<1>8. IsInjective(byWire)
  <2>1. \A k \in 1..Len(seqs) : IsInjective(seqs[k])
    BY <1>5, <1>6
  <2>2. ASSUME NEW k \in 1..Len(seqs), NEW j \in 1..Len(seqs), k # j
        PROVE  ToSet(seqs[k]) \cap ToSet(seqs[j]) = {}
    <3>1. Number(N, k) # Number(N, j)
      BY <1>1, <1>6, <2>2 DEF Made, WiresNumbered, NumbersOnce, L
    <3>2. /\ ToSet(seqs[k]) = {way \in Ways : WireFrom(way) = Number(N, k)}
          /\ ToSet(seqs[j]) = {way \in Ways : WireFrom(way) = Number(N, j)}
      BY <1>5, <1>6
    <3> QED
      BY <3>1, <3>2
  <2> QED
    BY <1>6, <2>1, <2>2, FlattenedInjective
<1>9. ASSUME NEW way
      PROVE  way \in ToSet(byWire) <=> way \in ToSet(node_to_pips[N])
  <2>1. way \in ToSet(byWire) <=> \E k \in 1..L : way \in Ways /\ WireFrom(way) = Number(N, k)
    <3>1. \A k \in 1..L : ToSet(seqs[k]) = {x \in Ways : WireFrom(x) = Number(N, k)}
      BY <1>5, <1>6
    <3> HIDE DEF byWire
    <3> QED
      BY <1>7, <3>1
  <2>2. way \in ToSet(node_to_pips[N])
          <=> way \in Ways /\ way[1] < Len(alt_pips) /\ NodeOf(WireFrom(way)) = N - 1
    BY <1>4 DEF Lists
  <2>3. ASSUME NEW k \in 1..L, way \in Ways, WireFrom(way) = Number(N, k)
        PROVE  way[1] < Len(alt_pips) /\ NodeOf(WireFrom(way)) = N - 1
    <3>1. NodeOf(Number(N, k)) = N - 1
      BY <1>1, NumberIs DEF L
    <3>2. way[1] < Len(alt_pips)
      BY <2>3, WayIs
    <3> QED
      BY <2>3, <3>1, <3>2
  <2>4. ASSUME way \in Ways, NodeOf(WireFrom(way)) = N - 1
        PROVE  \E k \in 1..L : WireFrom(way) = Number(N, k)
    <3>1. PICK m \in 1..NodeCount : \E k \in 1..Len(dev.nodes[m]) :
                 WireFrom(way) = Number(m, k) /\ NodeOf(WireFrom(way)) = m - 1
      BY <2>4, WayIs
    <3>2. PICK k \in 1..Len(dev.nodes[m]) :
                 WireFrom(way) = Number(m, k) /\ NodeOf(WireFrom(way)) = m - 1
      BY <3>1
    <3>3. m = N
      BY <1>0, <1>1, <2>4, <3>2
    <3> QED
      BY <3>2, <3>3 DEF L
  <2> HIDE DEF byWire
  <2> QED
    BY <2>1, <2>2, <2>3, <2>4
<1>10. IsInjective(node_to_pips[N])
  BY <1>4 DEF Lists
<1>11. ToSet(byWire) = ToSet(node_to_pips[N])
  <2> HIDE DEF byWire
  <2> QED
    BY <1>9
<1> QED
  BY <1>8, <1>10, <1>11 DEF N, seqs

(* Where a way leads. *)
ArcOf(way) == <<get_pip_node_in(way), get_pip_node_out(way)>>

(* The nodes list each way, and nothing else. *)
LEMMA TakenAre ==
  ASSUME Made
  PROVE  UNION {{ArcOf(p) : p \in ToSet(node_to_pips[n])} : n \in DOMAIN node_to_pips}
           = {ArcOf(way) : way \in Ways}
<1>1. DOMAIN node_to_pips = 1..NodeCount /\ NodeCount \in Nat
  BY DeviceIs DEF Made, PipsAtNodes
<1>2. \A n \in 1..NodeCount :
        ToSet(node_to_pips[n]) = {way \in Ways : way[1] < Len(alt_pips) /\ NodeOf(WireFrom(way)) = n - 1}
  BY DEF Made, PipsAtNodes, Lists
<1>3. ASSUME NEW way \in Ways PROVE \E n \in 1..NodeCount : way \in ToSet(node_to_pips[n])
  <2>1. way[1] < Len(alt_pips)
    BY WayIs
  <2>2. PICK n \in 1..NodeCount : NodeOf(WireFrom(way)) = n - 1
    BY WayIs
  <2> QED
    BY <1>2, <2>1, <2>2
<1>4. \A n \in 1..NodeCount : ToSet(node_to_pips[n]) \subseteq Ways
  BY <1>2
<1> QED
  BY <1>1, <1>3, <1>4

(* The entry of a pip of the device, and the nodes of its wires. *)
LEMMA EntryNodes ==
  ASSUME Made, SoundWires, NEW pip \in ToSet(DevicePips)
  PROVE  \/ /\ find_wire(pip.tile, pip.wire0) # NotFound
            /\ find_wire(pip.tile, pip.wire1) # NotFound
            /\ NodesOf(pip.tile, pip.wire0) = {NodeOf(EntryOf(pip).wire0)}
            /\ NodesOf(pip.tile, pip.wire1) = {NodeOf(EntryOf(pip).wire1)}
            /\ EntryOf(pip).directional = pip.directional
         \/ /\ ~Entered(pip)
            /\ NodesOf(pip.tile, pip.wire0) = {} \/ NodesOf(pip.tile, pip.wire1) = {}
<1>1. pip.tile \in Strings /\ pip.wire0 \in Strings /\ pip.wire1 \in Strings
  <2>1. DevicePips \in Seq(PipNames)
    BY DevicePipsAre DEF Made
  <2>2. pip \in PipNames
    BY <2>1 DEF ToSet
  <2> QED
    BY <2>2 DEF PipNames
<1>2. /\ EntryOf(pip).wire0 = find_wire(pip.tile, pip.wire0)
      /\ EntryOf(pip).wire1 = find_wire(pip.tile, pip.wire1)
      /\ EntryOf(pip).directional = pip.directional
  BY DEF EntryOf
<1>3. \A w \in Numbers : w # NotFound
  BY DEF Numbers, NotFound
<1>4. \/ find_wire(pip.tile, pip.wire0) = NotFound /\ NodesOf(pip.tile, pip.wire0) = {}
      \/ /\ find_wire(pip.tile, pip.wire0) # NotFound
         /\ NodesOf(pip.tile, pip.wire0) = {NodeOf(find_wire(pip.tile, pip.wire0))}
  BY <1>1, <1>3, NodesOfFound
<1>5. \/ find_wire(pip.tile, pip.wire1) = NotFound /\ NodesOf(pip.tile, pip.wire1) = {}
      \/ /\ find_wire(pip.tile, pip.wire1) # NotFound
         /\ NodesOf(pip.tile, pip.wire1) = {NodeOf(find_wire(pip.tile, pip.wire1))}
  BY <1>1, <1>3, NodesOfFound
<1> QED
  BY <1>2, <1>4, <1>5 DEF Entered

(* The entries are those of the device's pips that have both wires. *)
LEMMA EntriesAre ==
  ASSUME Made
  PROVE  ToSet(alt_pips) = {EntryOf(pip) : pip \in {q \in ToSet(DevicePips) : Entered(q)}}
<1>1. ToSet(alt_pips) = {EntryOf(DevicePips[i]) : i \in {j \in 1..Len(DevicePips) : Entered(DevicePips[j])}}
  BY DEF Made, PipsEntered
<1>2. DOMAIN DevicePips = 1..Len(DevicePips)
  <2>1. DevicePips \in Seq(PipNames)
    BY DevicePipsAre DEF Made
  <2> QED
    BY <2>1
<1> QED
  BY <1>1, <1>2 DEF ToSet

(* The ways to take the pips of an entry, as arcs. *)
LEMMA WaysOfEntries ==
  ASSUME Made
  PROVE  {ArcOf(way) : way \in Ways}
           = UNION {{<<NodeOf(e.wire0), NodeOf(e.wire1)>>}
                      \cup (IF e.directional THEN {} ELSE {<<NodeOf(e.wire1), NodeOf(e.wire0)>>})
                     : e \in ToSet(alt_pips)}
<1> DEFINE Some(e) == {<<NodeOf(e.wire0), NodeOf(e.wire1)>>}
                        \cup (IF e.directional THEN {} ELSE {<<NodeOf(e.wire1), NodeOf(e.wire0)>>})
<1>1. ASSUME NEW way \in Ways PROVE \E e \in ToSet(alt_pips) : ArcOf(way) \in Some(e)
  <2> DEFINE e == alt_pips[way[1] + 1]
  <2>1. e \in ToSet(alt_pips) /\ (way[2] = TRUE \/ (way[2] = FALSE /\ ~e.directional))
    BY WayIs
  <2>2. ArcOf(way) = IF way[2] THEN <<NodeOf(e.wire0), NodeOf(e.wire1)>>
                               ELSE <<NodeOf(e.wire1), NodeOf(e.wire0)>>
    <3>1. get_pip_node_in(way) = NodeOf(IF way[2] THEN e.wire0 ELSE e.wire1)
          /\ get_pip_node_out(way) = NodeOf(IF way[2] THEN e.wire1 ELSE e.wire0)
      BY DEF get_pip_node_in, get_pip_node_out
    <3> HIDE DEF e
    <3> QED
      BY <2>1, <3>1 DEF ArcOf
  <2> HIDE DEF e
  <2>3. ArcOf(way) \in Some(e)
    BY <2>1, <2>2
  <2> QED
    BY <2>1, <2>3
<1>2. ASSUME NEW e \in ToSet(alt_pips), NEW arc \in Some(e) PROVE \E way \in Ways : arc = ArcOf(way)
  <2>0. alt_pips \in Seq([wire0 : Numbers, wire1 : Numbers, directional : BOOLEAN])
    BY DEF Made, PipsEntered
  <2>1. PICK i \in 1..Len(alt_pips) : e = alt_pips[i]
    BY <2>0 DEF ToSet
  <2>2. i - 1 \in 0..(Len(alt_pips) - 1) /\ (i - 1) + 1 = i
    BY <2>0
  <2>3. CASE arc = <<NodeOf(e.wire0), NodeOf(e.wire1)>>
    <3> DEFINE way == <<i - 1, TRUE>>
    <3>1. way \in Ways
      BY <2>2 DEF Ways
    <3>2. ArcOf(way) = arc
      BY <2>1, <2>2, <2>3 DEF ArcOf, get_pip_node_in, get_pip_node_out
    <3> QED
      BY <3>1, <3>2
  <2>4. CASE ~e.directional /\ arc = <<NodeOf(e.wire1), NodeOf(e.wire0)>>
    <3> DEFINE way == <<i - 1, FALSE>>
    <3>1. way \in Ways
      BY <2>1, <2>2, <2>4 DEF Ways
    <3>2. ArcOf(way) = arc
      BY <2>1, <2>2, <2>4 DEF ArcOf, get_pip_node_in, get_pip_node_out
    <3> QED
      BY <3>1, <3>2
  <2> QED
    BY <2>3, <2>4
<1> HIDE DEF Some
<1>3. {ArcOf(way) : way \in Ways} = UNION {Some(e) : e \in ToSet(alt_pips)}
  BY <1>1, <1>2
<1> QED
  BY <1>3 DEF Some

(* The pips of the nodes lead where those of the device do. *)
LEMMA MadeArcs ==
  ASSUME Made
  PROVE  ArcsAsInDevice
<1> DEFINE arcs(pip) == (NodesOf(pip.tile, pip.wire0) \X NodesOf(pip.tile, pip.wire1))
                          \cup (IF pip.directional THEN {}
                                ELSE NodesOf(pip.tile, pip.wire1) \X NodesOf(pip.tile, pip.wire0))
           taken(n) == {<<get_pip_node_in(p), get_pip_node_out(p)>> : p \in ToSet(node_to_pips[n])}
           Some(e) == {<<NodeOf(e.wire0), NodeOf(e.wire1)>>}
                        \cup (IF e.directional THEN {} ELSE {<<NodeOf(e.wire1), NodeOf(e.wire0)>>})
           Plain == {q \in ToSet(DevicePips) : ~q.pseudo}
           Both == {q \in ToSet(DevicePips) : Entered(q)}
<1> SUFFICES ASSUME SoundWires
             PROVE  UNION {taken(n) : n \in DOMAIN node_to_pips} = UNION {arcs(pip) : pip \in Plain}
  BY DEF ArcsAsInDevice
<1>1. UNION {taken(n) : n \in DOMAIN node_to_pips} = UNION {Some(e) : e \in ToSet(alt_pips)}
  BY TakenAre, WaysOfEntries DEF ArcOf
<1>2. ToSet(alt_pips) = {EntryOf(pip) : pip \in Both}
  BY EntriesAre
<1>3. ASSUME NEW pip \in Both PROVE pip \in Plain /\ arcs(pip) = Some(EntryOf(pip))
  <2>1. /\ NodesOf(pip.tile, pip.wire0) = {NodeOf(EntryOf(pip).wire0)}
        /\ NodesOf(pip.tile, pip.wire1) = {NodeOf(EntryOf(pip).wire1)}
        /\ EntryOf(pip).directional = pip.directional
    BY EntryNodes
  <2>2. pip \in Plain
    BY DEF Entered
  <2> QED
    BY <2>1, <2>2
<1>4. ASSUME NEW pip \in Plain, pip \notin Both PROVE arcs(pip) = {}
  <2>1. NodesOf(pip.tile, pip.wire0) = {} \/ NodesOf(pip.tile, pip.wire1) = {}
    BY <1>4, EntryNodes DEF Entered
  <2> QED
    BY <2>1
<1> HIDE DEF arcs, Some, taken, Plain, Both
<1>5. UNION {Some(e) : e \in ToSet(alt_pips)} = UNION {Some(EntryOf(pip)) : pip \in Both}
  BY <1>2
<1>6. UNION {arcs(pip) : pip \in Plain} = UNION {Some(EntryOf(pip)) : pip \in Both}
  BY <1>3, <1>4
<1> QED
  BY <1>1, <1>5, <1>6

(* Names lead to the numbers and nodes of the device. *)
THEOREM MakeNames == MakeSpec => []NamesResolve
<1>1. ASSUME MakingInv PROVE NamesResolve
  <2>1. AbortsIfNothing
    BY <1>1 DEF MakingInv
  <2>2. stage = "made" => Made
    BY <1>1, MadeIs
  <2>3. NumbersAgree
    BY <2>2, MadeNumbersAgree DEF NumbersAgree
  <2>4. NamesFound
    <3>1. CASE stage = "made"
      BY <2>2, <3>1, MadeNamesFound
    <3>2. CASE stage # "made"
      BY <3>2 DEF NamesFound
    <3> QED
      BY <3>1, <3>2
  <2> QED
    BY <2>1, <2>3, <2>4 DEF NamesResolve
<1> QED
  BY <1>1, MakingInvariant, PTL

(* The pips of the nodes are those of the device. *)
THEOREM MakePips == MakeSpec => []PipsLeadAsInDevice
<1>1. ASSUME MakingInv PROVE PipsLeadAsInDevice
  <2>1. CASE stage = "made"
    BY <1>1, <2>1, MadeIs, MadePipsAtBothEnds, MadeArcs DEF PipsLeadAsInDevice
  <2>2. CASE stage # "made"
    BY <2>2 DEF PipsLeadAsInDevice, PipsAtBothEnds, ArcsAsInDevice
  <2> QED
    BY <2>1, <2>2
<1> QED
  BY <1>1, MakingInvariant, PTL
=============================================================================
