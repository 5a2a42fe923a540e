----------------------------- MODULE RoutePhys -----------------------------
(***************************************************************************)
(* The sequential router: Route_Phys::route (src/Route_Phys.h), with its   *)
(* per-net search RouteStorage (src/RouteStorage.h) and the owners of      *)
(* nodes, NodeStorage (src/NodeStorage.h).                                 *)
(*                                                                         *)
(* The thread blocks the resources of every net and then takes the nets in *)
(* turn.  For a net with one source and some stubs it grows a tree of pips *)
(* from the sources, cheapest head first, until every stub is found; then  *)
(* it walks back from the stubs and stores what it walked.                 *)
(***************************************************************************)
EXTENDS Integers, Sequences, FiniteSets

CONSTANTS
  NetCount,     \* the number of nets of the physical netlist
  Nodes,        \* alt_nodes
  Pips,         \* PIP_Index values but the root: a pip and its direction
  Root,         \* PIP_Index_Root
  ZeroPip,      \* the PIP_Index whose bits are zero
  None,         \* UINT32_MAX: no net
  Id,           \* Id[p]: get_id, the same for both directions of a pip
  NodeIn,       \* NodeIn[p]: get_pip_node_in
  NodeOut,      \* NodeOut[p]: get_pip_node_out
  NodeToPips,   \* NodeToPips[x]: alt_node_to_pips, in order
  SourceCount,  \* SourceCount[n]: r_sources.size()
  Sources,      \* Sources[n]: nodes of the site pins at the ends of them
  Stubs,        \* the stub branches of all nets
  StubList,     \* StubList[n]: r_stubs
  StubNode,     \* StubNode[s]: the node of the site pin of stub s
  Dist,         \* Dist[x][y]: ten times the distance of nodes x and y
  CostLimit,    \* 2^16: past and future costs are uint16_t
  MaxAttempts,  \* max_attempts
  Inputs        \* what block_resources can find, see input

Nets == 0..(NetCount - 1)
Ids == {Id[p] : p \in Pips}
StubsOf(n) == {StubList[n][i] : i \in DOMAIN StubList[n]}
StubNodes == [n \in Nets |-> {StubNode[s] : s \in StubsOf(n)}]
Costs == 0..(CostLimit - 1)

Route_Info ==
  [previous : Pips \cup {Root, ZeroPip}, past_cost : Costs, future_cost : Costs]

ASSUME DeviceAssumption ==
  /\ Root \notin Pips
  /\ DOMAIN Id = Pips
  /\ NodeIn \in [Pips -> Nodes]
  /\ NodeOut \in [Pips -> Nodes]
  /\ NodeToPips \in [Nodes -> Seq(Pips)]
  /\ \A x \in Nodes : \A i \in DOMAIN NodeToPips[x] :
       NodeIn[NodeToPips[x][i]] = x
  /\ \A p \in Pips : \E i \in DOMAIN NodeToPips[NodeIn[p]] :
       NodeToPips[NodeIn[p]][i] = p
  /\ \A p, q \in Pips : Id[p] = Id[q] =>
       p = q \/ (NodeIn[p] = NodeOut[q] /\ NodeOut[p] = NodeIn[q])
  /\ Dist \in [Nodes -> [Nodes -> Nat]]

ASSUME NetlistAssumption ==
  /\ NetCount \in Nat
  /\ None \notin Nets
  /\ SourceCount \in [Nets -> Nat]
  /\ Sources \in [Nets -> SUBSET Nodes]
  /\ StubList \in [Nets -> Seq(Stubs)]
  /\ StubNode \in [Stubs -> Nodes]
  /\ \A netlist \in Inputs :
       /\ netlist.resources \in [Nets -> SUBSET Nodes]
       /\ netlist.partly \in SUBSET Nets
       /\ \A n \in Nets :
            Sources[n] \cup StubNodes[n] \subseteq netlist.resources[n]

ASSUME BoundAssumption ==
  /\ CostLimit \in Nat \ {0}
  /\ MaxAttempts \in Nat

VARIABLES
  input,              \* the netlist: the nodes of the pins and pips of each
                      \* net, and the nets with a pip in their one source
  pc,                 \* where the thread is
  net,                \* the net it is at: net_idx, then n
  stop_requested,     \* the stop token
  stored_nodes_nets,  \* the net that has stored each node
  route_storage,      \* alt_route_storage
  alt_route_options,  \* the priority queue
  used_nodes, used_pips,
  appended,           \* history: the pips append was called with
  sources,            \* the source nodes whose pips are not added yet
  stubs,              \* stubs_map: the stub nodes that are not found
  pip_stubs,          \* the pips that found one
  attempts,
  pips_to_process,    \* build_route_ids: where the walk back is
  route_ids,          \* the pips walked, each with its previous one
  phys_nets           \* the nets of the message: their stubs, and the
                      \* branches with the stubs that hang on them

search == <<route_storage, alt_route_options, used_nodes, used_pips,
            appended, sources, stubs, pip_stubs, attempts>>
walk == <<pips_to_process, route_ids>>
vars == <<input, pc, net, stop_requested, stored_nodes_nets, route_storage,
          alt_route_options, used_nodes, used_pips, appended, sources, stubs,
          pip_stubs, attempts, pips_to_process, route_ids, phys_nets>>

(* A file that was just created: MemoryMappedFile truncates and zeroes it. *)
Zeroed ==
  [i \in Ids |-> [previous |-> ZeroPip, past_cost |-> 0, future_cost |-> 0]]

NoNet == [stubs |-> {}, branches |-> {}, ends |-> {}]

Init ==
  /\ input \in Inputs
  /\ pc = "block"
  /\ net = 0
  /\ stop_requested = FALSE
  /\ stored_nodes_nets = [x \in Nodes |-> None]
  /\ route_storage = Zeroed
  /\ alt_route_options = {}
  /\ used_nodes = {}
  /\ used_pips = {}
  /\ appended = {}
  /\ sources = {}
  /\ stubs = {}
  /\ pip_stubs = {}
  /\ attempts = 0
  /\ pips_to_process = {}
  /\ route_ids = {}
  /\ phys_nets = [n \in Nets |-> NoNet]

-----------------------------------------------------------------------------
(* NodeStorage *)

is_node_stored(n, x) == stored_nodes_nets[x] \notin {n, None}

(* Mutant: a pip is stored when both its nodes are. *)
is_pip_stored_both(n, p) ==
  is_node_stored(n, NodeIn[p]) /\ is_node_stored(n, NodeOut[p])

is_pip_stored(n, p) ==
  is_node_stored(n, NodeIn[p]) \/ is_node_stored(n, NodeOut[p])

store_nodes(n, nodes) ==
  stored_nodes_nets' =
    [x \in Nodes |-> IF x \in nodes THEN n ELSE stored_nodes_nets[x]]

(* abort(), where the code finds what it does not expect: in store_node and *)
(* store_pip, for one, a node of another net. *)
Unless(unexpected, step) ==
  IF unexpected
  THEN pc' = "abort" /\ UNCHANGED <<net, stored_nodes_nets, search, walk, phys_nets>>
  ELSE step

-----------------------------------------------------------------------------
(* block_resources, for one net. *)
BlockResources ==
  /\ pc = "block"
  /\ net < NetCount
  /\ Unless(\E x \in input.resources[net] : is_node_stored(net, x),
       /\ store_nodes(net, input.resources[net])
       /\ net' = net + 1
       /\ UNCHANGED <<pc, search, walk, phys_nets>>)
  /\ UNCHANGED <<input, stop_requested>>

StartRouting ==
  /\ pc = "block"
  /\ net = NetCount
  /\ pc' = "net"
  /\ net' = 0
  /\ UNCHANGED <<input, stop_requested, stored_nodes_nets, search, walk,
                 phys_nets>>

(* The destructor of the jthread may ask the thread to stop at any time. *)
RequestStop ==
  /\ pc \notin {"done", "abort"}
  /\ ~stop_requested
  /\ stop_requested' = TRUE
  /\ UNCHANGED <<input, pc, net, stored_nodes_nets, search, walk, phys_nets>>

-----------------------------------------------------------------------------
(* The loop over the nets. *)

NextNet(written) ==
  /\ phys_nets' = [phys_nets EXCEPT ![net] = written]
  /\ net' = net + 1
  /\ pc' = "net"


(* setStubs *)
Unrouted(n) == [NoNet EXCEPT !.stubs = StubsOf(n)]

(* Nothing to route; or several sources and several stubs, for which only  *)
(* a line is printed: the stubs are not written either. *)
LeaveOut(n) ==
  StubList[n] = << >> \/ (SourceCount[n] > 1 /\ Len(StubList[n]) > 1)

Routes(n) == SourceCount[n] = 1 /\ StubList[n] # << >>

SkipNet ==
  /\ pc = "net"
  /\ net < NetCount
  /\ LeaveOut(net)
  /\ NextNet(NoNet)
  /\ UNCHANGED <<input, stop_requested, stored_nodes_nets, search, walk>>

CopyNet ==
  /\ pc = "net"
  /\ net < NetCount
  /\ ~LeaveOut(net)
  /\ ~Routes(net) \/ stop_requested
  /\ NextNet(Unrouted(net))
  /\ UNCHANGED <<input, stop_requested, stored_nodes_nets, search, walk>>

(* branches_site_pins does not expect a pip below a source, and route_stub *)
(* no source of another net. *)
Unroutable(n) == n \in input.partly \/ \E x \in Sources[n] : is_node_stored(n, x)

(* A RouteStorage of its own, assign_stubs and the head of route_stub; of  *)
(* stubs_map the keys are kept here, and the stubs in StubAt. *)
StartNet ==
  /\ pc = "net"
  /\ net < NetCount
  /\ Routes(net) /\ ~stop_requested
  /\ Unless(Unroutable(net),
       /\ pc' = "sources"
       /\ route_storage' = Zeroed
       /\ alt_route_options' = {}
       /\ used_nodes' = Sources[net]
       /\ used_pips' = {}
       /\ appended' = {}
       /\ sources' = Sources[net]
       /\ stubs' = StubNodes[net]
       /\ pip_stubs' = {}
       /\ attempts' = 0
       /\ UNCHANGED <<net, stored_nodes_nets, walk, phys_nets>>)
  /\ UNCHANGED <<input, stop_requested>>

-----------------------------------------------------------------------------
(* The search. *)

(* Mutant: a node may be entered again. *)
UnusedPip(p) == ~is_pip_stored(net, p) /\ Id[p] \notin used_pips

(* What add_node_pip and append_pip ask of a pip. *)
Unused(p) ==
  /\ ~is_pip_stored(net, p)
  /\ Id[p] \notin used_pips
  /\ NodeOut[p] \notin used_nodes

(* The pips of node x that are added: of two into one node, the first. *)
Added(x) ==
  LET pip == NodeToPips[x]
  IN  {pip[i] : i \in {i \in DOMAIN pip :
         /\ Unused(pip[i])
         /\ \A j \in 1..(i - 1) :
              Unused(pip[j]) => NodeOut[pip[j]] # NodeOut[pip[i]]}}

(* best_dist, as the uint16_t it becomes. *)
FutureCost(x, nodes) ==
  (CHOOSE d \in {Dist[x][y] : y \in nodes} : \A y \in nodes : d <= Dist[x][y])
    % CostLimit

(* What append writes. *)
Info(p, parent, nodes) ==
  [previous |-> parent,
   past_cost |-> IF parent = Root THEN 0
                 ELSE (route_storage[Id[parent]].past_cost + 1) % CostLimit,
   future_cost |-> FutureCost(NodeOut[p], nodes)]

(* add_node_pips: queue is what is left of the queue, nodes the stubs left. *)
AddNodePips(x, parent, queue, nodes) ==
  LET added == IF parent # Root /\ is_pip_stored(net, parent) THEN {}
               ELSE Added(x)
  IN  /\ route_storage' =
           [i \in Ids |->
              IF \E p \in added : Id[p] = i
              THEN Info(CHOOSE p \in added : Id[p] = i, parent, nodes)
              ELSE route_storage[i]]
      /\ alt_route_options' = queue \cup added
      /\ used_nodes' = used_nodes \cup {NodeOut[p] : p \in added}
      /\ used_pips' = used_pips \cup {Id[p] : p \in added}
      /\ appended' = appended \cup added

(* add_nodes_pips, for one source: an unordered_map has any order. *)
AddSource ==
  /\ pc = "sources"
  /\ \E x \in sources :
       /\ AddNodePips(x, Root, alt_route_options, stubs)
       /\ sources' = sources \ {x}
  /\ UNCHANGED <<input, pc, net, stop_requested, stored_nodes_nets, stubs,
                 pip_stubs, attempts, walk, phys_nets>>

StartSearch ==
  /\ pc = "sources"
  /\ sources = {}
  /\ pc' = "search"
  /\ UNCHANGED <<input, net, stop_requested, stored_nodes_nets, search, walk,
                 phys_nets>>

Total(p) == route_storage[Id[p]].past_cost + route_storage[Id[p]].future_cost

(* Route_Info_Comparison: q comes before p. *)
Before(q, p) ==
  \/ Total(q) < Total(p)
  \/ /\ Total(q) = Total(p)
     /\ route_storage[Id[q]].past_cost > route_storage[Id[p]].past_cost

(* The head of the queue: among equals, any. *)
IsTop(p) ==
  /\ p \in alt_route_options
  /\ \A q \in alt_route_options : ~Before(q, p)

Searching ==
  pc = "search" /\ attempts <= MaxAttempts /\ alt_route_options # {}

(* A pip that finds no stub is expanded. *)
Expand ==
  /\ Searching
  /\ \E p \in alt_route_options :
       /\ IsTop(p)
       /\ NodeOut[p] \notin stubs
       /\ AddNodePips(NodeOut[p], p, alt_route_options \ {p}, stubs)
  /\ attempts' = attempts + 1
  /\ UNCHANGED <<input, pc, net, stop_requested, stored_nodes_nets, sources,
                 stubs, pip_stubs, walk, phys_nets>>

(* Mutant: a pip that finds a stub is not expanded. *)
FoundIsLeaf ==
  /\ Searching
  /\ \E p \in alt_route_options :
       /\ IsTop(p)
       /\ NodeOut[p] \in stubs
       /\ stubs # {NodeOut[p]}
       /\ alt_route_options' = alt_route_options \ {p}
       /\ stubs' = stubs \ {NodeOut[p]}
       /\ pip_stubs' = pip_stubs \cup {p}
  /\ attempts' = attempts + 1
  /\ UNCHANGED <<input, pc, net, stop_requested, stored_nodes_nets,
                 route_storage, used_nodes, used_pips, appended, sources, walk,
                 phys_nets>>

(* A pip that finds a stub is expanded too, for the stubs left. *)
Found ==
  /\ Searching
  /\ \E p \in alt_route_options :
       /\ IsTop(p)
       /\ NodeOut[p] \in stubs
       /\ stubs # {NodeOut[p]}
       /\ Unless(is_pip_stored(net, p),
            /\ AddNodePips(NodeOut[p], p, alt_route_options \ {p},
                           stubs \ {NodeOut[p]})
            /\ stubs' = stubs \ {NodeOut[p]}
            /\ pip_stubs' = pip_stubs \cup {p}
            /\ attempts' = attempts + 1
            /\ UNCHANGED <<pc, net, stored_nodes_nets, sources, walk, phys_nets>>)
  /\ UNCHANGED <<input, stop_requested>>

(* The last stub is found: store_route begins. *)
FoundLast ==
  /\ Searching
  /\ \E p \in alt_route_options :
       /\ IsTop(p)
       /\ stubs = {NodeOut[p]}
       /\ Unless(is_pip_stored(net, p),
            /\ pc' = "walk"
            /\ alt_route_options' = alt_route_options \ {p}
            /\ stubs' = {}
            /\ pip_stubs' = pip_stubs \cup {p}
            /\ pips_to_process' = pip_stubs \cup {p}
            /\ route_ids' = {}
            /\ UNCHANGED <<net, stored_nodes_nets, route_storage, used_nodes,
                           used_pips, appended, sources, attempts, phys_nets>>)
  /\ UNCHANGED <<input, stop_requested>>

(* The queue is empty, or there were too many attempts. *)
Fail ==
  /\ pc = "search"
  /\ attempts > MaxAttempts \/ alt_route_options = {}
  /\ NextNet(Unrouted(net))
  /\ UNCHANGED <<input, stop_requested, stored_nodes_nets, search, walk>>

-----------------------------------------------------------------------------
(* store_route *)

(* Mutant: the pip is not taken off the vector. *)
WalkBackKept ==
  /\ pc = "walk"
  /\ \E p \in pips_to_process :
       LET previous == route_storage[Id[p]].previous
       IN  /\ route_ids' = route_ids \cup {<<previous, p>>}
           /\ pips_to_process' = pips_to_process \cup ({previous} \ {Root})
  /\ UNCHANGED <<input, pc, net, stop_requested, stored_nodes_nets, search,
                 phys_nets>>

(* build_route_ids: one pip of the walk back to the sources. *)
WalkBack ==
  /\ pc = "walk"
  /\ \E p \in pips_to_process :
       LET previous == route_storage[Id[p]].previous
       IN  /\ route_ids' = route_ids \cup {<<previous, p>>}
           /\ pips_to_process' =
                (pips_to_process \ {p}) \cup ({previous} \ {Root})
  /\ UNCHANGED <<input, pc, net, stop_requested, stored_nodes_nets, search,
                 phys_nets>>

(* Mutant: the pips are not stored. *)
TreeNodesNone == {}

(* Every node that store_pip stores while the tree is built. *)
TreeNodes ==
  {NodeIn[id[2]] : id \in route_ids} \cup {NodeOut[id[2]] : id \in route_ids}

(* Mutant: of the stubs at a node, the last is kept. *)
StubAtLast(n, x) ==
  LET at == {i \in DOMAIN StubList[n] : StubNode[StubList[n][i]] = x}
  IN  StubList[n][CHOOSE i \in at : \A j \in at : j <= i]

(* stubs_map has one stub for a node: insert keeps the first of them. *)
StubAt(n, x) ==
  LET at == {i \in DOMAIN StubList[n] : StubNode[StubList[n][i]] = x}
  IN  StubList[n][CHOOSE i \in at : \A j \in at : i <= j]

(* What a routed net is written with: each pip that found a node of stubs  *)
(* carries the stub that stubs_map has there. *)
Routed(n) ==
  [stubs |-> {}, branches |-> route_ids,
   ends |-> {<<p, StubAt(n, NodeOut[p])>> : p \in pip_stubs}]

(* The nets that fully_routed counts. *)
fully_routed == {n \in Nets : phys_nets[n].branches # {}}

(* build_tree, from the sources down. *)
BuildTree ==
  /\ pc = "walk"
  /\ pips_to_process = {}
  /\ Unless(\E x \in TreeNodes : is_node_stored(net, x),
       /\ store_nodes(net, TreeNodes)
       /\ NextNet(Routed(net))
       /\ UNCHANGED <<search, walk>>)
  /\ UNCHANGED <<input, stop_requested>>

(* phys.write *)
Write ==
  /\ pc = "net"
  /\ net = NetCount
  /\ pc' = "done"
  /\ UNCHANGED <<input, net, stop_requested, stored_nodes_nets, search, walk,
                 phys_nets>>

Ended == pc \in {"done", "abort"} /\ UNCHANGED vars

Blocking == BlockResources \/ StartRouting
NetLoop == SkipNet \/ CopyNet \/ StartNet \/ Write
Search == AddSource \/ StartSearch \/ Expand \/ Found \/ FoundLast \/ Fail
Store == WalkBack \/ BuildTree
Thread == Blocking \/ NetLoop \/ Search \/ Store

Next == Thread \/ RequestStop \/ Ended

Spec == Init /\ [][Next]_vars

(* The operating system runs the thread. *)
FairSpec == Spec /\ WF_vars(Thread)

-----------------------------------------------------------------------------
(* Properties. *)

PhysNet ==
  [stubs : SUBSET Stubs, branches : SUBSET ((Pips \cup {Root}) \X Pips),
   ends : SUBSET (Pips \X Stubs)]

(* Every variable has its type. *)
TypeOK ==
  /\ input \in Inputs
  /\ pc \in {"block", "net", "sources", "search", "walk", "done", "abort"}
  /\ net \in 0..NetCount
  /\ stop_requested \in BOOLEAN
  /\ stored_nodes_nets \in [Nodes -> Nets \cup {None}]
  /\ route_storage \in [Ids -> Route_Info]
  /\ alt_route_options \subseteq Pips
  /\ used_nodes \subseteq Nodes
  /\ used_pips \subseteq Ids
  /\ appended \subseteq Pips
  /\ sources \subseteq Nodes
  /\ stubs \subseteq Nodes
  /\ pip_stubs \subseteq Pips
  /\ attempts \in 0..(MaxAttempts + 1)
  /\ pips_to_process \subseteq Pips
  /\ route_ids \subseteq (Pips \cup {Root}) \X Pips
  /\ phys_nets \in [Nets -> PhysNet]

(* The program gives up only on a netlist whose nets overlap or are partly *)
(* routed: the search never enters, and build_tree never stores, a node of *)
(* another net. *)
AbortForCause ==
  pc = "abort" =>
    \/ \E n, m \in Nets :
         n # m /\ input.resources[n] \cap input.resources[m] # {}
    \/ \E n \in input.partly : Routes(n)

InSearch == pc \in {"sources", "search", "walk"}

Previous(p) == route_storage[Id[p]].previous

(* Every nonempty set of the pips has one that is driven by none of them. *)
NoCycle(pips) ==
  \A some \in SUBSET pips : some # {} =>
    \E p \in some : \A q \in some : NodeOut[q] # NodeIn[p]

(* The pips that were appended for this net are a forest below its         *)
(* sources, linked by previous, that enters no node twice: no link is to   *)
(* an entry that still is zero, or that the other direction overwrote. *)
SearchForest ==
  InSearch =>
    /\ \A p \in appended :
         /\ \/ Previous(p) = Root /\ NodeIn[p] \in Sources[net]
            \/ /\ Previous(p) \in appended
               /\ NodeOut[Previous(p)] = NodeIn[p]
         /\ NodeOut[p] \notin Sources[net]
    /\ \A p, q \in appended : NodeOut[p] = NodeOut[q] => p = q
    /\ NoCycle(appended)

(* The order of the queue rests on costs that live in the storage: no      *)
(* entry is written again while its pip waits in the queue. *)
QueuedCostsKept ==
  [][\A p \in alt_route_options \cap alt_route_options' :
       route_storage'[Id[p]] = route_storage[Id[p]]]_vars

(* A net whose queue runs empty cannot be routed: some set of nodes holds  *)
(* its sources, is not left by any pip over free nodes, and has none of    *)
(* the stubs that are missing, or only one on a source node. *)
GivesUpForCause ==
  pc = "search" /\ alt_route_options = {} =>
    \E reached \in SUBSET Nodes :
      /\ Sources[net] \subseteq reached
      /\ \A p \in Pips :
           NodeIn[p] \in reached /\ ~is_pip_stored(net, p)
             => NodeOut[p] \in reached
      /\ stubs \cap reached \subseteq Sources[net]

(* The branches of net n are a tree below its sources, over its own nodes, *)
(* that ends in stubs only. *)
OwnTree(n) ==
  LET id == phys_nets[n].branches
      pips == {b[2] : b \in id}
  IN  \A b \in id :
        /\ \/ b[1] = Root /\ NodeIn[b[2]] \in Sources[n]
           \/ b[1] \in pips /\ NodeOut[b[1]] = NodeIn[b[2]]
        /\ \/ \E end \in phys_nets[n].ends : end[1] = b[2]
           \/ \E c \in id : c[1] = b[2]
        /\ stored_nodes_nets[NodeIn[b[2]]] = n
        /\ stored_nodes_nets[NodeOut[b[2]]] = n

(* The stubs on that tree: each is one of the net, below a pip into its    *)
(* node, and alone at that node.  The only stubs of the net that are lost  *)
(* have an earlier one at the same node. *)
StubsHang(n) ==
  LET ends == phys_nets[n].ends
  IN  /\ \A end \in ends :
           /\ end[1] \in {b[2] : b \in phys_nets[n].branches}
           /\ end[2] \in StubsOf(n)
           /\ NodeOut[end[1]] = StubNode[end[2]]
      /\ \A end, other \in ends :
           StubNode[end[2]] = StubNode[other[2]] => end = other
      /\ \A i \in DOMAIN StubList[n] :
           \/ \E end \in ends : end[2] = StubList[n][i]
           \/ \E j \in 1..(i - 1) :
                StubNode[StubList[n][j]] = StubNode[StubList[n][i]]

WholeTree(n) ==
  Routes(n) /\ phys_nets[n].stubs = {} /\ OwnTree(n) /\ StubsHang(n)

(* A net is written with a tree or as it was read: as branches below its   *)
(* sources, over its own nodes, that end in the first stub of each of its  *)
(* stub nodes and nowhere else, or with no branch and all its stubs.  What *)
(* the program loses of the stubs is all named here: a stub behind another *)
(* one at its node, where the net is routed, and the stubs of the nets of  *)
(* several sources and several stubs, written with neither. *)
OutputWhole ==
  pc \notin {"block", "abort"} =>
    \A n \in Nets : n < net =>
      \/ WholeTree(n)
      \/ /\ phys_nets[n].branches = {} /\ phys_nets[n].ends = {}
         /\ phys_nets[n].stubs = IF LeaveOut(n) THEN {} ELSE StubsOf(n)

(* The program reports a net as fully routed: it has its stubs, each below *)
(* a branch.  False: of two stubs at one node, one is in no place. *)
FullyRoutedHasStubs ==
  \A n \in fully_routed : \A stub \in StubsOf(n) :
    \E end \in phys_nets[n].ends : end[2] = stub

(* The router implements the abstract specification of routing resources. *)
Routing ==
  INSTANCE TreeRouting WITH
    owner <- stored_nodes_nets,
    tree <- [n \in Nets |-> {b[2] : b \in phys_nets[n].branches}]

TreeRoutingSpec == Routing!Spec

(* The program ends. *)
Terminates == <>(pc \in {"done", "abort"})
=============================================================================
