----------------------------- MODULE TileRouter -----------------------------
(***************************************************************************)
(* The tile-based router: Tile_Based_Router of src/tile-based-router.h, as *)
(* its main runs it (src/tile-based-router.cpp): block_all_resources, then *)
(* one route_step.                                                         *)
(*                                                                         *)
(* Every wire of every tile has a slot, which holds the net that uses it,  *)
(* or waits there for a path (the inbox bit).  Blocking marks the wires of *)
(* the nodes of the sources, and one wire of each stub's node at which     *)
(* paths start.  The step then goes over all slots; where a stub waits in  *)
(* the tile of its source, it takes the first path through the tile of     *)
(* which no wire is used by another net.                                   *)
(***************************************************************************)
EXTENDS Integers, Sequences

CONSTANTS
  Nets,        \* the indices of the nets
  SlotCount,   \* one slot for each wire of each tile, tile by tile
  Tile,        \* Tile[s]: the tile of a slot
  Nodes,       \* the nodes
  NodeWires,   \* NodeWires[n]: the slots of the wires of a node
  NodeOf,      \* NodeOf[s]: wire_idx_to_node_idx
  Netlists,    \* the site pins and pips of all nets in the order they are visited:
               \* sequences of records [net, kind, nodes, slots], with what the
               \* tables have for a pin or for the two wires of a pip
  Startable,   \* the slots at which subscript finds finishes
  Scan,        \* Scan[s][f]: the ids route_step tries between two slots of a tile
  PathSlots,   \* PathSlots[t][id]: the slots the wires of a path stand for
  Stored,      \* Stored[s][f]: the ids of the paths that lead from f to s
  InRange,     \* InRange[s]: the slots f whose wire is one of the finishes of s
  NoNet, NoPath, NoSlot  \* UINT32_MAX

Slots == 0..(SlotCount - 1)
Ids == UNION {{Scan[s][f][i] : i \in DOMAIN Scan[s][f]} : s, f \in Slots}
Kinds == {"source", "stub", "pip"}

ASSUME TileRouterAssumption ==
  /\ SlotCount \in Nat
  /\ Tile \in [Slots -> Nat]
  /\ NodeWires \in [Nodes -> Seq(Slots)]
  /\ NodeOf \in [Slots -> Nodes]
  /\ \A r \in Netlists :
       r \in Seq([net : Nets, kind : Kinds, nodes : SUBSET Nodes, slots : SUBSET Slots])
  /\ Startable \subseteq Slots
  /\ \A s, f \in Slots : /\ Scan[s][f] \in Seq(Ids)
                           /\ \A i \in DOMAIN Scan[s][f] :
                                PathSlots[Tile[s]][Scan[s][f][i]] \subseteq Slots
  /\ NoNet \notin Nets /\ NoPath \notin Ids /\ NoSlot \notin Slots

VARIABLES
  pc,          \* "block", "route", "done" or "aborted"
  resources,   \* the resources of this netlist
  visited,     \* the resources visited
  at,          \* the slot route_step looks at
  net_ids,     \* a_tile_wire_net_id: the net of a slot, and the inbox bit
  path_ids,    \* a_tile_wire_path_id
  net_source   \* net_source_tileIdx and net_source_tileWire, as a slot

vars == <<pc, resources, visited, at, net_ids, path_ids, net_source>>

Used(net) == [net |-> net, inbox |-> FALSE]
Inbox(net) == [net |-> net, inbox |-> TRUE]
Free == Used(NoNet)

Init == /\ resources \in Netlists
        /\ pc = "block" /\ visited = 0 /\ at = 0
        /\ net_ids = [s \in Slots |-> Free]
        /\ path_ids = [s \in Slots |-> NoPath]
        /\ net_source = [n \in Nets |-> NoSlot]

-----------------------------------------------------------------------------
(* block_all_resources *)

Blocks(kind) == pc = "block" /\ visited < Len(resources) /\ resources[visited + 1].kind = kind
Resource == resources[visited + 1]
NodeSlots(n) == {NodeWires[n][i] : i \in DOMAIN NodeWires[n]}

\* block_site_pin wants one node, with wires, and one wire for a pin, and
\* block_pip some wire for both ends of a pip
Known(r) == IF r.kind = "pip" THEN r.slots # {}
            ELSE /\ \E n \in r.nodes : r.nodes = {n} /\ NodeWires[n] # <<>>
                 /\ \E s \in r.slots : r.slots = {s}

Visit == visited' = visited + 1 /\ UNCHANGED <<pc, resources, at, path_ids>>

\* set_shader_tile_wire, for every wire of the node: the last one is the source
BlockSource ==
  /\ Blocks("source") /\ Known(Resource)
  /\ \E n \in Resource.nodes :
       /\ net_ids' = [s \in Slots |-> IF s \in NodeSlots(n) THEN Used(Resource.net)
                                      ELSE net_ids[s]]
       /\ net_source' = [net_source EXCEPT ![Resource.net] = NodeWires[n][Len(NodeWires[n])]]
  /\ Visit

\* The first wire of the node at which paths start
IsFirst(s, n) == \E i \in DOMAIN NodeWires[n] :
                   /\ NodeWires[n][i] = s /\ s \in Startable
                   /\ \A j \in 1..(i - 1) : NodeWires[n][j] \notin Startable

\* set_shader_tile_wire_inbox: where a stub at this slot is to wait, if anywhere
WaitsAt(s) == IF s \in Startable THEN {s} ELSE {u \in Slots : IsFirst(u, NodeOf[s])}

BlockStub ==
  /\ Blocks("stub") /\ Known(Resource)
  /\ \E s \in Resource.slots :
       net_ids' = [u \in Slots |-> IF u \in WaitsAt(s) THEN Inbox(Resource.net) ELSE net_ids[u]]
  /\ Visit /\ UNCHANGED net_source

BlockPip == Blocks("pip") /\ Known(Resource) /\ Visit /\ UNCHANGED <<net_ids, net_source>>

BlockAbort == /\ pc = "block" /\ visited < Len(resources) /\ ~Known(Resource)
              /\ pc' = "aborted"
              /\ UNCHANGED <<resources, visited, at, net_ids, path_ids, net_source>>

StartRouting == /\ pc = "block" /\ visited = Len(resources)
                /\ pc' = "route"
                /\ UNCHANGED <<resources, visited, at, net_ids, path_ids, net_source>>

-----------------------------------------------------------------------------
(* route_step *)

\* A stub that waits in the tile of its source
Routable(s) == /\ net_ids[s].inbox /\ s \in Startable
               /\ net_source[net_ids[s].net] # NoSlot
               /\ Tile[net_source[net_ids[s].net]] = Tile[s]

\* Mutant: the finish before that of the source is looked up
Candidates_Before(s) == LET f == net_source[net_ids[s].net] IN Scan[s][IF f = 0 THEN 0 ELSE f - 1]

Candidates(s) == Scan[s][net_source[net_ids[s].net]]

\* Mutant: only waiting stubs are in the way
Available_Waiting(s, id) == \A u \in PathSlots[Tile[s]][id] : ~net_ids[u].inbox

Available(s, id) == \A u \in PathSlots[Tile[s]][id] : net_ids[u].net \in {NoNet, net_ids[s].net}

\* The first candidate that is available is taken
Takes(s, id) == \E i \in DOMAIN Candidates(s) :
                  /\ Candidates(s)[i] = id /\ Available(s, id)
                  /\ \A j \in 1..(i - 1) : ~Available(s, Candidates(s)[j])

Advance == at' = at + 1 /\ UNCHANGED <<pc, resources, visited, net_source>>

Skip == /\ pc = "route" /\ at < SlotCount /\ ~Routable(at)
        /\ Advance /\ UNCHANGED <<net_ids, path_ids>>

Assign == /\ pc = "route" /\ at < SlotCount /\ Routable(at)
          /\ \E id \in Ids :
               /\ Takes(at, id)
               /\ path_ids' = [path_ids EXCEPT ![at] = id]
               /\ net_ids' = [s \in Slots |->
                                IF s = at \/ s \in PathSlots[Tile[at]][id]
                                THEN Used(net_ids[at].net) ELSE net_ids[s]]
          /\ Advance

\* Mutant: only the first path is tried
Unroutable_First ==
  /\ pc = "route" /\ at < SlotCount /\ Routable(at)
  /\ \A i \in DOMAIN Candidates(at) : i = 1 => ~Available(at, Candidates(at)[i])
  /\ Advance /\ UNCHANGED <<net_ids, path_ids>>

Unroutable == /\ pc = "route" /\ at < SlotCount /\ Routable(at)
              /\ \A i \in DOMAIN Candidates(at) : ~Available(at, Candidates(at)[i])
              /\ Advance /\ UNCHANGED <<net_ids, path_ids>>

Return == /\ pc = "route" /\ at = SlotCount
          /\ pc' = "done"
          /\ UNCHANGED <<resources, visited, at, net_ids, path_ids, net_source>>

Ended == pc \in {"done", "aborted"} /\ UNCHANGED vars

Step == \/ BlockSource \/ BlockStub \/ BlockPip \/ BlockAbort \/ StartRouting
        \/ Skip \/ Assign \/ Unroutable \/ Return

Next == Step \/ Ended

Spec == Init /\ [][Next]_vars

-----------------------------------------------------------------------------

TypeOK ==
  /\ pc \in {"block", "route", "done", "aborted"}
  /\ resources \in Netlists
  /\ visited \in 0..Len(resources)
  /\ at \in 0..SlotCount
  /\ net_ids \in [Slots -> [net : Nets \cup {NoNet}, inbox : BOOLEAN]]
  /\ path_ids \in [Slots -> Ids \cup {NoPath}]
  /\ net_source \in [Nets -> Slots \cup {NoSlot}]
  /\ \A s \in Slots : net_ids[s].inbox => net_ids[s].net # NoNet

\* The wires of an assigned path keep the net it was assigned for, so paths of
\* different nets never share a wire of a tile, whatever the tables hold: the
\* one check before the path is marked (pathAvailable) is enough although marks
\* are overwritten without another look.
PathsOwned ==
  \A s \in Slots : path_ids[s] # NoPath =>
    /\ net_ids[s].net # NoNet
    /\ \A u \in PathSlots[Tile[s]][path_ids[s]] : net_ids[u] = Used(net_ids[s].net)

PathsDisjoint ==
  \A s, u \in Slots :
    (path_ids[s] # NoPath /\ path_ids[u] # NoPath /\ net_ids[s].net # net_ids[u].net) =>
      PathSlots[Tile[s]][path_ids[s]] \cap PathSlots[Tile[u]][path_ids[u]] = {}

\* A slot that is marked for a net is on a node of one of its sources, is where
\* one of its stubs waits, or is on a path assigned to one of its stubs.
Explained(s, net) ==
  \/ \E i \in 1..visited :
       /\ resources[i].net = net
       /\ \/ resources[i].kind = "source" /\ \E n \in resources[i].nodes : s \in NodeSlots(n)
          \/ resources[i].kind = "stub" /\ \E u \in resources[i].slots : s \in WaitsAt(u)
  \/ \E u \in Slots : /\ path_ids[u] # NoPath /\ net_ids[u].net = net
                      /\ s \in PathSlots[Tile[u]][path_ids[u]]

MarksExplained == \A s \in Slots : net_ids[s].net # NoNet => Explained(s, net_ids[s].net)

\* A stub that still waits behind the step in the tile of its source has no
\* path left there: each one the tables have for it has a wire another net uses
\* now, so one more step would route nothing.
UnroutedForCause ==
  \A s \in Slots : (pc \in {"route", "done"} /\ s < at /\ Routable(s)) =>
    /\ path_ids[s] = NoPath
    /\ \A i \in DOMAIN Candidates(s) : ~Available(s, Candidates(s)[i])

\* Once routing has begun a net keeps every slot it has, and a stub stops
\* waiting only when a path is assigned to it.
SlotsKept == [][pc = "route" => \A s \in Slots :
  /\ net_ids[s].net # NoNet => net_ids'[s].net = net_ids[s].net
  /\ (net_ids[s].inbox /\ ~net_ids'[s].inbox) => path_ids'[s] # NoPath]_vars

\* The ids tried for a stub at slot s of a net whose source is at slot f
Scanned(s, f) == {Scan[s][f][i] : i \in DOMAIN Scan[s][f]}

\* Paths run over wires that are driven and drive, and paths are looked up from
\* wires that are only driven: no path runs over a wire at which a stub waits.
InnerUnstartable ==
  \A s, f \in Slots : \A id \in Scanned(s, f) : PathSlots[Tile[s]][id] \cap Startable = {}

\* What FlatPipPaths gives for a pair with a place in its vectors was stored for it.
ScansStored == \A s, f \in Slots : f \in InRange[s] => Scanned(s, f) \subseteq Stored[s][f]

\* A stub that is "routed in tile" has a path that was stored for its own slot
\* and for the slot of its source, so that its wires join the two, if the wire of
\* the source is one of the finishes of the stub's wire: then the scan reads the
\* entries of this pair and no others. (The code does not look whether it is.)
RoutedInRange ==
  \A s \in Slots :
    (path_ids[s] # NoPath /\ net_source[net_ids[s].net] \in InRange[s]) =>
      path_ids[s] \in Stored[s][net_source[net_ids[s].net]]
=============================================================================
