---------------------------- MODULE DeviceTables ----------------------------
(***************************************************************************)
(* The tables that the routers look a device up in, made in this order:    *)
(* inverse_wires (src/inverse_wires.h), wire_idx_to_node_idx,              *)
(* wire_idx_to_tile_idx_tile_wire_idx, site_pin_to_wire, site_pin_to_node  *)
(* (the headers of these names) and the node tables of                     *)
(* enum_node_wire_tile_tw (src/tile-based-router.h).                       *)
(*                                                                         *)
(* Threads share every gather by each_n, without locks.  The tables that   *)
(* are searched hold one number for an entry: two strings and an index,    *)
(* and are files of a fixed size, of which the unused end stays zero and   *)
(* is sorted to the front.                                                 *)
(***************************************************************************)
EXTENDS Integers, SequencesExt, TLC

CONSTANTS
  Devices,        \* the devices: [wires, nodes, tiles, types], see MCTables
  Threads,        \* hardware_concurrency
  StrCount, WireCount, NodeCount, SitePinsCount,  \* the sizes in the headers
  Word            \* 2^64

VARIABLES
  dev,                \* the device
  pc,                 \* the table that is made, "done" or "aborted"
  todo,               \* what each thread has left of its share
  inverse_wires,
  wire_idx_to_node_idx,
  wire_idx_to_tile,   \* wire_idx_to_tile_idx_tile_wire_idx
  site_pin_to_wire, site_pin_to_node,
  tile_wire_to_node,  \* flat_tile_wire_to_node_u32.bin
  node_tile_wires     \* node_tile_idx_u32.bin and node_tile_wire_idx_u16.bin

tables == <<inverse_wires, wire_idx_to_node_idx, wire_idx_to_tile, site_pin_to_wire,
            site_pin_to_node, tile_wire_to_node, node_tile_wires>>
vars == <<dev, pc, todo, tables>>

None == -1        \* UINT32_MAX
Idx(list) == 0..(Len(list) - 1)
Lt(a, b) == a < b

-----------------------------------------------------------------------------
(* Numbers and searches *)

Packed(str, str2, idx, count) == ((str * StrCount + str2) * count + idx) % Word

\* wire_range, at: what equal_range finds in a sorted table
At(table, str, str2, count) ==
  LET found == SelectSeq(table, LAMBDA v : v \div count = Packed(str, str2, 0, count) \div count)
  IN [i \in DOMAIN found |-> found[i] % count]

\* site_range, tile_range
StrRange(table, str, count) ==
  SelectSeq(table, LAMBDA v : v \div (StrCount * count) = str)

\* The whole file, sorted
Sorted(entries, size) ==
  SortSeq(entries \o [i \in 1..(size - Len(entries)) |-> 0], Lt)

\* each_n: every Threads-th item of a list
Share(lists, t) ==
  FlattenSeq([i \in DOMAIN lists |-> IF (i - 1) % Threads = t THEN lists[i] ELSE <<>>])

Start(lists) == todo' = [t \in 0..(Threads - 1) |-> Share(lists, t)]
AllEnded == \A t \in DOMAIN todo : todo[t] = <<>>

-----------------------------------------------------------------------------
(* The lists the threads share *)

Type(tile) == dev.types[tile.type + 1]
WireItems == [i \in DOMAIN dev.wires |-> <<i - 1>>]
\* Mutant: the last node is left out
NodeItems_Short == [n \in 1..(Len(dev.nodes) - 1) |->
                     [k \in DOMAIN dev.nodes[n] |-> <<n - 1, k - 1>>]]

NodeItems == [n \in DOMAIN dev.nodes |-> [k \in DOMAIN dev.nodes[n] |-> <<n - 1, k - 1>>]]
TileItems == [i \in DOMAIN dev.tiles |->
               [k \in DOMAIN Type(dev.tiles[i]).wires |-> <<i - 1, k - 1>>]]

\* The pins of all sites, with the tile wire each stands for
SitePins ==
  FlattenSeq([i \in DOMAIN dev.tiles |->
    FlattenSeq([s \in DOMAIN dev.tiles[i].sites |->
      LET site == dev.tiles[i].sites[s]
          siteType == Type(dev.tiles[i]).siteTypes[site.type + 1]
      IN [p \in DOMAIN siteType.pins |->
           [site |-> site.name, pin |-> siteType.pins[p],
            tile |-> dev.tiles[i].name, wire |-> siteType.wires[p]]]])])

\* The tile wires that any type of site asks for
TypePins ==
  UNION {UNION {{<<tile.name, w>> : w \in ToSet(siteType.wires)} :
                   siteType \in ToSet(Type(tile).siteTypes)} : tile \in ToSet(dev.tiles)}

Init ==
  /\ dev \in Devices
  /\ pc = "inverse_wires"
  /\ todo = [t \in 0..(Threads - 1) |-> Share(WireItems, t)]
  /\ inverse_wires = [i \in 1..WireCount |-> 0]
  /\ wire_idx_to_node_idx = [w \in Idx(dev.wires) |-> None]
  /\ wire_idx_to_tile = [w \in Idx(dev.wires) |-> <<None, None>>]
  /\ site_pin_to_wire = <<>> /\ site_pin_to_node = <<>>
  /\ tile_wire_to_node = <<>> /\ node_tile_wires = <<>>

Takes(t, table) == pc = table /\ todo[t] # <<>> /\ todo' = [todo EXCEPT ![t] = Tail(@)]
Abort == pc' = "aborted" /\ UNCHANGED <<dev, todo, tables>>

-----------------------------------------------------------------------------
(* Inverse_Wires::make *)

GatherWire(t) ==
  /\ Takes(t, "inverse_wires")
  /\ LET w == Head(todo[t])
         wire == dev.wires[w + 1]
     IN inverse_wires' = [inverse_wires EXCEPT ![w + 1] =
                            Packed(wire.tile, wire.wire, w, WireCount)]
  /\ UNCHANGED <<dev, pc, wire_idx_to_node_idx, wire_idx_to_tile, site_pin_to_wire,
                 site_pin_to_node, tile_wire_to_node, node_tile_wires>>

wires_at(tile, wire) == At(inverse_wires, tile, wire, WireCount)

\* Sorted, and every wire a pin of a site type stands for is looked up
SortWires ==
  /\ pc = "inverse_wires" /\ AllEnded
  /\ inverse_wires' = SortSeq(inverse_wires, Lt)
  /\ pc' = IF \A p \in TypePins : At(inverse_wires', p[1], p[2], WireCount) # <<>>
           THEN "node_idx" ELSE "aborted"
  /\ IF pc' = "node_idx" THEN Start(NodeItems) ELSE UNCHANGED todo
  /\ UNCHANGED <<dev, wire_idx_to_node_idx, wire_idx_to_tile, site_pin_to_wire,
                 site_pin_to_node, tile_wire_to_node, node_tile_wires>>

-----------------------------------------------------------------------------
(* Wire_Idx_to_Node_Idx::make *)

NodeWire(item) == dev.nodes[item[1] + 1][item[2] + 1]

FillNode(t) ==
  /\ Takes(t, "node_idx")
  /\ LET item == Head(todo[t])
     IN wire_idx_to_node_idx' = [wire_idx_to_node_idx EXCEPT ![NodeWire(item)] = item[1]]
  /\ UNCHANGED <<dev, pc, inverse_wires, wire_idx_to_tile, site_pin_to_wire,
                 site_pin_to_node, tile_wire_to_node, node_tile_wires>>

TestNodes ==
  /\ pc = "node_idx" /\ AllEnded
  /\ pc' = "node_idx_test" /\ Start(NodeItems) /\ UNCHANGED <<dev, tables>>

TestNode(t) ==
  /\ Takes(t, "node_idx_test")
  /\ wire_idx_to_node_idx[NodeWire(Head(todo[t]))] = Head(todo[t])[1]
  /\ UNCHANGED <<dev, pc, tables>>

TestNodeFails(t) ==
  /\ pc = "node_idx_test" /\ todo[t] # <<>>
  /\ wire_idx_to_node_idx[NodeWire(Head(todo[t]))] # Head(todo[t])[1]
  /\ Abort

-----------------------------------------------------------------------------
(* Wire_Idx_to_Tile_Idx_Tile_Wire_Idx::make *)

FillTiles ==
  /\ pc = "node_idx_test" /\ AllEnded
  /\ pc' = "tile_idx" /\ Start(TileItems) /\ UNCHANGED <<dev, tables>>

TileWireAt(item) ==
  LET tile == dev.tiles[item[1] + 1]
  IN wires_at(tile.name, Type(tile).wires[item[2] + 1])

FillTile(t) ==
  /\ Takes(t, "tile_idx")
  /\ LET found == TileWireAt(Head(todo[t]))
     IN /\ Len(found) = 1
        /\ wire_idx_to_tile' = [wire_idx_to_tile EXCEPT ![found[1]] = Head(todo[t])]
  /\ UNCHANGED <<dev, pc, inverse_wires, wire_idx_to_node_idx, site_pin_to_wire,
                 site_pin_to_node, tile_wire_to_node, node_tile_wires>>

FillTileFails(t) ==
  /\ pc = "tile_idx" /\ todo[t] # <<>> /\ Len(TileWireAt(Head(todo[t]))) # 1
  /\ Abort

EndTiles ==
  /\ pc = "tile_idx" /\ AllEnded
  /\ pc' = "pin_wires" /\ UNCHANGED <<dev, todo, tables>>

-----------------------------------------------------------------------------
(* Site_Pin_to_Wire::make and Site_Pin_to_Node::make: gathered by one thread,
   sorted, and every pin looked up *)

PinWire(p) == wires_at(p.tile, p.wire)[1]
PinNode(p) == wire_idx_to_node_idx[PinWire(p)]

\* Each pin of a site that has any is found once, as it was stored
Looks(table, p, idx, count) ==
  /\ StrRange(table, p.site, count) # <<>>
  /\ At(table, p.site, p.pin, count) = (IF idx = None THEN <<>> ELSE <<idx>>)

MakePinWires ==
  /\ pc = "pin_wires"
  /\ site_pin_to_wire' =
       LET entry(p) == Packed(p.site, p.pin, PinWire(p), WireCount)
       IN Sorted([i \in DOMAIN SitePins |-> entry(SitePins[i])], SitePinsCount)
  /\ pc' = IF \A p \in ToSet(SitePins) : Looks(site_pin_to_wire', p, PinWire(p), WireCount)
           THEN "pin_nodes" ELSE "aborted"
  /\ UNCHANGED <<dev, todo, inverse_wires, wire_idx_to_node_idx, wire_idx_to_tile,
                 site_pin_to_node, tile_wire_to_node, node_tile_wires>>

NodePins == SelectSeq(SitePins, LAMBDA p : PinNode(p) # None)

MakePinNodes ==
  /\ pc = "pin_nodes"
  /\ site_pin_to_node' =
       LET entry(p) == Packed(p.site, p.pin, PinNode(p), NodeCount)
       IN Sorted([i \in DOMAIN NodePins |-> entry(NodePins[i])], SitePinsCount)
  /\ IF \A p \in ToSet(SitePins) : Looks(site_pin_to_node', p, PinNode(p), NodeCount)
     THEN pc' = "node_tables" /\ Start(NodeItems)
     ELSE pc' = "aborted" /\ UNCHANGED todo
  /\ tile_wire_to_node' = [item \in ToSet(FlattenSeq(TileItems)) |-> 0]
  /\ node_tile_wires' = [item \in ToSet(FlattenSeq(NodeItems)) |-> <<0, 0>>]
  /\ UNCHANGED <<dev, inverse_wires, wire_idx_to_node_idx, wire_idx_to_tile, site_pin_to_wire>>

-----------------------------------------------------------------------------
(* enum_node_wire_tile_tw *)

\* The last tile, or wire of a tile type, of a name, by its places in the list
LastOf(places) == Max(places) - 1

NodeTile(t) ==
  /\ Takes(t, "node_tables")
  /\ LET item == Head(todo[t])
         wire == dev.wires[NodeWire(item) + 1]
         tile == LastOf({k \in DOMAIN dev.tiles : dev.tiles[k].name = wire.tile})
         wires == Type(dev.tiles[tile + 1]).wires
         tile_wire == LastOf({k \in DOMAIN wires : wires[k] = wire.wire})
     IN /\ tile_wire_to_node' = [tile_wire_to_node EXCEPT ![<<tile, tile_wire>>] = item[1]]
        /\ node_tile_wires' = [node_tile_wires EXCEPT ![item] = <<tile, tile_wire>>]
  /\ UNCHANGED <<dev, pc, inverse_wires, wire_idx_to_node_idx, wire_idx_to_tile,
                 site_pin_to_wire, site_pin_to_node>>

EndNodeTables ==
  /\ pc = "node_tables" /\ AllEnded
  /\ pc' = "done" /\ UNCHANGED <<dev, todo, tables>>

-----------------------------------------------------------------------------

Thread(t) == \/ GatherWire(t) \/ FillNode(t) \/ TestNode(t) \/ TestNodeFails(t)
             \/ FillTile(t) \/ FillTileFails(t) \/ NodeTile(t)
Main == \/ SortWires \/ TestNodes \/ FillTiles \/ EndTiles
        \/ MakePinWires \/ MakePinNodes \/ EndNodeTables
Ended == pc \in {"done", "aborted"} /\ UNCHANGED vars

Next == Main \/ (\E t \in 0..(Threads - 1) : Thread(t)) \/ Ended

-----------------------------------------------------------------------------

\* What the device says, without the tables
NodesOf(w) == {n \in Idx(dev.nodes) : w \in ToSet(dev.nodes[n + 1])}
Named(tile, wire) == {w \in Idx(dev.wires) : dev.wires[w + 1] = [tile |-> tile, wire |-> wire]}
NodesOfPin(p) == UNION {NodesOf(w) : w \in Named(p.tile, p.wire)}

\* The zeros at the end of a file read as an entry of strings 0 and 0
Zeros(entries, size) == IF entries < size THEN {<<0, 0>>} ELSE {}

\* A device the tables can stand for: a wire is in one node; every wire of a tile
\* is one wire of the device; a name that is the zeros' is not used; and a site
\* with pins has its own name, distinct pins, and a pin on some node.
Sound ==
  /\ \A w \in Idx(dev.wires) : \A m, n \in NodesOf(w) : m = n
  /\ \A i \in DOMAIN dev.tiles : \A wire \in ToSet(Type(dev.tiles[i]).wires) :
       \E w \in Idx(dev.wires) :
         /\ Named(dev.tiles[i].name, wire) = {w}
         /\ <<dev.tiles[i].name, wire>> \notin Zeros(Len(dev.wires), WireCount)
  /\ \A p \in TypePins : Named(p[1], p[2]) # {}
  /\ \A i, j \in DOMAIN SitePins :
       (SitePins[i].site = SitePins[j].site /\ SitePins[i].pin = SitePins[j].pin) => i = j
  /\ \A p \in ToSet(SitePins) :
       /\ <<p.site, p.pin>> \notin Zeros(Len(SitePins), SitePinsCount)
       /\ \E q \in ToSet(SitePins) : q.site = p.site /\ NodesOfPin(q) # {}

\* The makers abort on the devices that are not sound and on no others, in
\* whatever order the threads write: the tests find every write that was lost.
\* (A site with no pin on a node passes where the zeros stand for its name.)
MadeIfSound ==
  /\ pc = "done" => Sound \/ \E p \in ToSet(SitePins) : p.site = 0
  /\ pc = "aborted" => ~Sound

\* Once they are made, every lookup gives what the device says.
Resolves ==
  pc = "done" =>
    /\ \A w \in Idx(dev.wires) :
         /\ wires_at(dev.wires[w + 1].tile, dev.wires[w + 1].wire) = <<w>>
         /\ {n \in {wire_idx_to_node_idx[w]} : n # None} = NodesOf(w)
    /\ \A p \in ToSet(SitePins) :
         /\ ToSet(At(site_pin_to_wire, p.site, p.pin, WireCount)) = Named(p.tile, p.wire)
         /\ ToSet(At(site_pin_to_node, p.site, p.pin, NodeCount)) = NodesOfPin(p)

\* The two ways from a wire of a node to its tile, and back to the node, agree.
\* A wire of no node has node 0 in flat_tile_wire_to_node, which is never filled.
TablesAgree ==
  pc = "done" =>
    /\ \A item \in DOMAIN node_tile_wires : node_tile_wires[item] = wire_idx_to_tile[NodeWire(item)]
    /\ \A w \in Idx(dev.wires) :
         tile_wire_to_node[wire_idx_to_tile[w]] =
           IF NodesOf(w) = {} THEN 0 ELSE wire_idx_to_node_idx[w]
=============================================================================
