---------------------------- MODULE SortedTables ----------------------------
(***************************************************************************)
(* The search files of the sequential router, made by                      *)
(* Route_Phys::make_search_files: wire_tile_wire.h, wire_tile_node.h,      *)
(* node_tile_pip.h, tile_pip_node.h, site_pin_wire.h, site_pin_nodes.h and *)
(* tile_tile_wire_pip.h.                                                   *)
(*                                                                         *)
(* Threads append to one file: each reserves places with a fetch_add on a  *)
(* common offset and fills them later.  The file is then cut to what was   *)
(* reserved, sorted and searched; some of the files are tested.  An entry  *)
(* is a tuple of its bit fields, the most significant first.               *)
(*                                                                         *)
(* Two files know a tile by its place in the array, Tile_Index.  No code   *)
(* looks whether tiles share a place, or lie outside the array; that they  *)
(* do not is taken from the device.                                        *)
(***************************************************************************)
EXTENDS Integers, SequencesExt, TLC, DenseSets

CONSTANTS
  Devices,    \* as of DeviceTables; a type has pips too: [wire0, wire1, directional, conventional],
              \* and a tile its Tile_Index: [name, type, sites, index]
  TileCount,  \* Tile_Index::count
  Threads,
  PipPlaces   \* the size of the file of node_tile_pip, a constant of the code

ASSUME SortedTablesAssumption == Threads \in Nat \ {0} /\ PipPlaces \in Nat

ASSUME TilesAssumption ==
  \A device \in Devices : \A i, j \in DOMAIN device.tiles :
    /\ device.tiles[i].index \in 0..(TileCount - 1)
    /\ device.tiles[i].index = device.tiles[j].index => i = j

VARIABLES
  dev,
  pc,         \* the file that is made, "done", "aborted" or "overrun"
  todo,       \* what each thread has left: the groups of entries it reserves for
  base,       \* where the group goes that a thread is at, None before it has places
  offset,     \* storage_offset
  file,       \* the file that is filled
  wire_tile_wire, wire_tile_node, node_tile_pip, tile_pip_node,
  site_pin_wire, site_pin_node, tile_tile_pip

tables == <<wire_tile_wire, wire_tile_node, node_tile_pip, tile_pip_node,
            site_pin_wire, site_pin_node, tile_tile_pip>>
vars == <<dev, pc, todo, base, offset, file, tables>>

None == -1     \* UINT32_MAX
Empty == <<>>  \* a place nothing was stored at

\* Entries of one kind, as numbers of the same fields
Before(a, b) == \E i \in DOMAIN a : /\ a[i] < b[i]
                                    /\ \A j \in 1..(i - 1) : a[j] = b[j]
Sort(entries) == SortSeq(entries, Before)
With(table, key) == SelectSeq(table, LAMBDA e : SubSeq(e, 1, Len(key)) = key)

Type(tile) == dev.types[tile.type + 1]
Group(entry) == <<entry>>

-----------------------------------------------------------------------------
(* The searches *)

\* wire_tile_to_wire, which aborts unless there is one
WireFound(tile, wire) == Len(With(wire_tile_wire, <<tile, wire>>)) = 1
wire_tile_to_wire(tile, wire) == With(wire_tile_wire, <<tile, wire>>)[1][3]

\* wire_tile_to_node: the first entry of the range
wire_tile_to_node(table, tile, wire) ==
  LET found == With(table, <<tile, wire>>) IN IF found = <<>> THEN None ELSE found[1][3]

node_of(tile, wire) == wire_tile_to_node(wire_tile_node, tile, wire)

-----------------------------------------------------------------------------
(* What the threads append, by the item of the list they share *)

\* make_wire_tile_node: the places of a node are reserved together
NodeGroups == [n \in DOMAIN dev.nodes |->
                <<[k \in DOMAIN dev.nodes[n] |->
                    LET wire == dev.wires[dev.nodes[n][k] + 1] IN <<wire.tile, wire.wire, n - 1>>]>>]

Pips(tile) == [p \in DOMAIN Type(tile).pips |->
                LET pip == Type(tile).pips[p]
                    name(w) == Type(tile).wires[w + 1]
                IN [pip EXCEPT !.wire0 = name(pip.wire0), !.wire1 = name(pip.wire1)]]

\* make_node_tile_pip: each end of a conventional pip that is in a node
PipEnds(i) ==
  FlattenSeq([p \in DOMAIN Pips(dev.tiles[i]) |->
    LET pip == Pips(dev.tiles[i])[p]
        ends == <<node_of(dev.tiles[i].name, pip.wire0), node_of(dev.tiles[i].name, pip.wire1)>>
    IN IF pip.conventional
       THEN [e \in 1..Len(SelectSeq(ends, LAMBDA n : n # None)) |->
              <<SelectSeq(ends, LAMBDA n : n # None)[e], dev.tiles[i].index, p - 1>>]
       ELSE <<>>])
PipGroups == [i \in DOMAIN dev.tiles |-> [e \in DOMAIN PipEnds(i) |-> Group(PipEnds(i)[e])]]

\* The pins of the sites of a tile
Pins(tile) ==
  FlattenSeq([s \in DOMAIN tile.sites |->
    LET siteType == Type(tile).siteTypes[tile.sites[s].type + 1]
    IN [p \in DOMAIN siteType.pins |->
         [site |-> tile.sites[s].name, pin |-> siteType.pins[p],
          tile |-> tile.name, wire |-> siteType.wires[p]]]])

PinWireGroups ==
  [i \in DOMAIN dev.tiles |->
    LET pins == Pins(dev.tiles[i])
    IN [p \in DOMAIN pins |->
         Group(<<pins[p].site, pins[p].pin, wire_tile_to_wire(pins[p].tile, pins[p].wire)>>)]]

PinNodeGroups ==
  [i \in DOMAIN dev.tiles |->
    LET pins == SelectSeq(Pins(dev.tiles[i]), LAMBDA p : node_of(p.tile, p.wire) # None)
    IN [p \in DOMAIN pins |->
         Group(<<pins[p].site, pins[p].pin, node_of(pins[p].tile, pins[p].wire)>>)]]

-----------------------------------------------------------------------------
(* jthread_each *)

Share(lists, t) ==
  FlattenSeq([i \in DOMAIN lists |-> IF (i - 1) % Threads = t THEN lists[i] ELSE <<>>])

Idle == /\ todo = [t \in 0..(Threads - 1) |-> <<>>]
        /\ base = [t \in 0..(Threads - 1) |-> None]
        /\ offset = 0 /\ file = <<>>

Gather(name, groups, places) ==
  /\ pc' = name
  /\ todo' = [t \in 0..(Threads - 1) |-> Share(groups, t)]
  /\ base' = [t \in 0..(Threads - 1) |-> None]
  /\ offset' = 0
  /\ file' = [i \in 0..(places - 1) |-> Empty]

\* Mutant: the offset moves by one for a whole group
Reserve_One(t) == /\ todo[t] # <<>> /\ base[t] = None
                  /\ base' = [base EXCEPT ![t] = offset]
                  /\ offset' = offset + 1
                  /\ UNCHANGED <<dev, pc, todo, file, tables>>

\* fetch_add
Reserve(t) == /\ todo[t] # <<>> /\ base[t] = None
              /\ base' = [base EXCEPT ![t] = offset]
              /\ offset' = offset + Len(Head(todo[t]))
              /\ UNCHANGED <<dev, pc, todo, file, tables>>

\* The next entry of the group goes to the next place, if the file has it
Store(t) == /\ todo[t] # <<>> /\ base[t] # None /\ Head(todo[t]) # <<>>
            /\ IF base[t] \in DOMAIN file
               THEN /\ file' = [file EXCEPT ![base[t]] = Head(Head(todo[t]))]
                    /\ todo' = [todo EXCEPT ![t][1] = Tail(@)]
                    /\ base' = [base EXCEPT ![t] = @ + 1]
                    /\ UNCHANGED pc
               ELSE pc' = "overrun" /\ UNCHANGED <<todo, base, file>>
            /\ UNCHANGED <<dev, offset, tables>>

EndGroup(t) == /\ todo[t] # <<>> /\ base[t] # None /\ Head(todo[t]) = <<>>
               /\ todo' = [todo EXCEPT ![t] = Tail(@)]
               /\ base' = [base EXCEPT ![t] = None]
               /\ UNCHANGED <<dev, pc, offset, file, tables>>

Thread(t) == /\ pc \in {"wire_tile_node", "node_tile_pip", "site_pin_wire", "site_pin_node"}
             /\ Reserve(t) \/ Store(t) \/ EndGroup(t)

Gathered(name) == pc = name /\ \A t \in DOMAIN todo : todo[t] = <<>>

\* shrink and sort
Shrunk == Sort([i \in 1..offset |-> file[i - 1]])

-----------------------------------------------------------------------------
(* make_search_files *)

Init == /\ dev \in Devices
        /\ pc = "wire_tile_wire" /\ Idle
        /\ wire_tile_wire = <<>> /\ wire_tile_node = <<>> /\ node_tile_pip = <<>>
        /\ tile_pip_node = <<>> /\ site_pin_wire = <<>> /\ site_pin_node = <<>>
        /\ tile_tile_pip = <<>>

StopsWith(reason) == pc' = reason /\ UNCHANGED <<todo, base, offset, file>>

\* make_wire_tile_wire, where the place of an entry is that of the wire, and its
\* test, which looks every wire up
MakeWireTileWire ==
  /\ pc = "wire_tile_wire"
  /\ wire_tile_wire' = Sort([w \in DOMAIN dev.wires |->
                               <<dev.wires[w].tile, dev.wires[w].wire, w - 1>>])
  /\ IF \A w \in ToSet(dev.wires) : Len(With(wire_tile_wire', <<w.tile, w.wire>>)) = 1
     THEN Gather("wire_tile_node", NodeGroups, Len(dev.wires))
     ELSE StopsWith("aborted")
  /\ UNCHANGED <<dev, wire_tile_node, node_tile_pip, tile_pip_node, site_pin_wire,
                 site_pin_node, tile_tile_pip>>

\* Mutant: it is enough that a node is found
NodesTested_Any(table) ==
  \A n \in DOMAIN dev.nodes : \A w \in ToSet(dev.nodes[n]) :
    wire_tile_to_node(table, dev.wires[w + 1].tile, dev.wires[w + 1].wire) # None

\* Search_Wire_Tile_Node::test
NodesTested(table) ==
  \A n \in DOMAIN dev.nodes : \A w \in ToSet(dev.nodes[n]) :
    wire_tile_to_node(table, dev.wires[w + 1].tile, dev.wires[w + 1].wire) = n - 1

SortWireTileNode ==
  /\ Gathered("wire_tile_node")
  /\ wire_tile_node' = Shrunk
  /\ pc' = IF NodesTested(wire_tile_node') THEN "node_tile_pip_start" ELSE "aborted"
  /\ UNCHANGED <<dev, todo, base, offset, file, wire_tile_wire, node_tile_pip, tile_pip_node,
                 site_pin_wire, site_pin_node, tile_tile_pip>>

StartNodeTilePip == /\ pc = "node_tile_pip_start"
                    /\ Gather("node_tile_pip", PipGroups, PipPlaces)
                    /\ UNCHANGED <<dev, tables>>

\* Search_Node_Tile_Pip::test: both ends of a pip are found once
PipsTested(table) == \A i \in DOMAIN dev.tiles : \A e \in ToSet(PipEnds(i)) :
                       Len(With(table, e)) = 1

SortNodeTilePip ==
  /\ Gathered("node_tile_pip")
  /\ node_tile_pip' = Shrunk
  /\ pc' = IF PipsTested(node_tile_pip') THEN "tile_pip_node" ELSE "aborted"
  /\ UNCHANGED <<dev, todo, base, offset, file, wire_tile_wire, wire_tile_node, tile_pip_node,
                 site_pin_wire, site_pin_node, tile_tile_pip>>

\* make_tile_pip_node: the same entries by tile; then make_site_pin_wires, where
\* a pin whose wire is not found ends the process
MakeTilePipNode ==
  /\ pc = "tile_pip_node"
  /\ tile_pip_node' = Sort([i \in DOMAIN node_tile_pip |->
       <<node_tile_pip[i][2], node_tile_pip[i][3], node_tile_pip[i][1]>>])
  /\ IF \A tile \in ToSet(dev.tiles) : \A p \in ToSet(Pins(tile)) : WireFound(p.tile, p.wire)
     THEN Gather("site_pin_wire", PinWireGroups, Len(dev.wires))
     ELSE StopsWith("aborted")
  /\ UNCHANGED <<dev, wire_tile_wire, wire_tile_node, node_tile_pip, site_pin_wire,
                 site_pin_node, tile_tile_pip>>

SortSitePinWire ==
  /\ Gathered("site_pin_wire")
  /\ site_pin_wire' = Shrunk
  /\ Gather("site_pin_node", PinNodeGroups, Len(dev.nodes))
  /\ UNCHANGED <<dev, wire_tile_wire, wire_tile_node, node_tile_pip, tile_pip_node,
                 site_pin_node, tile_tile_pip>>

SortSitePinNode ==
  /\ Gathered("site_pin_node")
  /\ site_pin_node' = Shrunk
  /\ pc' = "tile_tile_pip"
  /\ UNCHANGED <<dev, todo, base, offset, file, wire_tile_wire, wire_tile_node, node_tile_pip,
                 tile_pip_node, site_pin_wire, tile_tile_pip>>

\* The tiles that the node of a pip's end has a wire in
EndTiles(node) ==
  IF node = None THEN <<>>
  ELSE [k \in DOMAIN dev.nodes[node + 1] |->
         dev.tiles[SelectLastInSeq(dev.tiles, LAMBDA tile :
           tile.name = dev.wires[dev.nodes[node + 1][k] + 1].tile)].index]

TilePips(tile) ==
  Sort(FlattenSeq([p \in DOMAIN Pips(tile) |->
    LET pip == Pips(tile)[p]
        end(wire, taken) == IF pip.conventional /\ taken THEN EndTiles(node_of(tile.name, wire))
                            ELSE <<>>
        reach == end(pip.wire0, TRUE) \o end(pip.wire1, ~pip.directional)
    IN [r \in DOMAIN reach |-> <<reach[r], p - 1>>]]))

\* Search_Tile_Tile_Wire_Pip::make: a vector for each place of the array, which the
\* thread of its tile fills
MakeTileTilePip ==
  /\ pc = "tile_tile_pip"
  /\ LET src == [place \in 1..TileCount |->
                   FlattenSeq([i \in DOMAIN dev.tiles |->
                     IF dev.tiles[i].index = place - 1 THEN TilePips(dev.tiles[i]) ELSE <<>>])]
     IN /\ tile_tile_pip' = dense(src)
        /\ pc' = IF dense_test(tile_tile_pip', src) THEN "done" ELSE "aborted"
  /\ UNCHANGED <<dev, todo, base, offset, file, wire_tile_wire, wire_tile_node, node_tile_pip,
                 tile_pip_node, site_pin_wire, site_pin_node>>

-----------------------------------------------------------------------------

Main == \/ MakeWireTileWire \/ SortWireTileNode \/ StartNodeTilePip \/ SortNodeTilePip
        \/ MakeTilePipNode \/ SortSitePinWire \/ SortSitePinNode \/ MakeTileTilePip
Ended == pc \in {"done", "aborted", "overrun"} /\ UNCHANGED vars

Next == Main \/ (\E t \in 0..(Threads - 1) : Thread(t)) \/ Ended

-----------------------------------------------------------------------------

\* No place of a file is written twice, by whichever threads.
PlacesOwned == [][\A i \in DOMAIN file :
                    (pc' = pc /\ file[i] # Empty) => file'[i] = file[i]]_vars

\* What the device says
NodesOf(tile, wire) ==
  {n \in 0..(Len(dev.nodes) - 1) :
     \E w \in ToSet(dev.nodes[n + 1]) : dev.wires[w + 1] = [tile |-> tile, wire |-> wire]}
AllPins == FlattenSeq([i \in DOMAIN dev.tiles |-> Pins(dev.tiles[i])])
Places == [wire_tile_node |-> <<Len(FlattenSeq(dev.nodes)), Len(dev.wires)>>,
           site_pin_wire |-> <<Len(AllPins), Len(dev.wires)>>,
           site_pin_node |-> <<Len(SelectSeq(AllPins, LAMBDA p : NodesOf(p.tile, p.wire) # {})),
                               Len(dev.nodes)>>]

\* A device the files can stand for: wires have different names and are in one
\* node, no conventional pip has both ends on one node, and pins stand for wires.
Sound ==
  /\ IsInjective(dev.wires)
  /\ \A w \in ToSet(dev.wires) : Cardinality(NodesOf(w.tile, w.wire)) <= 1
  /\ \A tile \in ToSet(dev.tiles) : \A pip \in ToSet(Pips(tile)) :
       pip.conventional => NodesOf(tile.name, pip.wire0) \cap NodesOf(tile.name, pip.wire1) = {}
  /\ \A p \in ToSet(AllPins) : [tile |-> p.tile, wire |-> p.wire] \in ToSet(dev.wires)

\* The device alone decides how the making ends, not the order of the threads:
\* aborted only if it is not sound, beyond the end of a file only if there is
\* more to store than the file has places, and done otherwise.
EndsAsItShould ==
  /\ pc = "done" => /\ Sound
                    /\ \A name \in DOMAIN Places : Places[name][1] <= Places[name][2]
  /\ pc = "aborted" => ~Sound
  /\ pc = "overrun" => \E name \in DOMAIN Places : Places[name][1] > Places[name][2]

\* Every search then finds what the device says.
Resolves ==
  pc = "done" =>
    /\ \A i \in DOMAIN dev.wires :
         LET w == dev.wires[i]
         IN /\ WireFound(w.tile, w.wire) /\ wire_tile_to_wire(w.tile, w.wire) = i - 1
            /\ {n \in {node_of(w.tile, w.wire)} : n # None} = NodesOf(w.tile, w.wire)
    /\ \A p \in ToSet(AllPins) :
         /\ \E e \in ToSet(With(site_pin_wire, <<p.site, p.pin>>)) :
              e[3] = wire_tile_to_wire(p.tile, p.wire)
         /\ \A n \in NodesOf(p.tile, p.wire) :
              n \in {e[3] : e \in ToSet(With(site_pin_node, <<p.site, p.pin>>))}
    /\ \A i \in DOMAIN dev.tiles : \A p \in DOMAIN Pips(dev.tiles[i]) :
         LET pip == Pips(dev.tiles[i])[p]
             ends == NodesOf(dev.tiles[i].name, pip.wire0) \cup NodesOf(dev.tiles[i].name, pip.wire1)
             found == With(tile_pip_node, <<dev.tiles[i].index, p - 1>>)
         IN {e[3] : e \in ToSet(found)} = IF pip.conventional THEN ends ELSE {}

\* A tile's vector of the dense file has each conventional pip with the tiles that
\* the node it is driven from reaches, and of a pip of both directions the other
\* node too.
TilePipsWhole ==
  pc = "done" =>
    \A i, j \in DOMAIN dev.tiles : \A p \in DOMAIN Pips(dev.tiles[i]) :
      LET pip == Pips(dev.tiles[i])[p]
          from == UNION {NodesOf(dev.tiles[i].name, wire) :
                           wire \in IF ~pip.conventional THEN {}
                                    ELSE IF pip.directional THEN {pip.wire0}
                                    ELSE {pip.wire0, pip.wire1}}
      IN <<dev.tiles[j].index, p - 1>> \in ToSet(dense_at(tile_tile_pip, dev.tiles[i].index)) <=>
           \E n \in from : \E w \in ToSet(dev.nodes[n + 1]) :
             dev.wires[w + 1].tile = dev.tiles[j].name
=============================================================================
