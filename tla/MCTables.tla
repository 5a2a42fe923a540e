------------------------------ MODULE MCTables ------------------------------
(***************************************************************************)
(* The tables of the program: the search files of route_phys (SortedTables) *)
(* or the tables of the newer routers (DeviceTables) are made for a small  *)
(* device of two tiles of one type, or the files of the tile-based router  *)
(* are, with stops of the process (TableCache).                            *)
(***************************************************************************)
EXTENDS SortedTables, TableCache

CONSTANTS LookupDevices, StrCount, WireCount, NodeCount, SitePinsCount, Word

VARIABLES
  lookup_pc, lookup_todo, inverse_wires, wire_idx_to_node_idx, wire_idx_to_tile,
  site_pin_to_wire, site_pin_to_node, tile_wire_to_node, node_tile_wires

Lookup == INSTANCE DeviceTables WITH Devices <- LookupDevices, pc <- lookup_pc,
                                     todo <- lookup_todo

searchVars == <<pc, todo, base, offset, file, tables>>
lookupVars == <<lookup_pc, lookup_todo, inverse_wires, wire_idx_to_node_idx, wire_idx_to_tile,
                site_pin_to_wire, site_pin_to_node, tile_wire_to_node, node_tile_wires>>

NoSearchFiles == /\ pc = "none" /\ Idle
                 /\ wire_tile_wire = <<>> /\ wire_tile_node = <<>> /\ node_tile_pip = <<>>
                 /\ tile_pip_node = <<>> /\ site_pin_wire = <<>> /\ site_pin_node = <<>>
                 /\ tile_tile_pip = <<>>
NoLookupTables == /\ lookup_pc = "none" /\ lookup_todo = <<>> /\ inverse_wires = <<>>
                  /\ wire_idx_to_node_idx = <<>> /\ wire_idx_to_tile = <<>>
                  /\ site_pin_to_wire = <<>> /\ site_pin_to_node = <<>>
                  /\ tile_wire_to_node = <<>> /\ node_tile_wires = <<>>

NoCache == /\ phase = "none" /\ table = <<>> /\ step = 0 /\ disk = <<>>
           /\ loaded = NotLoaded /\ stops = 0 /\ hurt = FALSE

EitherInit == \/ Init /\ NoLookupTables /\ NoCache
              \/ Lookup!Init /\ NoSearchFiles /\ NoCache
              \/ CacheInit /\ NoSearchFiles /\ NoLookupTables /\ dev = <<>>
EitherNext == \/ pc # "none" /\ Next /\ UNCHANGED <<lookupVars, cacheVars>>
              \/ lookup_pc # "none" /\ Lookup!Next /\ UNCHANGED <<searchVars, cacheVars>>
              \/ phase # "none" /\ CacheNext /\ UNCHANGED <<dev, searchVars, lookupVars>>
EitherSpec == EitherInit /\ [][EitherNext]_<<dev, searchVars, lookupVars, cacheVars>>

\* Whether the makers end, abort or write past a file is decided by the device
\* alone, never by the order in which their threads write.
MadeAsItShould == EndsAsItShould /\ (lookup_pc # "none" => Lookup!MadeIfSound)

\* When they have ended, every search and lookup gives what the device says, in
\* either direction.
AllResolve == /\ Resolves /\ TilePipsWhole
              /\ Lookup!Resolves /\ Lookup!TablesAgree

-----------------------------------------------------------------------------
(* Devices for the search files: strings 1 and 2 are tiles, 3 and 4 sites  *)
(* and pins, 5 and 6 wires                                                 *)

Wire(tile, wire) == [tile |-> tile, wire |-> wire]
\* The first tile lies behind the second in the array, with a place between
Tile(name, sites) ==
  [name |-> name, type |-> 0, sites |-> sites, index |-> IF name = 1 THEN 2 ELSE 0]
Site(name) == [name |-> name, type |-> 0]
Pip(wire0, wire1, directional, conventional) ==
  [wire0 |-> wire0, wire1 |-> wire1, directional |-> directional, conventional |-> conventional]

WireLists == {<<Wire(1, 5), Wire(1, 6), Wire(2, 5), Wire(2, 6)>>,
              <<Wire(1, 5), Wire(2, 5), Wire(1, 5), Wire(2, 6)>>}

\* Nodes over both tiles; both ends of the pips in one node; a wire in no node,
\* in two, in one twice; more wires in nodes than there are
NodeLists == {<<<<0, 2>>, <<1>>, <<3>>>>, <<<<3, 1>>, <<>>, <<0>>, <<2>>>>, <<<<0, 1>>, <<2, 3>>>>,
              <<<<0, 2>>, <<2>>, <<1>>>>, <<<<2, 2>>, <<0>>, <<3>>>>,
              <<<<0, 2, 3>>, <<1, 0>>>>, <<<<>>, <<0>>>>}

TypeOf(pins, pips) == [wires |-> <<5, 6>>, pips |-> pips,
                     siteTypes |-> <<[pins |-> pins, wires |-> SubSeq(<<5, 6>>, 1, Len(pins))]>>]
Types == {<<TypeOf(pins, <<Pip(0, 1, d, c), Pip(1, 0, TRUE, TRUE)>>)>> :
            pins \in {<<3>>, <<3, 4>>}, d \in BOOLEAN, c \in BOOLEAN}

MCSearchDevices ==
  {[wires |-> w, nodes |-> n, tiles |-> <<Tile(1, <<Site(3)>>), Tile(2, sites)>>, types |-> y] :
     w \in WireLists, n \in NodeLists, sites \in {<<>>, <<Site(4)>>}, y \in Types}

-----------------------------------------------------------------------------
(* Devices for the other tables, with the string 0, which is what unused   *)
(* places of a file read as                                                *)

\* All wires; one missing, one of them in no pin; one twice
LookupWires == {<<Wire(1, 5), Wire(1, 6), Wire(2, 5), Wire(2, 6)>>,
              <<Wire(1, 5), Wire(1, 6), Wire(2, 5)>>,
              <<Wire(1, 5), Wire(1, 6), Wire(2, 5), Wire(2, 6), Wire(1, 6)>>}

\* Three nodes, with wires in two of them, in one twice, and in none
LookupNodes == {<<a, b, c>> : a \in {<<0, 2>>, <<2, 0, 2>>, <<0>>},
                            b \in {<<1>>, <<1, 2>>, <<>>},
                            c \in {<<3>>, <<1, 3>>, <<>>}}

LookupTypes(wire) == {<<[wires |-> <<5, 6>>,
                   siteTypes |-> <<[pins |-> pins, wires |-> <<5, wire>>]>>]>> :
                  pins \in {<<3, 4>>, <<3, 3>>, <<0, 4>>}}

\* A tile with a site of its own name, of another site's name, or called 0
LookupTiles == {<<Tile(1, <<Site(3)>>), Tile(2, sites)>> :
                sites \in {<<Site(4)>>, <<Site(3)>>, <<Site(0)>>, <<>>}}

Fits(device) == \A n \in DOMAIN device.nodes : \A k \in DOMAIN device.nodes[n] :
                  device.nodes[n][k] < Len(device.wires)

\* Every way to make nodes of the wires on one device, and every device around
\* some of the nodes; both pins of a site are on different wires, or on the same
Of(wireLists, nodeLists, tileLists, types) ==
  {[wires |-> w, nodes |-> n, tiles |-> t, types |-> y] :
     w \in wireLists, n \in nodeLists, t \in tileLists, y \in types}

All == Of(LookupWires, LookupNodes, {<<Tile(1, <<Site(3)>>), Tile(2, <<Site(4)>>)>>},
          {y \in LookupTypes(6) : y[1].siteTypes[1].pins = <<3, 4>>})
       \cup Of(LookupWires, {<<<<0, 2>>, <<1>>, <<>>>>, <<<<0>>, <<>>, <<3>>>>}, LookupTiles,
               LookupTypes(5) \cup LookupTypes(6))

\* A wire that no tile has under this name, in the lists of a type
Odd == {[wires |-> <<Wire(1, 5), Wire(0, 0)>>, nodes |-> <<<<0>>, n>>,
         tiles |-> <<Tile(1, <<Site(3)>>), Tile(0, <<>>)>>,
         types |-> <<[wires |-> <<w>>, siteTypes |-> s]>>] :
          n \in {<<>>, <<1>>}, w \in {0, 5},
          s \in {<<[pins |-> <<3>>, wires |-> <<5>>]>>, <<[pins |-> <<3>>, wires |-> <<6>>]>>}}

MCLookupDevices == {device \in All \cup Odd : Fits(device)}
MCWord == 7 * 7 * 5

-----------------------------------------------------------------------------
(* The files of two tables of the tile-based router                        *)

Opened(f) == <<[op |-> "open", file |-> f], [op |-> "size", file |-> f]>>
Written(f) == <<[op |-> "write", file |-> f]>>

\* write_flat_span_file: tree, tile, start and finish have an index and a count
\* (two of the four levels), depth only an index
FlatFiles == {"tree_index", "tree_count", "finish_index", "finish_count", "depth_index"}
FlatSteps == Opened("tree_index") \o Written("tree_index") \o Opened("tree_count") \o Written("tree_count")
             \o Opened("finish_index") \o Written("finish_index")
             \o Opened("finish_count") \o Written("finish_count")
             \o Opened("depth_index") \o Written("depth_index")
FlatPairs == {<<"tree_index", "tree_count">>, <<"finish_index", "finish_count">>}

\* enum_node_wire_tile_tw makes every file before it fills any
NodeFiles == {"node_counts", "node_offsets", "node_tile_idx", "tile_wire_to_node"}
NodeSteps == Opened("node_counts") \o Opened("node_offsets") \o Opened("node_tile_idx")
             \o Opened("tile_wire_to_node") \o Written("node_offsets") \o Written("node_counts")
             \o Written("tile_wire_to_node") \o Written("node_tile_idx")

MCCacheTables == {[files |-> FlatFiles, marker |-> "tree_count", steps |-> FlatSteps,
              paired |-> FlatPairs],
             [files |-> NodeFiles, marker |-> "node_counts", steps |-> NodeSteps, paired |-> {}]}
=============================================================================
