--------------------------- MODULE RenumberedWires ---------------------------
(***************************************************************************)
(* RenumberedWires::make_pips of src/RenumberedWires.h: the wires of the   *)
(* nodes get new numbers, their places in a file of hash buckets, and the  *)
(* other files (nodes, the node of a wire, pips, pins of sites) are        *)
(* written in those numbers and tested.  The sequential router runs on     *)
(* what the searches of this class find.                                   *)
(***************************************************************************)
EXTENDS Integers, SequencesExt, DenseSets

CONSTANTS
  Strings,   \* indices of strings: names of wires, tiles, sites and pins
  Devices,   \* as for SortedTables, a pip being [wire0, wire1, directional, pseudo]
  Crcs       \* what _mm_crc32_u64 may be: functions of pairs of strings

\* What a device lists
WireNames == [tile : Strings, wire : Strings]
TypePips == [wire0 : Nat, wire1 : Nat, directional : BOOLEAN, pseudo : BOOLEAN]
SiteTypes == [pins : Seq(Strings), wires : Seq(Strings)]
TileTypes == [wires : Seq(Strings), pips : Seq(TypePips), siteTypes : Seq(SiteTypes)]
Sites == [name : Strings, type : Nat]
Tiles == [name : Strings, type : Nat, sites : Seq(Sites)]

ASSUME DeviceFilesAssumption == \A d \in Devices :
  /\ d.wires \in Seq(WireNames) /\ d.types \in Seq(TileTypes) /\ d.tiles \in Seq(Tiles)
  /\ d.nodes \in Seq(Seq(0..(Len(d.wires) - 1)))
  /\ \A type \in ToSet(d.types) :
       /\ \A pip \in ToSet(type.pips) : pip.wire0 < Len(type.wires) /\ pip.wire1 < Len(type.wires)
       /\ \A siteType \in ToSet(type.siteTypes) : Len(siteType.pins) <= Len(siteType.wires)
  /\ \A tile \in ToSet(d.tiles) :
       /\ tile.type < Len(d.types)
       /\ \A site \in ToSet(tile.sites) : site.type < Len(d.types[tile.type + 1].siteTypes)

ASSUME ChecksumAssumption == Crcs \subseteq [Strings \X Strings -> Nat]

VARIABLES
  dev, crc,
  stage,         \* the part of make_pips that runs, "made" or "aborted"
  at,            \* the node, the wire, the pip or the pin its loop is at
  buckets,       \* ret, of make_wires, then site_pin_wires_kv
  node_renumber, \* the bucket and the place in it of each wire of a node
  node_final,
  wire_to_pips, node_to_pips,   \* vectors, and then what is in the files
  alt_wires, alt_nodes, alt_wire_to_node, alt_pips, alt_site_pins,
  bad_wires      \* counted by test_wires

files == <<alt_wires, alt_nodes, alt_wire_to_node, alt_pips, alt_site_pins>>
making == <<dev, crc, stage, at, buckets, node_renumber, node_final, wire_to_pips,
            node_to_pips, files, bad_wires>>

NotFound == -1   \* UINT32_MAX

\* 1 << (64 - lzcnt(count)): the least power of two that is greater
HashSizeOf(count) ==
  LET size[n \in 0..count] ==
        IF n = 0 THEN 1 ELSE IF size[n - 1] > n THEN size[n - 1] ELSE 2 * size[n - 1]
  IN size[count]
HashSize == HashSizeOf(Len(dev.wires))

Type(tile) == dev.types[tile.type + 1]
Key(wire) == <<dev.wires[wire + 1].wire, dev.wires[wire + 1].tile>>

-----------------------------------------------------------------------------
(* The searches *)

\* The place in the body of the i-th entry of a bucket
Place(sets, b, i) == sets.header[b + 1].offset + i - 1

\* The first entry of the bucket that agrees with the key, keys being the keys of
\* its entries
Lookup(sets, b, keys, key) ==
  LET i == SelectInSeq(keys, LAMBDA k : k = key)
  IN IF i = 0 THEN NotFound ELSE Place(sets, b, i)

find_wire(tile, wire) ==
  LET b == crc[<<wire, tile>>] % dense_size(alt_wires)
  IN Lookup(alt_wires, b, dense_at(alt_wires, b), <<wire, tile>>)

PinKeys(bucket) == [i \in DOMAIN bucket |-> <<bucket[i].site, bucket[i].pin>>]
find_site_pin(site, pin) ==
  LET b == crc[<<site, pin>>] % dense_size(alt_site_pins)
  IN Lookup(alt_site_pins, b, PinKeys(dense_at(alt_site_pins, b)), <<site, pin>>)
find_site_pin_wire(site, pin) ==
  LET i == find_site_pin(site, pin) IN IF i = NotFound THEN NotFound ELSE alt_site_pins.body[i + 1].wire
find_site_pin_node(site, pin) ==
  LET i == find_site_pin(site, pin) IN IF i = NotFound THEN NotFound ELSE alt_site_pins.body[i + 1].node

NodeOf(wire) == alt_wire_to_node[wire + 1]

\* A pip as it is taken, <<id, forward>>, and the nodes it leaves and enters
get_pip_node_in(pip) ==
  NodeOf(IF pip[2] THEN alt_pips[pip[1] + 1].wire0 ELSE alt_pips[pip[1] + 1].wire1)
get_pip_node_out(pip) ==
  NodeOf(IF pip[2] THEN alt_pips[pip[1] + 1].wire1 ELSE alt_pips[pip[1] + 1].wire0)

-----------------------------------------------------------------------------

Start(part) == stage' = part /\ at' = 0
Step == at' = at + 1 /\ UNCHANGED stage

MakeInit ==
  /\ dev \in Devices /\ crc \in Crcs
  /\ stage = "make_wires" /\ at = 0
  /\ buckets = [b \in 1..HashSize |-> <<>>]
  /\ node_renumber = [n \in DOMAIN dev.nodes |-> <<>>] /\ node_final = <<>>
  /\ wire_to_pips = <<>> /\ node_to_pips = <<>>
  /\ alt_wires = dense(<<>>) /\ alt_nodes = dense(<<>>) /\ alt_wire_to_node = <<>>
  /\ alt_pips = <<>> /\ alt_site_pins = dense(<<>>)
  /\ bad_wires = 0

\* The next wire of the node goes to the end of its bucket, and the node remembers
\* where
MakeWires ==
  /\ stage = "make_wires" /\ at < Len(dev.nodes)
  /\ Len(node_renumber[at + 1]) < Len(dev.nodes[at + 1])
  /\ LET key == Key(dev.nodes[at + 1][Len(node_renumber[at + 1]) + 1])
         b == crc[key] % HashSize
     IN /\ buckets' = [buckets EXCEPT ![b + 1] = Append(@, key)]
        /\ node_renumber' = [node_renumber EXCEPT ![at + 1] = Append(@, <<b, Len(buckets[b + 1])>>)]
  /\ UNCHANGED <<dev, crc, stage, at, node_final, wire_to_pips, node_to_pips, files, bad_wires>>

NextNode ==
  /\ stage = "make_wires" /\ at < Len(dev.nodes)
  /\ Len(node_renumber[at + 1]) = Len(dev.nodes[at + 1])
  /\ Step
  /\ UNCHANGED <<dev, crc, buckets, node_renumber, node_final, wire_to_pips, node_to_pips,
                 files, bad_wires>>

WriteWires ==
  /\ stage = "make_wires" /\ at = Len(dev.nodes)
  /\ alt_wires' = dense(buckets)
  /\ Start("make_node_to_wires")
  /\ UNCHANGED <<dev, crc, buckets, node_renumber, node_final, wire_to_pips, node_to_pips,
                 alt_nodes, alt_wire_to_node, alt_pips, alt_site_pins, bad_wires>>

\* The new number of a wire
Renumbered(place) == alt_wires.header[place[1] + 1].offset + place[2]

MakeNodeToWires ==
  /\ stage = "make_node_to_wires" /\ at < Len(dev.nodes)
  /\ LET node == dev.nodes[at + 1]
         final == [k \in DOMAIN node |-> Renumbered(node_renumber[at + 1][k])]
     IN IF \A k \in DOMAIN node : alt_wires.body[final[k] + 1] = Key(node[k])
        THEN node_final' = Append(node_final, final) /\ Step
        ELSE stage' = "aborted" /\ UNCHANGED <<node_final, at>>
  /\ UNCHANGED <<dev, crc, buckets, node_renumber, wire_to_pips, node_to_pips, files, bad_wires>>

\* nodes2.bin is written; wire_to_node2.bin is created with zeros in it, and
\* cannot be if it would be empty
WriteNodes ==
  /\ stage = "make_node_to_wires" /\ at = Len(dev.nodes)
  /\ alt_nodes' = dense(node_final)
  /\ IF alt_wires.body = <<>> THEN stage' = "aborted" /\ UNCHANGED at
                              ELSE Start("make_wire_to_node")
  /\ alt_wire_to_node' = [w \in DOMAIN alt_wires.body |-> 0]
  /\ UNCHANGED <<dev, crc, buckets, node_renumber, node_final, wire_to_pips, node_to_pips,
                 alt_wires, alt_pips, alt_site_pins, bad_wires>>

MakeWireToNode ==
  /\ stage = "make_wire_to_node" /\ at < dense_size(alt_nodes)
  /\ alt_wire_to_node' = [w \in DOMAIN alt_wire_to_node |->
       IF w - 1 \in ToSet(dense_at(alt_nodes, at)) THEN at ELSE alt_wire_to_node[w]]
  /\ Step
  /\ UNCHANGED <<dev, crc, buckets, node_renumber, node_final, wire_to_pips, node_to_pips,
                 alt_wires, alt_nodes, alt_pips, alt_site_pins, bad_wires>>

WireToNodeMade ==
  /\ stage = "make_wire_to_node" /\ at = dense_size(alt_nodes)
  /\ wire_to_pips' = [w \in DOMAIN alt_wires.body |-> <<>>]
  /\ Start("make_wire_to_pips")
  /\ UNCHANGED <<dev, crc, buckets, node_renumber, node_final, node_to_pips, files, bad_wires>>

TilePips(tile) ==
  [p \in DOMAIN Type(tile).pips |->
    LET pip == Type(tile).pips[p]
        name(w) == Type(tile).wires[w + 1]
    IN [tile |-> tile.name, wire0 |-> name(pip.wire0), wire1 |-> name(pip.wire1),
        directional |-> pip.directional, pseudo |-> pip.pseudo]]
DevicePips == FlattenSeq([i \in DOMAIN dev.tiles |-> TilePips(dev.tiles[i])])

\* A pip with both wires in nodes is entered at its first wire, and unless it is
\* directional at the other too
MakeWireToPips ==
  /\ stage = "make_wire_to_pips" /\ at < Len(DevicePips)
  /\ LET pip == DevicePips[at + 1]
         wire0 == find_wire(pip.tile, pip.wire0)
         wire1 == find_wire(pip.tile, pip.wire1)
         id == Len(alt_pips)
         forward == [wire_to_pips EXCEPT ![wire0 + 1] = Append(@, <<id, TRUE>>)]
     IN IF pip.pseudo \/ wire0 = NotFound \/ wire1 = NotFound THEN UNCHANGED <<alt_pips, wire_to_pips>>
        ELSE /\ alt_pips' = Append(alt_pips, [wire0 |-> wire0, wire1 |-> wire1,
                                             directional |-> pip.directional])
             /\ wire_to_pips' = IF pip.directional THEN forward
                                ELSE [forward EXCEPT ![wire1 + 1] = Append(@, <<id, FALSE>>)]
  /\ Step
  /\ UNCHANGED <<dev, crc, buckets, node_renumber, node_final, node_to_pips, alt_wires,
                 alt_nodes, alt_wire_to_node, alt_site_pins, bad_wires>>

WireToPipsMade ==
  /\ stage = "make_wire_to_pips" /\ at = Len(DevicePips)
  /\ node_to_pips' = [i \in 1..dense_size(alt_nodes) |-> <<>>]
  /\ Start("make_node_to_pips")
  /\ UNCHANGED <<dev, crc, buckets, node_renumber, node_final, wire_to_pips, files, bad_wires>>

\* Mutant: whether the pip is directional is not asked
MakeNodeToPips_Both ==
  /\ stage = "make_node_to_pips" /\ at < Len(alt_pips)
  /\ LET out == get_pip_node_in(<<at, TRUE>>) + 1
         back == get_pip_node_in(<<at, FALSE>>) + 1
         forward == [node_to_pips EXCEPT ![out] = Append(@, <<at, TRUE>>)]
     IN node_to_pips' = [forward EXCEPT ![back] = Append(@, <<at, FALSE>>)]
  /\ Step
  /\ UNCHANGED <<dev, crc, buckets, node_renumber, node_final, wire_to_pips, files, bad_wires>>

MakeNodeToPips ==
  /\ stage = "make_node_to_pips" /\ at < Len(alt_pips)
  /\ LET out == get_pip_node_in(<<at, TRUE>>) + 1
         back == get_pip_node_in(<<at, FALSE>>) + 1
         forward == [node_to_pips EXCEPT ![out] = Append(@, <<at, TRUE>>)]
     IN node_to_pips' = IF alt_pips[at + 1].directional THEN forward
                        ELSE [forward EXCEPT ![back] = Append(@, <<at, FALSE>>)]
  /\ Step
  /\ UNCHANGED <<dev, crc, buckets, node_renumber, node_final, wire_to_pips, files, bad_wires>>

NodeToPipsMade ==
  /\ stage = "make_node_to_pips" /\ at = Len(alt_pips)
  /\ buckets' = [b \in 1..HashSize |-> <<>>]
  /\ Start("make_site_pin_wires")
  /\ UNCHANGED <<dev, crc, node_renumber, node_final, wire_to_pips, node_to_pips, files, bad_wires>>

\* The pins of the sites of a tile
Pins(tile) ==
  FlattenSeq([s \in DOMAIN tile.sites |->
    LET siteType == Type(tile).siteTypes[tile.sites[s].type + 1]
    IN [p \in DOMAIN siteType.pins |->
         [site |-> tile.sites[s].name, pin |-> siteType.pins[p],
          tile |-> tile.name, wire |-> siteType.wires[p]]]])

SitePins == FlattenSeq([i \in DOMAIN dev.tiles |-> Pins(dev.tiles[i])])

\* Mutant: the bucket is that of the wire
MakeSitePinWires_Bucket ==
  /\ stage = "make_site_pin_wires" /\ at < Len(SitePins)
  /\ LET pin == SitePins[at + 1]
         wire == find_wire(pin.tile, pin.wire)
         b == crc[<<pin.wire, pin.tile>>] % HashSize
     IN buckets' = IF wire = NotFound THEN buckets
                   ELSE [buckets EXCEPT ![b + 1] =
                           Append(@, [site |-> pin.site, pin |-> pin.pin, wire |-> wire,
                                      node |-> NodeOf(wire)])]
  /\ Step
  /\ UNCHANGED <<dev, crc, node_renumber, node_final, wire_to_pips, node_to_pips, files, bad_wires>>

MakeSitePinWires ==
  /\ stage = "make_site_pin_wires" /\ at < Len(SitePins)
  /\ LET pin == SitePins[at + 1]
         wire == find_wire(pin.tile, pin.wire)
         b == crc[<<pin.site, pin.pin>>] % HashSize
     IN buckets' = IF wire = NotFound THEN buckets
                   ELSE [buckets EXCEPT ![b + 1] =
                           Append(@, [site |-> pin.site, pin |-> pin.pin, wire |-> wire,
                                      node |-> NodeOf(wire)])]
  /\ Step
  /\ UNCHANGED <<dev, crc, node_renumber, node_final, wire_to_pips, node_to_pips, files, bad_wires>>

WriteSitePins ==
  /\ stage = "make_site_pin_wires" /\ at = Len(SitePins)
  /\ alt_site_pins' = dense(buckets)
  /\ Start("test_nodes")
  /\ UNCHANGED <<dev, crc, buckets, node_renumber, node_final, wire_to_pips, node_to_pips,
                 alt_wires, alt_nodes, alt_wire_to_node, alt_pips, bad_wires>>

\* test_nodes: a node has its wires, by name and in order, and they have it
TestNodes ==
  /\ stage = "test_nodes" /\ at < Len(dev.nodes)
  /\ LET node == dev.nodes[at + 1]
         alt == dense_at(alt_nodes, at)
     IN IF /\ Len(alt) = Len(node)
           /\ \A k \in DOMAIN node : /\ NodeOf(alt[k]) = at
                                     /\ alt_wires.body[alt[k] + 1] = Key(node[k])
        THEN Step ELSE stage' = "aborted" /\ UNCHANGED at
  /\ UNCHANGED <<dev, crc, buckets, node_renumber, node_final, wire_to_pips, node_to_pips,
                 files, bad_wires>>

NodesTested ==
  /\ stage = "test_nodes" /\ at = Len(dev.nodes)
  /\ Start("test_wires")
  /\ UNCHANGED <<dev, crc, buckets, node_renumber, node_final, wire_to_pips, node_to_pips,
                 files, bad_wires>>

InNode(wire) == \E n \in DOMAIN dev.nodes : wire \in ToSet(dev.nodes[n])

\* What test_wires takes for the name of the tile is that of the wire
FoundTile(w) == alt_wires.body[w + 1][1]

TestWires ==
  /\ stage = "test_wires" /\ at < Len(dev.wires)
  /\ LET name == dev.wires[at + 1]
         found == find_wire(name.tile, name.wire)
         bad == InNode(at) /\ (found = NotFound \/ alt_wires.body[found + 1][1] # name.wire
                                            \/ FoundTile(found) # name.tile)
     IN bad_wires' = IF bad THEN bad_wires + 1 ELSE bad_wires
  /\ Step
  /\ UNCHANGED <<dev, crc, buckets, node_renumber, node_final, wire_to_pips, node_to_pips, files>>

\* test_site_pin_wires only counts
WiresTested ==
  /\ stage = "test_wires" /\ at = Len(dev.wires)
  /\ stage' = "made" /\ UNCHANGED at
  /\ UNCHANGED <<dev, crc, buckets, node_renumber, node_final, wire_to_pips, node_to_pips,
                 files, bad_wires>>

-----------------------------------------------------------------------------

Make == \/ MakeWires \/ NextNode \/ WriteWires \/ MakeNodeToWires \/ WriteNodes
        \/ MakeWireToNode \/ WireToNodeMade \/ MakeWireToPips \/ WireToPipsMade
        \/ MakeNodeToPips \/ NodeToPipsMade \/ MakeSitePinWires \/ WriteSitePins
        \/ TestNodes \/ NodesTested \/ TestWires \/ WiresTested
MakeEnded == stage \in {"made", "aborted"} /\ UNCHANGED making

MakeNext == Make \/ MakeEnded
MakeSpec == MakeInit /\ [][MakeNext]_making

-----------------------------------------------------------------------------

\* The making aborts only if no node has a wire: neither check of names can fail,
\* nor the test of the nodes, whichever wires share a bucket, a node or a name.
AbortsIfNothing == stage = "aborted" => \A n \in DOMAIN dev.nodes : dev.nodes[n] = <<>>

\* The new numbers are the places of the nodes' wires, each given once, and the
\* file of nodes and the node of a wire say the same.
NumbersAgree ==
  stage = "made" =>
    /\ dense_size(alt_nodes) = Len(dev.nodes)
    /\ \A w \in 0..(Len(alt_wires.body) - 1) : \A n \in 0..(Len(dev.nodes) - 1) :
         Cardinality({k \in 1..Len(dense_at(alt_nodes, n)) : dense_at(alt_nodes, n)[k] = w})
           = IF NodeOf(w) = n THEN 1 ELSE 0

\* A device that the files can stand for: wires and pins have different names,
\* and a wire is in one node at most, once.
SoundWires == IsInjective(dev.wires) /\ IsInjective(FlattenSeq(dev.nodes))
SoundPins == \A i, j \in DOMAIN SitePins :
               SitePins[i].site = SitePins[j].site /\ SitePins[i].pin = SitePins[j].pin => i = j

NodesOf(tile, wire) ==
  {n \in 0..(Len(dev.nodes) - 1) :
     \E w \in ToSet(dev.nodes[n + 1]) : dev.wires[w + 1] = [tile |-> tile, wire |-> wire]}

\* The node that is found for the name of a wire, if it is in one, is the node the
\* device has it in, and a pin of a site leads to the same, collisions or not.
NamesFound ==
  stage = "made" /\ SoundWires =>
    /\ \A name \in ToSet(dev.wires) :
         LET w == find_wire(name.tile, name.wire)
         IN {NodeOf(v) : v \in {w} \ {NotFound}} = NodesOf(name.tile, name.wire)
    /\ SoundPins => \A pin \in ToSet(SitePins) :
         /\ find_site_pin_wire(pin.site, pin.pin) = find_wire(pin.tile, pin.wire)
         /\ {find_site_pin_node(pin.site, pin.pin)} \ {NotFound} = NodesOf(pin.tile, pin.wire)

\* What leaves a node by wires and what leaves it by pips is made of different
\* files, and is the same, each way of taking a pip once.
PipsAtBothEnds ==
  stage = "made" =>
    \A n \in 0..(Len(dev.nodes) - 1) :
      LET byWire == FlattenSeq([k \in DOMAIN dense_at(alt_nodes, n) |->
                                  wire_to_pips[dense_at(alt_nodes, n)[k] + 1]])
      IN /\ ToSet(byWire) = ToSet(node_to_pips[n + 1])
         /\ IsInjective(byWire) /\ IsInjective(node_to_pips[n + 1])

\* The pips that leave a node lead where the device's pips do from the node's
\* wires, and no others.
ArcsAsInDevice ==
  stage = "made" /\ SoundWires =>
    LET arcs(pip) == (NodesOf(pip.tile, pip.wire0) \X NodesOf(pip.tile, pip.wire1))
                       \cup (IF pip.directional THEN {}
                             ELSE NodesOf(pip.tile, pip.wire1) \X NodesOf(pip.tile, pip.wire0))
        taken(n) == {<<get_pip_node_in(p), get_pip_node_out(p)>> : p \in ToSet(node_to_pips[n])}
    IN UNION {taken(n) : n \in DOMAIN node_to_pips}
         = UNION {arcs(pip) : pip \in {q \in ToSet(DevicePips) : ~q.pseudo}}

\* What RenumberedWires numbers, finds and lists, on every device and for every
\* checksum: wires and pins by name, and pips by node.
NamesResolve == AbortsIfNothing /\ NumbersAgree /\ NamesFound
PipsLeadAsInDevice == PipsAtBothEnds /\ ArcsAsInDevice
=============================================================================
