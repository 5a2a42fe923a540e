------------------------------- MODULE MCNames -------------------------------
(***************************************************************************)
(* The two translations of names: the wires of a small device get their new *)
(* numbers (RenumberedWires), or the strings of a device and a netlist are *)
(* mapped to each other (StringInterchange).  The two share no state, and  *)
(* a behaviour is one of either.                                           *)
(***************************************************************************)
EXTENDS RenumberedWires, StringInterchange

NoWires == /\ dev = <<>> /\ crc = <<>> /\ stage = "none" /\ at = 0
           /\ buckets = <<>> /\ node_renumber = <<>> /\ node_final = <<>>
           /\ wire_to_pips = <<>> /\ node_to_pips = <<>>
           /\ alt_wires = <<>> /\ alt_nodes = <<>> /\ alt_wire_to_node = <<>>
           /\ alt_pips = <<>> /\ alt_site_pins = <<>> /\ bad_wires = 0
NoStrings == /\ devStrs = <<>> /\ physStrs = <<>> /\ kind = "none" /\ pc = "none"
             /\ next = 0 /\ dev_strmap = <<>> /\ pips = <<>> /\ asked = <<>>
             /\ ic = [toDev |-> <<>>, toPhys |-> <<>>, extra |-> <<>>] /\ written = <<>>

EitherInit == \/ MakeInit /\ NoStrings
              \/ Init /\ NoWires
EitherNext == \/ stage # "none" /\ MakeNext /\ UNCHANGED vars
              \/ pc # "none" /\ Next /\ UNCHANGED making
EitherSpec == EitherInit /\ [][EitherNext]_<<making, vars>>

-----------------------------------------------------------------------------
(* Devices of two tiles of one type with two wires and a site each: strings *)
(* 1 and 2 are tiles, 3 and 4 sites and pins, 5 and 6 wires                *)

Wire(tile, wire) == [tile |-> tile, wire |-> wire]
Tile(name, sites) == [name |-> name, type |-> 0, sites |-> sites]
Site(name) == [name |-> name, type |-> 0]
Pip(wire0, wire1, directional, pseudo) ==
  [wire0 |-> wire0, wire1 |-> wire1, directional |-> directional, pseudo |-> pseudo]

WireLists == {<<Wire(1, 5), Wire(1, 6), Wire(2, 5), Wire(2, 6)>>,
              <<Wire(1, 5), Wire(2, 5), Wire(1, 5), Wire(2, 6)>>}

\* Nodes over both tiles; both ends of the pips in one node; a wire in no node,
\* in two, in one twice; nodes without wires
NodeLists == {<<<<0, 2>>, <<1>>, <<3>>>>, <<<<3, 1>>, <<>>, <<0>>, <<2>>>>, <<<<0, 1>>, <<2, 3>>>>,
              <<<<0, 2>>, <<2>>, <<1>>>>, <<<<2, 2>>, <<0>>, <<3>>>>, <<<<3>>, <<0, 1>>>>, <<<<>>, <<>>>>}

TypeOf(typePips) == [wires |-> <<5, 6>>, pips |-> typePips,
                     siteTypes |-> <<[pins |-> <<3, 4>>, wires |-> <<5, 6>>]>>]
Types == {<<TypeOf(<<Pip(0, 1, d, p), Pip(1, 0, TRUE, FALSE)>>)>> :
            d \in BOOLEAN, p \in BOOLEAN}

MCDevices ==
  {[wires |-> w, nodes |-> n, tiles |-> <<Tile(1, <<Site(3)>>), Tile(2, sites)>>, types |-> y] :
     w \in WireLists, n \in NodeLists, sites \in {<<>>, <<Site(4)>>, <<Site(3)>>}, y \in Types}

\* All in one bucket, all in different ones, and two in between
MCStrings == 1..6
Keys == MCStrings \X MCStrings
MCCrcs == {[k \in Keys |-> 0], [k \in Keys |-> 6 * k[1] + k[2]],
           [k \in Keys |-> k[2]], [k \in Keys |-> k[1] * k[2]]}

-----------------------------------------------------------------------------
(* Lists of up to three strings: of one file only, of both, twice in one   *)

MCStrs == 1..4
MCDevLists == {<<1, 2, 3>>, <<2, 1, 2>>, <<3, 1>>}
MCPhysLists == {<<>>, <<4>>, <<1, 4>>, <<2, 4, 2>>, <<4, 3, 1>>, <<1, 1>>}
=============================================================================
