---------------------------- MODULE MCTileRouter ----------------------------
(***************************************************************************)
(* The tile-based router over a device of two routing tiles of one type,   *)
(* which has paths, and a tile of a type that has none.  What the router   *)
(* finds in the tables is what FlatPipPaths reads.                         *)
(***************************************************************************)
EXTENDS TileRouter, TLC, Functions

Table == INSTANCE FlatPipPaths WITH TileTypeCount <- 2, CountLimit <- 65536,
                                    Beyond <- [count |-> 0, index |-> 0]

\* Wires 0, 1 and 3 of the routing type lead through 2, 6 and 7 to 4 and 5:
\* the pips 0>7, 7>2, 1>2, 1>6, 3>6, 2>4, 2>5 and 6>5
Pairs == (<<0, 4, 0, 2>> :> <<1>>) @@ (<<0, 4, 1, 1>> :> <<2>>)
         @@ (<<0, 5, 0, 2>> :> <<1>>) @@ (<<0, 5, 1, 1>> :> <<2, 3>>)
         @@ (<<0, 5, 3, 1>> :> <<3>>)
Paths == <<<<7, 2>>, <<2>>, <<6>>>>
flat == Table!Flat(Pairs, Paths)

\* Tiles 0 and 1 are routing tiles of 8 wires, tile 2 has 2 wires
MCSlotCount == 18
MCSlots == 0..(MCSlotCount - 1)
Offset == [t \in 0..2 |-> 8 * t]
MCTile == [s \in MCSlots |-> s \div 8]
Type(s) == IF MCTile[s] = 2 THEN 1 ELSE 0
Wire(s) == s - Offset[MCTile[s]]
Finishes(s) == Table!subscript2(flat, Type(s), Wire(s))
MCStartable == {s \in MCSlots : Finishes(s).count # 0}
MCScan == [s \in MCSlots |-> [f \in MCSlots |->
             IF s \in MCStartable THEN Table!scan(flat, Table!subscript3(flat, Finishes(s), Wire(f)))
             ELSE <<>>]]
MCStored == [s \in MCSlots |-> [f \in MCSlots |->
               UNION {Range(Pairs[key]) : key \in {k \in DOMAIN Pairs :
                        SubSeq(k, 1, 3) = <<Type(s), Wire(s), Wire(f)>>}}]]
MCInRange == [s \in MCSlots |-> {f \in MCSlots : Wire(f) < Finishes(s).count}]
MCPathSlots == [t \in 0..2 |-> [id \in DOMAIN Paths |->
                  {Offset[t] + w : w \in Range(Table!path_wires(flat, id))}]]

\* Node 4 joins a pin of tile 2 and a wire of tile 0, node 3 two tiles; node
\* 17 has no wire at which paths start
MCNodes == MCSlots \ {11, 16}
MCNodeWires == [n \in MCNodes |-> CASE n = 3 -> <<11, 3>> [] n = 4 -> <<16, 4>> [] OTHER -> <<n>>]
MCNodeOf == [s \in MCSlots |-> CASE s = 11 -> 3 [] s = 16 -> 4 [] OTHER -> s]

MCNets == 0..2
Pin(net, kind, s) == [net |-> net, kind |-> kind, nodes |-> {MCNodeOf[s]}, slots |-> {s}]
Pip(net, slots) == [net |-> net, kind |-> "pip", nodes |-> {}, slots |-> slots]

\* Every way to give three nets a source and a stub each
Wired == {<<Pin(0, "source", a[1]), Pin(0, "stub", z[1]),
            Pin(1, "source", a[2]), Pin(1, "stub", z[2]),
            Pin(2, "source", a[3]), Pin(2, "stub", z[3])>> :
            a \in {b \in [1..3 -> {0, 1, 3, 8}] : IsInjective(b)},
            z \in {y \in [1..3 -> {16, 5, 12, 13}] : IsInjective(y)}}

\* Nets with two stubs, with a stub that can wait nowhere, with no source, with
\* a pip; a pin that is on no node, and a pip with a wire that is not there
Special == {<<Pip(0, {1}), Pin(0, "source", 1), Pin(0, "stub", 4), Pin(0, "stub", 5),
              Pin(1, "stub", 17), Pin(2, "stub", 13)>>,
            <<Pin(0, "source", 1), [Pin(0, "stub", 4) EXCEPT !.nodes = {}]>>,
            <<Pin(0, "source", 1), Pip(0, {})>>}
MCNetlists == Wired \cup Special

\* What the proofs ask of the tables holds of these
ASSUME TablesAssumption == InnerUnstartable /\ ScansStored
=============================================================================
