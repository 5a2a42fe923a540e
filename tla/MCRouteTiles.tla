---------------------------- MODULE MCRouteTiles ----------------------------
(***************************************************************************)
(* Seven tiles and five stubs for RouteTiles: "A", "B" and "F" reach the   *)
(* tile of their source, "A" and "F" over one tile in one round, "D" is    *)
(* led away from a tile no pip leads to, first to one of two tiles that    *)
(* are as near, and "E" has no tile to go to.                              *)
(***************************************************************************)
EXTENDS RouteTiles, TLC

Col == << 0, 2, 4, 5, 0, 7, 9 >>
Row == << 0, 1, 0, 3, 4, 1, 9 >>

(* The square of Tile_Index::distance orders tiles as the distance does. *)
Square(x) == x * x
MCDistance ==
  [t \in 0..6 |-> [u \in 0..6 |->
     Square(Col[t + 1] - Col[u + 1]) + Square(Row[t + 1] - Row[u + 1])]]

MCPipTiles ==
  (0 :> << 1, 4 >>) @@ (1 :> << 0, 4, 2 >>) @@ (2 :> << 1, 3, 5 >>)
    @@ (3 :> << 2, 4, 5 >>) @@ (4 :> << 0 >>) @@ (5 :> << >>) @@ (6 :> << >>)

MCStubs == {"A", "B", "D", "E", "F"}
MCStartTile == ("A" :> 5) @@ ("B" :> 4) @@ ("D" :> 1) @@ ("E" :> 5) @@ ("F" :> 3)
MCSource == ("A" :> 0) @@ ("B" :> 5) @@ ("D" :> 6) @@ ("E" :> 0) @@ ("F" :> 0)
MCFirstTiles ==
  ("A" :> << 2, 3 >>) @@ ("B" :> << 4, 0 >>) @@ ("D" :> << >>)
    @@ ("E" :> << 5 >>) @@ ("F" :> << >>)
MCPlacements ==
  {[t \in 0..6 |-> SelectSeq(netlist, LAMBDA s : MCStartTile[s] = t)] :
     netlist \in { << "A", "B", "D", "E", "F" >>, << "F", "E", "D", "B", "A" >> }}
=============================================================================
