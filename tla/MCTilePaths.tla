----------------------------- MODULE MCTilePaths -----------------------------
(***************************************************************************)
(* Small tile types for TilePaths: wire 0 drives no pip, wires 1 and 2 are *)
(* driven by none, so that paths start at 0 and finish at 1 or 2.          *)
(***************************************************************************)
EXTENDS TilePaths

Pip(a, b) == [wire0 |-> a, wire1 |-> b, directional |-> TRUE]
Both(a, b) == [wire0 |-> a, wire1 |-> b, directional |-> FALSE]
NoPips == [wires |-> 1, pips |-> {}]

\* Two finishes and a start around three inner wires, which every subset of the
\* possible pips connects
InnerPips == {Pip(a, b) : a \in 3..5, b \in 3..5} \ {Pip(a, a) : a \in 3..5}
EndPips == {Pip(1, 3), Pip(1, 4), Pip(2, 4), Pip(5, 0)}
SomeTypes ==
  {<<[wires |-> 6, pips |-> inner \cup ends \cup {Pip(4, 0)}], NoPips>> :
     inner \in SUBSET InnerPips, ends \in SUBSET EndPips}

\* A type with a cycle and parallel ways of three lengths and two starts, one
\* without inner wires, and one whose pips all go both ways at one end
BigType == [wires |-> 7,
            pips |-> {Pip(1, 3), Pip(1, 4), Pip(3, 4), Pip(4, 3), Pip(4, 5), Pip(3, 6),
                      Both(5, 6), Pip(6, 0), Pip(5, 0), Pip(6, 2), Pip(1, 2)}]
BothWays == [wires |-> 5,
             pips |-> {Pip(1, 2), Both(2, 3), Both(3, 4), Both(2, 4), Pip(3, 0), Pip(4, 0)}]

\* Four times four wires in a row: 16 paths of one length between two wires
Ladder == [wires |-> 10,
           pips |-> {Pip(1, a) : a \in 2..5} \cup {Pip(b, 0) : b \in 6..9}
                    \cup {Pip(a, b) : a \in 2..5, b \in 6..9}]

SmallTypeLists ==
  SomeTypes \cup {<<BigType, [wires |-> 2, pips |-> {Pip(0, 1)}], BothWays>>,
                  <<NoPips, BothWays, Ladder>>}
NoEntry == [count |-> 0, index |-> 0]
=============================================================================
