-------------------------------- MODULE Beam --------------------------------
(***************************************************************************)
(* The beam of the node router's kernel (cur_heads in                      *)
(* src/kernels/node_router.cl): slots that hold a head or None, a head     *)
(* being a pip that may be taken next, with its cost.                      *)
(***************************************************************************)
EXTENDS Integers

CONSTANTS
  None,        \* four UINT_MAX: a slot without a head
  BeamWidth,   \* slots of a beam (host: 32)
  InsertWidth  \* slots the insertion loop looks at (kernel: 16)

ASSUME WidthAssumption ==
  /\ InsertWidth \in Nat \ {0}
  /\ BeamWidth \in Nat
  /\ InsertWidth <= BeamWidth

NoBeam == [j \in 1..BeamWidth |-> None]

(* The front head leaves, the others move up. *)
Shift(beam) == [j \in 1..BeamWidth |->
                  IF j < BeamWidth THEN beam[j + 1] ELSE None]

(* Mutant: the dearer head stays in front. *)
LessReversed(x, y) == y = None \/ (x # None /\ x.cost > y.cost)

(* is_less: x takes the slot of y. An empty x compares as a NaN, so it only *)
(* takes an empty slot. *)
Less(x, y) == y = None \/ (x # None /\ x.cost < y.cost)

(* The insertion loop carries a head along the slots 1..InsertWidth and    *)
(* swaps it with every slot it is less than.  A slot swaps when every      *)
(* earlier head of the line is less than it, and it then gets the head of  *)
(* the last slot that swapped before it; slot 0 stands for the new head. *)
Line(beam, h) == [j \in 0..InsertWidth |-> IF j = 0 THEN h ELSE beam[j]]

Swaps(line, j) == \A i \in 0..(j - 1) : Less(line[i], line[j])

Carried(line, j) ==
  CHOOSE i \in 0..(j - 1) :
    Swaps(line, i) /\ \A k \in (i + 1)..(j - 1) : ~Swaps(line, k)

Insert(beam, h) ==
  LET line == Line(beam, h)
  IN  [j \in 1..BeamWidth |->
         IF j <= InsertWidth /\ Swaps(line, j)
         THEN line[Carried(line, j)]
         ELSE beam[j]]

(* The head the loop is left with, which is lost; None if there is none. *)
Overflow(beam, h) == Line(beam, h)[Carried(Line(beam, h), InsertWidth + 1)]
=============================================================================
