---------------------------- MODULE FlatPipPaths ----------------------------
(***************************************************************************)
(* The table of paths that PathContainer::store_in_file lays out flat and  *)
(* FlatPipPaths reads (src/tile-based-router.h).                           *)
(*                                                                         *)
(* The pairs <<tile type, start, finish, depth>> with their path ids are a *)
(* tree of vectors indexed by these four numbers.  Each level becomes one  *)
(* array of [count, index] entries, that of a vector being consecutive; an *)
(* empty entry's index is the distance, negated, to the next entry that is *)
(* not empty, in whichever vector that is.  A subscript only adds: what it *)
(* reads past its vector is the next one.                                  *)
(***************************************************************************)
EXTENDS Integers, FiniteSets, SequencesExt, FiniteSetsExt

CONSTANTS
  TileTypeCount, \* tileType_count
  CountLimit,    \* 2^16: the counts are uint16_t, as are the scan's indices
  Beyond         \* the entry that is read behind the end of an array

ASSUME FlatAssumption == /\ TileTypeCount \in Nat /\ CountLimit \in Nat \ {0}
                         /\ Beyond.count \in 0..(CountLimit - 1)

-----------------------------------------------------------------------------

Resize(v, n) == v \o [i \in 1..Max({0, n - Len(v)}) |-> <<>>]

\* The vector over 0, 1, .. whose last entry has the largest of the indices
Size(indices) == Max(indices \cup {-1}) + 1

Starts(pairs, tt) == {key[2] : key \in {k \in DOMAIN pairs : k[1] = tt}}
Finishes(pairs, tt, start) ==
  {key[3] : key \in {k \in DOMAIN pairs : k[1] = tt /\ k[2] = start}}
Depths(pairs, tt, start, finish) ==
  {key[4] : key \in {k \in DOMAIN pairs : k[1] = tt /\ k[2] = start /\ k[3] = finish}}

\* tree_tile_startWire_finishWire: the ids of a depth are inserted before the
\* entry that resize made for them, which is left behind them
DepthVector(pairs, tt, start, finish) ==
  LET depths == Depths(pairs, tt, start, finish)
      filled[n \in 0..Size(depths)] ==
        IF n = 0 THEN <<>>
        ELSE IF n - 1 \in depths
        THEN InsertAt(Resize(filled[n - 1], n), n, pairs[<<tt, start, finish, n - 1>>])
        ELSE filled[n - 1]
  IN filled[Size(depths)]

FinishVector(pairs, tt, start) ==
  <<>> \o [i \in 1..Size(Finishes(pairs, tt, start)) |-> DepthVector(pairs, tt, start, i - 1)]
StartVector(pairs, tt) ==
  <<>> \o [i \in 1..Size(Starts(pairs, tt)) |-> FinishVector(pairs, tt, i - 1)]

Tree(pairs) == <<>> \o [tt \in 1..TileTypeCount |-> StartVector(pairs, tt - 1)]

-----------------------------------------------------------------------------

\* The place in their concatenation where each of the vectors begins
Before(vectors) ==
  LET before[i \in 1..(Len(vectors) + 1)] ==
        IF i = 1 THEN 0 ELSE before[i - 1] + Len(vectors[i - 1])
  IN before

\* The entries of the vectors of a level, over the concatenation of these
Spans(vectors) ==
  LET before == Before(vectors)
  IN <<>> \o [i \in DOMAIN vectors |->
       [count |-> Len(vectors[i]) % CountLimit,
        index |-> IF vectors[i] = <<>> THEN -1 ELSE before[i]]]

\* skippable aborts at an empty entry that has an index
Skips(level) == \A i \in DOMAIN level : level[i].count = 0 => level[i].index = -1

\* Mutant: the distance to the last entry that is not empty
skippable_Last(level) ==
  LET next(i) == Max({j \in (i + 1)..Len(level) : level[j].count # 0} \cup {i + 1})
  IN <<>> \o [i \in DOMAIN level |->
       IF level[i].count # 0 THEN level[i] ELSE [count |-> 0, index |-> i - next(i)]]

skippable(level) ==
  LET next(i) == Min({j \in (i + 1)..Len(level) : level[j].count # 0} \cup {Len(level) + 1})
  IN <<>> \o [i \in DOMAIN level |->
       IF level[i].count # 0 THEN level[i] ELSE [count |-> 0, index |-> i - next(i)]]

Flat(pairs, paths) ==
  LET tree == Tree(pairs)
      tile == FlattenSeq(tree)
      start == FlattenSeq(tile)
      finish == FlattenSeq(start)
  IN [tree |-> skippable(Spans(tree)), tile |-> skippable(Spans(tile)),
      start |-> skippable(Spans(start)), finish |-> skippable(Spans(finish)),
      depth |-> FlattenSeq(finish), path |-> Spans(paths), wires |-> FlattenSeq(paths)]

-----------------------------------------------------------------------------

At(level, i) == IF i + 1 \in DOMAIN level THEN level[i + 1] ELSE Beyond

\* FlatPipPaths::subscript: by tile type and start wire, then by finish wire,
\* then by depth, then the ids, then the wires of a path
subscript1(flat, tt) == At(flat.tree, tt)
subscript2(flat, tt, start) == At(flat.tile, subscript1(flat, tt).index + start)
subscript3(flat, finishes, finish) == At(flat.start, finishes.index + finish)
subscript4(flat, depths, depth) == At(flat.finish, depths.index + depth)
path_ids(flat, ids) == SubSeq(flat.depth, ids.index + 1, ids.index + ids.count)
path_wires(flat, id) ==
  LET span == flat.path[id] IN SubSeq(flat.wires, span.index + 1, span.index + span.count)

\* The loop over the depths in route_step: the ids in the order it tries them
scan(flat, depths) ==
  LET from[d \in Nat] ==
        LET ids == subscript4(flat, depths, d)
        IN IF d >= depths.count THEN <<>>
           ELSE IF ids.count = 0 THEN from[(d - ids.index) % CountLimit]
           ELSE path_ids(flat, ids) \o from[d + 1]
  IN from[0]

\* write_flat_span_file makes a file of each array, and aborts on an empty one:
\* no file of no bytes can be mapped
Storable(flat) == \A level \in DOMAIN flat : flat[level] # <<>>

\* What store_in_file checks, in memory and again through FlatPipPaths, before
\* it goes on
Verified(pairs, flat) ==
  LET tree == Tree(pairs)
  IN /\ Skips(Spans(tree)) /\ Skips(Spans(FlattenSeq(tree)))
     /\ Skips(Spans(FlattenSeq(FlattenSeq(tree))))
     /\ Skips(Spans(FlattenSeq(FlattenSeq(FlattenSeq(tree)))))
     /\ \A tt \in 1..TileTypeCount : flat.tree[tt].count = Len(tree[tt])
     /\ \A key \in DOMAIN pairs :
          pairs[key] =
            path_ids(flat, subscript4(flat, subscript3(flat,
                             subscript2(flat, key[1], key[2]), key[3]), key[4]))
=============================================================================
