------------------------------ MODULE DrawWires ------------------------------
(***************************************************************************)
(* The OpenCL tile router: OCL_Tile_Router::do_all of src/ocl_tile_router.h *)
(* and the kernel draw_wires of src/kernels/draw_wires.cl.                  *)
(*                                                                         *)
(* Each work item searches from the tile of a stub to the tile of its      *)
(* source.  Its front is a beam of entries in increasing order; a series   *)
(* is CounterMax steps of every item that is undecided.                    *)
(*                                                                         *)
(* The context is of the default device: one device, and one queue, which  *)
(* runs its commands in order.  (On every queue of a context of several,   *)
(* step_all would run all items, on memory they share, and do_all would    *)
(* await the first only: not modelled.)                                    *)
(***************************************************************************)
EXTENDS Integers, Sequences, FiniteSets

CONSTANTS
  Jobs,        \* records [pairs, padding, group, graph]: a sequence of [source,
               \* stub], tiles <<col, row>> or NoSites; netCountAligned less netCount;
               \* max_workgroup_size; and tile_tile_count_offset with dest_tile, a
               \* function from tiles to sequences of tiles
  Distance,    \* 8 times tile_distance, cut to an integer: a function of two tiles
  CounterMax,  \* ocl_counter_max
  SeriesMax,   \* series_id_max
  BeamWidth,   \* beam_width, 32
  Slots,       \* the slots that are inserted into, 16 in the kernel
  CostMod,     \* 2 ^ 13
  PreviousMod  \* 2 ^ 12

\* A stub of a net that has no site at one of its ends
NoSites == [source |-> <<>>, stub |-> <<>>]

ASSUME DrawWiresAssumption == /\ Slots \in Nat \ {0} /\ BeamWidth \in Nat /\ Slots <= BeamWidth
                              /\ CounterMax \in Nat \ {0} /\ SeriesMax \in Nat \ {0}
                              /\ CostMod \in Nat \ {0} /\ PreviousMod \in Nat \ {0}

\* The tiles are those of the device, and all that a tile leads to are
ASSUME JobsAssumption ==
  \A j \in Jobs :
    /\ j.padding \in Nat /\ j.group \in Nat \ {0}
    /\ LET tiles == DOMAIN j.graph
       IN /\ IsFiniteSet(tiles) /\ tiles \subseteq Nat \X Nat
          /\ j.graph \in [tiles -> Seq(tiles)]
          /\ j.pairs \in Seq([source : tiles, stub : tiles] \cup {NoSites})
          /\ \A a, b \in tiles : Distance[<<a, b>>] \in Nat

VARIABLES
  job,
  host,         \* "step", "finish", "drain", "ended", "failed"
  series,       \* series_id
  item,         \* of each work item: "idle", "ready", "run"
  count_index,  \* of each work item
  curStubs,     \* of each work item, its copy of the beam
  stubLocations,
  drawIndirect, \* [count, state]: state 0 undecided, 1 success or no stub, 2 dead end
  routed,       \* the tile each point of a line was last set to, and in which series
  dirty, host_dirty,
  filling,      \* the fill of dirty is on the queue
  lost          \* history: an entry has fallen out of the front

vars == <<job, host, series, item, count_index, curStubs, stubLocations,
          drawIndirect, routed, dirty, host_dirty, filling, lost>>

pairs == job.pairs
graph == job.graph
Items == 0..(Len(pairs) + job.padding - 1)
SourcePos(i) == pairs[i + 1].source

-----------------------------------------------------------------------------
(* The front *)

\* ULONG_MAX, above all entries and at no tile
Nothing == <<CostMod, 0, 0, 0>>

\* combine: the fields with the most significant first, cut to their bits
combine(cost, previous, tile) ==
  <<cost % CostMod, previous % PreviousMod, tile[2], tile[1]>>
tile_to_coords(entry) == <<entry[4], entry[3]>>
Previous(entry) == entry[2]

Less(a, b) == \E f \in 1..4 : a[f] < b[f] /\ \A g \in 1..(f - 1) : a[g] = b[g]
SameTile(a, b) == (a = Nothing) = (b = Nothing) /\ tile_to_coords(a) = tile_to_coords(b)

\* Mutant: the item is stored and what was there is dropped
Swap_Store(carried, j) ==
  IF carried.placed \/ SameTile(carried.beam[j], carried.item) THEN [carried EXCEPT !.placed = TRUE]
  ELSE IF Less(carried.item, carried.beam[j])
  THEN [beam |-> [carried.beam EXCEPT ![j] = carried.item], item |-> Nothing, placed |-> FALSE]
  ELSE carried

\* The item is compared with a slot: an entry of its tile ends the insertion,
\* else the larger of the two goes on to the next slot
Swap(carried, j) ==
  IF carried.placed \/ SameTile(carried.beam[j], carried.item) THEN [carried EXCEPT !.placed = TRUE]
  ELSE IF Less(carried.item, carried.beam[j])
  THEN [beam |-> [carried.beam EXCEPT ![j] = carried.item], item |-> carried.beam[j], placed |-> FALSE]
  ELSE carried

Insert(front, entry) ==
  LET carried[j \in 0..Slots] ==
        IF j = 0 THEN [beam |-> front.beam, item |-> entry, placed |-> FALSE]
        ELSE Swap(carried[j - 1], j)
      end == carried[Slots]
  IN [beam |-> end.beam, lost |-> front.lost \/ (~end.placed /\ end.item # Nothing)]

\* The head is taken
Rest(beam) == [j \in 1..BeamWidth |-> IF j < BeamWidth THEN beam[j + 1] ELSE Nothing]

\* A tile the head leads to, by its distance from the source and the steps made
Towards(i, head, tile) ==
  combine(Distance[<<SourcePos(i), tile>>] + Previous(head) * 32, Previous(head) + 1, tile)

\* and the other tiles its tile leads to are inserted
Expand(i, beam) ==
  LET head == beam[1]
      cur == tile_to_coords(head)
      tiles == graph[cur]
      front[k \in 0..Len(tiles)] ==
        IF k = 0 THEN [beam |-> Rest(beam), lost |-> lost[i]]
        ELSE IF tiles[k] = cur THEN front[k - 1]
        ELSE Insert(front[k - 1], Towards(i, head, tiles[k]))
  IN front[Len(tiles)]

-----------------------------------------------------------------------------
(* The queue *)

\* workgroup_count whole groups; what the division leaves over is not run
Ran == 0..(job.group * (Cardinality(Items) \div job.group) - 1)

\* Mutant: a queue that does not run its commands in order
Out_Of_Order == TRUE

\* The fill of dirty that the host did not await is run before the next items
InOrder == ~filling

-----------------------------------------------------------------------------

\* make: a stub whose net has sites at both ends starts at its tile
Init == /\ job \in Jobs
        /\ host = "step" /\ series = 0
        /\ item = [i \in Items |-> "idle"] /\ count_index = [i \in Items |-> 0]
        /\ stubLocations =
             [i \in Items |-> [j \in 1..BeamWidth |->
                IF i < Len(pairs) /\ j = 1 /\ pairs[i + 1] # NoSites
                THEN combine(0, 0, pairs[i + 1].stub) ELSE Nothing]]
        /\ curStubs = [i \in Items |-> <<>>]
        /\ drawIndirect =
             [i \in Items |-> [count |-> 0,
                state |-> IF i < Len(pairs) /\ pairs[i + 1] # NoSites THEN 0 ELSE 1]]
        /\ routed = [i \in Items |-> <<>>]
        /\ dirty = 0 /\ host_dirty = 0 /\ filling = FALSE
        /\ lost = [i \in Items |-> FALSE]

step_all == /\ host = "step"
            /\ host' = "finish"
            /\ item' = [i \in Items |-> IF i \in Ran THEN "ready" ELSE item[i]]
            /\ UNCHANGED <<job, series, count_index, curStubs, stubLocations,
                           drawIndirect, routed, dirty, host_dirty, filling, lost>>

\* A range without items is an error up to OpenCL 2.0, and value() throws
Refuse == /\ host = "step" /\ Ran = {}
          /\ host' = "failed"
          /\ UNCHANGED <<job, series, item, count_index, curStubs, stubLocations,
                         drawIndirect, routed, dirty, host_dirty, filling, lost>>

Begin(i) == /\ item[i] = "ready" /\ InOrder
            /\ IF drawIndirect[i].state # 0
               THEN item' = [item EXCEPT ![i] = "idle"] /\ UNCHANGED <<count_index, curStubs>>
               ELSE /\ item' = [item EXCEPT ![i] = "run"]
                    /\ count_index' = [count_index EXCEPT ![i] = 0]
                    /\ curStubs' = [curStubs EXCEPT ![i] = stubLocations[i]]
            /\ UNCHANGED <<job, host, series, stubLocations, drawIndirect, routed,
                           dirty, host_dirty, filling, lost>>

Running(i) == item[i] = "run" /\ count_index[i] < CounterMax
Head1(i) == curStubs[i][1]
AtSource(i) == Head1(i) # Nothing /\ tile_to_coords(Head1(i)) = SourcePos(i)

Draw(i, state) == drawIndirect' = [drawIndirect EXCEPT ![i] =
                                     [count |-> count_index[i] + 1, state |-> state]]
SetPoint(line, k, tile) ==
  IF k < Len(line) THEN [line EXCEPT ![k + 1] = [tile |-> tile, series |-> series]]
  ELSE Append(line, [tile |-> tile, series |-> series])
Route(i, tile) == routed' = [routed EXCEPT ![i] = SetPoint(@, count_index[i], tile)]

\* No point is set: the last of the line is what an earlier series left there
Succeed(i) == /\ Running(i) /\ AtSource(i)
              /\ Draw(i, 1)
              /\ item' = [item EXCEPT ![i] = "idle"]
              /\ UNCHANGED <<job, host, series, count_index, curStubs, stubLocations,
                             routed, dirty, host_dirty, filling, lost>>

RunEmpty(i) == /\ Running(i) /\ Head1(i) = Nothing
               /\ Draw(i, 2) /\ Route(i, SourcePos(i))
               /\ item' = [item EXCEPT ![i] = "idle"]
               /\ UNCHANGED <<job, host, series, count_index, curStubs, stubLocations,
                              dirty, host_dirty, filling, lost>>

\* A head that is followed by one of the same tile would be a dead end too
Search(i) ==
  /\ Running(i) /\ ~AtSource(i) /\ Head1(i) # Nothing
  /\ LET front == Expand(i, curStubs[i])
         new == front.beam[1]
     IN /\ curStubs' = [curStubs EXCEPT ![i] = front.beam]
        /\ lost' = [lost EXCEPT ![i] = front.lost]
        /\ IF SameTile(new, Head1(i))
           THEN /\ Draw(i, 2) /\ Route(i, SourcePos(i))
                /\ item' = [item EXCEPT ![i] = "idle"]
                /\ UNCHANGED count_index
           ELSE /\ Draw(i, 0) /\ Route(i, tile_to_coords(new))
                /\ count_index' = [count_index EXCEPT ![i] = @ + 1]
                /\ UNCHANGED item
  /\ UNCHANGED <<job, host, series, stubLocations, dirty, host_dirty, filling>>

Save(i) == /\ item[i] = "run" /\ count_index[i] = CounterMax
           /\ stubLocations' = [stubLocations EXCEPT ![i] = curStubs[i]]
           /\ dirty' = dirty + 1
           /\ item' = [item EXCEPT ![i] = "idle"]
           /\ UNCHANGED <<job, host, series, count_index, curStubs, drawIndirect,
                          routed, host_dirty, filling, lost>>

Item(i) == Begin(i) \/ Succeed(i) \/ RunEmpty(i) \/ Search(i) \/ Save(i)

GoesOn(counted) == counted # 0 /\ series + 1 < SeriesMax

\* The queue is finished, dirty copied, and its fill enqueued
Finish == /\ host = "finish" /\ ~filling /\ \A i \in Items : item[i] = "idle"
          /\ host_dirty' = dirty /\ filling' = TRUE
          /\ IF GoesOn(dirty) THEN host' = "step" /\ series' = series + 1
                              ELSE host' = "drain" /\ UNCHANGED series
          /\ UNCHANGED <<job, item, count_index, curStubs, stubLocations,
                         drawIndirect, routed, dirty, lost>>

\* The device runs the fill, whatever the host does meanwhile
Fill == /\ filling
        /\ dirty' = 0 /\ filling' = FALSE
        /\ UNCHANGED <<job, host, series, item, count_index, curStubs, stubLocations,
                       drawIndirect, routed, host_dirty, lost>>

\* After the loop the queue is finished once more
FinishAll == /\ host = "drain" /\ ~filling
             /\ host' = "ended"
             /\ UNCHANGED <<job, series, item, count_index, curStubs, stubLocations,
                            drawIndirect, routed, dirty, host_dirty, filling, lost>>

Host == step_all \/ Refuse \/ Finish \/ FinishAll
Ended == host \in {"ended", "failed"} /\ UNCHANGED vars
Next == Host \/ Fill \/ (\E i \in Items : Item(i)) \/ Ended

Spec == Init /\ [][Next]_vars

-----------------------------------------------------------------------------

\* Whatever was inserted, the front is in order, the slots that nothing is inserted
\* into are empty, and no two entries in a row are of one tile, though the check in
\* the insertion stops at the first such entry and duplicates do remain: a head is
\* never followed by its own tile.
FrontSorted ==
  \A i \in Items : curStubs[i] # <<>> =>
    /\ \A j \in 1..(Slots - 1) :
         /\ ~Less(curStubs[i][j + 1], curStubs[i][j])
         /\ curStubs[i][j] # Nothing => ~SameTile(curStubs[i][j], curStubs[i][j + 1])
    /\ \A j \in (Slots + 1)..BeamWidth : curStubs[i][j] = Nothing

\* The tiles a tile leads to
After(t) == {graph[t][k] : k \in DOMAIN graph[t]} \ {t}

\* The tiles at the end of the walks of n steps from a tile
Walks(from, n) ==
  LET after[k \in 0..n] == IF k = 0 THEN {from}
                           ELSE UNION {After(t) : t \in after[k - 1]}
  IN after[n]

\* Across all series, an entry of the front stands at the end of a walk from the
\* stub with as many steps as it says, but for the bits of previous, and no more
\* than the item has made.
EntriesAreWalks ==
  \A i \in Items : curStubs[i] # <<>> =>
    \A j \in 1..Slots : curStubs[i][j] # Nothing =>
      \E n \in 0..(series * CounterMax + count_index[i]) :
        /\ n % PreviousMod = Previous(curStubs[i][j])
        /\ tile_to_coords(curStubs[i][j]) \in Walks(pairs[i + 1].stub, n)

Reachable(from, to) == \E n \in 0..Cardinality(DOMAIN graph) : to \in Walks(from, n)

\* What a line shows was set in the series that decided it, except for the last
\* point of a success, which is of an earlier one or was never set.
LinesAreOfOneSeries ==
  \A i \in Items : curStubs[i] # <<>> /\ item[i] = "idle" =>
    LET shown == drawIndirect[i].count - IF drawIndirect[i].state = 1 THEN 1 ELSE 0
    IN /\ shown <= Len(routed[i])
       /\ \A k, l \in 1..shown : routed[i][k].series = routed[i][l].series

\* A search that succeeds could reach its source, and one that calls a dead end
\* without ever having dropped an entry could not: its front is in order, of walks
\* from the stub, and its line is that of the walk.
VerdictsAreReal ==
  /\ FrontSorted /\ EntriesAreWalks /\ LinesAreOfOneSeries
  /\ \A i \in Items : curStubs[i] # <<>> /\ item[i] = "idle" =>
       /\ drawIndirect[i].state = 1 => Reachable(pairs[i + 1].stub, SourcePos(i))
       /\ drawIndirect[i].state = 2 /\ ~lost[i]
            => ~Reachable(pairs[i + 1].stub, SourcePos(i))

\* What the host read is the number of items the series left undecided: the fill it
\* did not await took none of their counts, nor left one of the series before.
DirtyIsUndecided ==
  host # "finish" /\ (series > 0 \/ host \in {"drain", "ended"}) =>
    host_dirty = Cardinality({i \in Ran : drawIndirect[i].state = 0})

\* An end before the last series leaves undecided only what no whole group holds.
EndsDecided ==
  /\ DirtyIsUndecided
  /\ host \in {"drain", "ended"} /\ series + 1 < SeriesMax =>
       \A i \in Items : drawIndirect[i].state = 0 => i \notin Ran
=============================================================================
