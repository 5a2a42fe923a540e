------------------------------ MODULE TilePaths ------------------------------
(***************************************************************************)
(* The paths through one tile that the tile-based router may use:          *)
(* enum_tile_paths, build_tile_type_wire_pip_path and PathContainer of     *)
(* src/tile-based-router.h.                                                *)
(*                                                                         *)
(* From every wire that pips of the tile only drive, a search goes against *)
(* the pips, level by level, to the wires that only drive pips.  When a    *)
(* level has many heads its threads each grow every n-th of them, and the  *)
(* new heads are put together thread by thread.  A head knows every wire   *)
(* its path could already have gone to, and never goes there.  In the end  *)
(* the paths are laid out as FlatPipPaths reads them.                      *)
(***************************************************************************)
EXTENDS FlatPipPaths

CONSTANTS
  TileTypeLists, \* the device's tileTypes: sequences of [wires, pips]
  ManyHeads,     \* more heads than this are grown by several threads
  Concurrency,   \* std::thread::hardware_concurrency
  MaxDepth       \* max_depth: 4000 in the code

Pips == [wire0 : Nat, wire1 : Nat, directional : BOOLEAN]

\* The device has as many tile types as the table has room for, a type's wires
\* are numbered in 16 bits, and so is twice the depth of a search
ASSUME TilePathsAssumption ==
  /\ ManyHeads \in Nat /\ Concurrency \in Nat \ {0}
  /\ MaxDepth \in Nat /\ 2 * MaxDepth < CountLimit
  /\ \A types \in TileTypeLists :
       /\ types \in Seq([wires : Nat, pips : SUBSET Pips]) /\ Len(types) <= TileTypeCount
       /\ \A tt \in DOMAIN types :
            /\ types[tt].wires < CountLimit
            /\ \A pip \in types[tt].pips : {pip.wire0, pip.wire1} \subseteq 0..(types[tt].wires - 1)

VARIABLES
  pc,               \* "enum", "grow", "done" or "aborted"
  tileTypes,        \* the tile types of this device
  tile_type_idx,    \* the tile type looked at
  start_wire_index, \* and its wire
  depth_i,          \* the level of the search from this wire
  wpns,             \* every head of the search: its parent and its wire
  base_offset,      \* the heads of wpns before those of this level
  wpn,              \* the heads of this level
  next_wpn,         \* the new heads each thread has found
  head_index,       \* the head each thread grows next
  paths,            \* the distinct inner paths: a path's place is its id
  wire_pairs        \* the ids of each <<tile type, start, finish, depth>>

search == <<wpns, base_offset, wpn, next_wpn, head_index>>
vars == <<pc, tileTypes, tile_type_idx, start_wire_index, depth_i, search,
          paths, wire_pairs>>

-----------------------------------------------------------------------------

Wires(type) == 0..(type.wires - 1)

\* pips_by_wire0 and pips_by_wire1: where a signal enters and leaves
Arcs(type) == {<<p.wire0, p.wire1>> : p \in type.pips}
              \cup {<<p.wire1, p.wire0>> : p \in {q \in type.pips : ~q.directional}}

inbound_wires(type) == {a[1] : a \in Arcs(type)}
outbound_wires(type) == {a[2] : a \in Arcs(type)}
bidirectional_wires(type) == inbound_wires(type) \cap outbound_wires(type)
inbound_only_wires(type) == inbound_wires(type) \ outbound_wires(type)
outbound_only_wires(type) == outbound_wires(type) \ inbound_wires(type)

\* The wires with a pip into this wire
Feeders(type, wire) == {a[1] : a \in {b \in Arcs(type) : b[2] = wire}}

\* Some tile types have no path worth a search
Unused(type) == \/ inbound_only_wires(type) = {}
                \/ outbound_only_wires(type) = {}
                \/ bidirectional_wires(type) = {}

make_init_wire_pip_node(type, start) ==
  [parent |-> 0, wire_id |-> start,
   all_reachable |-> Feeders(type, start), head_reachable |-> Feeders(type, start)]

\* The places in wpns from pt to the root
Chain(pt) == LET up[p \in 0..Len(wpns)] ==
                   IF p = 0 THEN <<>> ELSE <<p>> \o up[wpns[p].parent]
             IN up[pt]

touched_wires(head) == {wpns[p].wire_id : p \in Range(Chain(head))}

-----------------------------------------------------------------------------

Init == /\ tileTypes \in TileTypeLists
        /\ pc = "enum" /\ tile_type_idx = 1 /\ start_wire_index = 0 /\ depth_i = 0
        /\ wpns = <<>> /\ base_offset = 0 /\ wpn = <<>>
        /\ next_wpn = <<>> /\ head_index = <<>>
        /\ paths = <<>> /\ wire_pairs = <<>>

Type == tileTypes[tile_type_idx]
MoreTypes == tile_type_idx <= Len(tileTypes)

NextType == /\ pc = "enum" /\ MoreTypes
            /\ Unused(Type) \/ start_wire_index = Type.wires
            /\ tile_type_idx' = tile_type_idx + 1
            /\ start_wire_index' = 0
            /\ UNCHANGED <<pc, tileTypes, depth_i, search, paths, wire_pairs>>

Enumerable == pc = "enum" /\ MoreTypes /\ ~Unused(Type) /\ start_wire_index < Type.wires

SkipWire == /\ Enumerable /\ start_wire_index \notin outbound_only_wires(Type)
            /\ start_wire_index' = start_wire_index + 1
            /\ UNCHANGED <<pc, tileTypes, tile_type_idx, depth_i, search, paths, wire_pairs>>

\* grow_head_depth starts its threads on the heads of a level
StartThreads(heads) ==
  LET num_threads == IF Len(heads) > ManyHeads THEN Concurrency ELSE 1
  IN /\ wpn' = heads
     /\ next_wpn' = [i \in 1..num_threads |-> <<>>]
     /\ head_index' = [i \in 1..num_threads |-> i]

StartWire ==
  /\ Enumerable /\ start_wire_index \in outbound_only_wires(Type)
  /\ LET root == make_init_wire_pip_node(Type, start_wire_index)
     IN /\ wpns' = <<[parent |-> 0, wire_id |-> start_wire_index]>>
        /\ base_offset' = 0
        /\ depth_i' = 0
        /\ IF MaxDepth > 0
           THEN pc' = "grow" /\ StartThreads(<<root>>) /\ UNCHANGED start_wire_index
           ELSE /\ pc' = pc /\ start_wire_index' = start_wire_index + 1
                /\ UNCHANGED <<wpn, next_wpn, head_index>>
  /\ UNCHANGED <<tileTypes, tile_type_idx, paths, wire_pairs>>

\* Mutant: a head forgets what its path could have gone to before
Reachable_Forgets(parent, c, wire) ==
  LET fresh == Feeders(Type, wire)
      head(all, heads) == <<[parent |-> parent, wire_id |-> wire,
                             all_reachable |-> all, head_reachable |-> heads]>>
  IN IF wire \notin c.head_reachable \/ wire \in touched_wires(parent) THEN <<>>
     ELSE IF wire \in inbound_only_wires(Type) THEN head({}, {})
     ELSE IF fresh = {} /\ wire \in bidirectional_wires(Type) THEN <<>>
     ELSE head(fresh, fresh)

\* Mutant: a head from which nothing new is reached is kept
Reachable_DeadEnds(parent, c, wire) ==
  LET fresh == Feeders(Type, wire) \ c.all_reachable
      head(all, heads) == <<[parent |-> parent, wire_id |-> wire,
                             all_reachable |-> all, head_reachable |-> heads]>>
  IN IF wire \notin c.head_reachable \/ wire \in touched_wires(parent) THEN <<>>
     ELSE IF wire \in inbound_only_wires(Type) THEN head({}, {})
     ELSE head(c.all_reachable \cup fresh, fresh)

\* get_reachable_wire: the head for this wire, or none
Reachable(parent, c, wire) ==
  LET fresh == Feeders(Type, wire) \ c.all_reachable
      head(all, heads) == <<[parent |-> parent, wire_id |-> wire,
                             all_reachable |-> all, head_reachable |-> heads]>>
  IN IF wire \notin c.head_reachable \/ wire \in touched_wires(parent) THEN <<>>
     ELSE IF wire \in inbound_only_wires(Type) THEN head({}, {})
     ELSE IF fresh = {} /\ wire \in bidirectional_wires(Type) THEN <<>>
     ELSE head(c.all_reachable \cup fresh, fresh)

\* grow_head: an inbound-only head is the end of its path
GrowHead(parent, c) ==
  IF c.wire_id \in inbound_only_wires(Type) THEN <<>>
  ELSE FlattenSeq([i \in 1..Type.wires |-> Reachable(parent, c, i - 1)])

\* The three calls of abort() under grow_head
GrowAborts(parent, c) ==
  /\ c.wire_id \notin inbound_only_wires(Type)
  /\ \/ c.head_reachable = {}
     \/ c.head_reachable \cap outbound_only_wires(Type) # {}
     \/ Cardinality(touched_wires(parent)) # Len(Chain(parent))

\* A thread grows its next head
Grow(i) ==
  /\ pc = "grow" /\ i \in DOMAIN head_index /\ head_index[i] <= Len(wpn)
  /\ LET parent == base_offset + head_index[i]
         c == wpn[head_index[i]]
     IN IF GrowAborts(parent, c)
        THEN pc' = "aborted" /\ UNCHANGED <<next_wpn, head_index>>
        ELSE /\ next_wpn' = [next_wpn EXCEPT ![i] = @ \o GrowHead(parent, c)]
             /\ head_index' = [head_index EXCEPT ![i] = @ + Len(head_index)]
             /\ UNCHANGED pc
  /\ UNCHANGED <<tileTypes, tile_type_idx, start_wire_index, depth_i, wpns,
                 base_offset, wpn, paths, wire_pairs>>

\* The path stored for a head: the wires between it and the root
WirePath(all, head) ==
  LET up[p \in 1..Len(all)] ==
        IF p = 1 THEN <<>>
        ELSE (IF all[p].wire_id = all[head].wire_id THEN <<>> ELSE <<all[p].wire_id>>)
             \o up[all[p].parent]
  IN up[head]

\* PathContainer::set_path: a path met before keeps its id
set_path(pc_, key, wire_path) ==
  LET known == {k \in DOMAIN pc_.paths : pc_.paths[k] = wire_path}
      id == IF known = {} THEN Len(pc_.paths) + 1 ELSE CHOOSE k \in known : TRUE
      ids == IF key \in DOMAIN pc_.wire_pairs THEN pc_.wire_pairs[key] ELSE <<>>
  IN [paths |-> IF known = {} THEN Append(pc_.paths, wire_path) ELSE pc_.paths,
      wire_pairs |-> [k \in DOMAIN pc_.wire_pairs \cup {key} |->
                        IF k = key THEN Append(ids, id) ELSE pc_.wire_pairs[k]]]

\* The first n new heads of a level, those that end at an inbound-only wire, are
\* stored
StorePaths(all, from) ==
  LET store(pc_, p) ==
        IF all[p].wire_id \in inbound_only_wires(Type)
        THEN set_path(pc_, <<tile_type_idx - 1, start_wire_index, all[p].wire_id, depth_i>>,
                      WirePath(all, p))
        ELSE pc_
      stored[n \in 0..(Len(all) - from)] ==
        IF n = 0 THEN [paths |-> paths, wire_pairs |-> wire_pairs]
        ELSE store(stored[n - 1], from + n)
  IN stored[Len(all) - from]

\* The threads have ended: their heads are the next level
Join ==
  /\ pc = "grow" /\ \A i \in DOMAIN head_index : head_index[i] > Len(wpn)
  /\ LET heads == FlattenSeq(next_wpn)
         all == wpns \o [i \in DOMAIN heads |->
                           [parent |-> heads[i].parent, wire_id |-> heads[i].wire_id]]
         stored == StorePaths(all, Len(wpns))
     IN /\ wpns' = all
        /\ base_offset' = Len(wpns)
        /\ paths' = stored.paths
        /\ wire_pairs' = stored.wire_pairs
        /\ depth_i' = depth_i + 1
        /\ IF heads # <<>> /\ depth_i + 1 < MaxDepth
           THEN StartThreads(heads) /\ UNCHANGED <<pc, start_wire_index>>
           ELSE /\ pc' = "enum"
                /\ start_wire_index' = start_wire_index + 1
                /\ wpn' = <<>> /\ next_wpn' = <<>> /\ head_index' = <<>>
  /\ UNCHANGED <<tileTypes, tile_type_idx>>

StoreInFile ==
  /\ pc = "enum" /\ ~MoreTypes
  /\ LET flat == Flat(wire_pairs, paths)
     IN pc' = IF Verified(wire_pairs, flat) /\ Storable(flat) THEN "done" ELSE "aborted"
  /\ UNCHANGED <<tileTypes, tile_type_idx, start_wire_index, depth_i, search,
                 paths, wire_pairs>>

Ended == pc \in {"done", "aborted"} /\ UNCHANGED vars

Next == \/ NextType \/ SkipWire \/ StartWire \/ Join \/ StoreInFile
        \/ \E i \in 1..Concurrency : Grow(i)
        \/ Ended

Spec == Init /\ [][Next]_vars

-----------------------------------------------------------------------------

\* An id stands for one path and a path has one id, which all pairs share; the
\* depth of a pair is the number of wires of its paths, and no pair has an id
\* twice (PathContainer::set_path).
PathsNumbered ==
  /\ IsInjective(paths)
  /\ \A key \in DOMAIN wire_pairs :
       /\ wire_pairs[key] # <<>> /\ IsInjective(wire_pairs[key])
       /\ \A id \in ToSet(wire_pairs[key]) : id \in DOMAIN paths /\ Len(paths[id]) = key[4]

\* A search ends before max_depth would cut it off, whatever cycles the pips form
EndsByItself ==
  wpn # <<>> => depth_i <= Cardinality(bidirectional_wires(Type)) + 1

\* None of the calls of abort() in the search is ever reached: no head has
\* nowhere to go, none meets a wire its own path is on, and none meets a wire
\* that drives no pip. store_in_file aborts for a pair with more ids than its
\* count can hold, before the table is used, and on a device none of whose
\* paths has an inner wire, whose file of wires is empty; for nothing else.
AbortsIfCutOrEmpty ==
  LET fits == \A key \in DOMAIN wire_pairs : Len(wire_pairs[key]) < CountLimit
      inner == \E id \in DOMAIN paths : paths[id] # <<>>
  IN /\ pc = "aborted" => ~MoreTypes /\ ~(fits /\ inner)
     /\ pc = "done" => fits /\ inner

\* A path on the way from start (against the pips) is direct when no wire of it
\* could have been reached from an earlier wire than the one before it.
Direct(type, path) ==
  \A i, j \in DOMAIN path :
    i < j => (path[j] \in Feeders(type, path[i]) <=> j = i + 1)

\* Every walk against the pips from start over wires of both directions
Walks(type, start) ==
  LET inner == bidirectional_wires(type)
      walks[n \in 0..Cardinality(inner)] ==
        IF n = 0 THEN {<<start>>}
        ELSE {Append(a[1], a[2]) : a \in {b \in walks[n - 1] \X inner :
                                              b[2] \in Feeders(type, Last(b[1]))}}
  IN UNION {walks[n] : n \in 0..Cardinality(inner)}

\* Every direct path between two ends of the tile type
DirectPaths(type, start) ==
  {<<Tail(a[1]), a[2]>> : a \in {b \in Walks(type, start) \X inbound_only_wires(type) :
                                    Direct(type, Append(b[1], b[2]))}}

\* No path through a tile has as many wires as max_depth
ASSUME DepthAssumption ==
  \A types \in TileTypeLists : \A tt \in DOMAIN types :
    ~Unused(types[tt]) =>
      \A start \in outbound_only_wires(types[tt]) :
        \A path \in DirectPaths(types[tt], start) : Len(path[1]) < MaxDepth

StoredPaths(tt, start) ==
  UNION {{<<Reverse(paths[id]), key[3]>> : id \in Range(wire_pairs[key])} :
           key \in {k \in DOMAIN wire_pairs : k[1] = tt - 1 /\ k[2] = start}}

\* When the search from a wire has ended, exactly the direct paths from this
\* wire are stored, each under one id: a path with a detour never is, a direct
\* one always is, however the heads were split between threads
\* (build_tile_type_wire_pip_path), and max_depth cuts nothing off.
StoresDirectPaths ==
  /\ PathsNumbered /\ EndsByItself
  /\ \A tt \in DOMAIN tileTypes : \A start \in Wires(tileTypes[tt]) :
       (tt < tile_type_idx \/ (tt = tile_type_idx /\ start < start_wire_index)) =>
         StoredPaths(tt, start) =
           IF Unused(tileTypes[tt]) \/ start \notin outbound_only_wires(tileTypes[tt])
           THEN {} ELSE DirectPaths(tileTypes[tt], start)

\* What is laid out and read back is what was enumerated: within the finishes of
\* a wire the scan of route_step tries exactly the stored ids of a pair, from the
\* shortest paths to the longest, and never takes one of the next vector.
StoredIds(tt, start, finish) ==
  FlattenSeq([d \in 1..MaxDepth |->
    LET key == <<tt, start, finish, d - 1>>
    IN IF key \in DOMAIN wire_pairs THEN wire_pairs[key] ELSE <<>>])

ScanIsStored ==
  pc = "done" =>
    LET flat == Flat(wire_pairs, paths)
    IN \A tt \in 1..Len(tileTypes) :
         \A start \in 0..(subscript1(flat, tt - 1).count - 1) :
           LET finishes == subscript2(flat, tt - 1, start)
           IN \A finish \in 0..(finishes.count - 1) :
                /\ scan(flat, subscript3(flat, finishes, finish)) = StoredIds(tt - 1, start, finish)
                /\ \A id \in ToSet(StoredIds(tt - 1, start, finish)) :
                     path_wires(flat, id) = paths[id]
=============================================================================
