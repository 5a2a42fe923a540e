----------------------------- MODULE RouteTiles -----------------------------
(***************************************************************************)
(* The parallel tile router: src/route_tiles.h, with the tiles and stubs   *)
(* of src/TileInfo.h, src/stub_router.h and the threads started by         *)
(* Route_Phys::tile_based_routing (src/Route_Phys.h).                      *)
(*                                                                         *)
(* Every stub walks from its tile towards the tile of its source, one tile *)
(* per round.  Each thread owns the tiles whose index is its offset modulo *)
(* the number of threads.  In a round a thread first moves the stubs that  *)
(* wait at its tiles to the vectors it handles, and then routes these      *)
(* stubs, which makes them wait at tiles of any thread.  Barriers separate *)
(* the two; when no stub was moved in a round, every thread is done.       *)
(***************************************************************************)
EXTENDS Integers, Sequences, FiniteSets

CONSTANTS
  GroupSize,  \* group_size: the number of threads
  TileCount,  \* tile_count: the number of tiles
  Stubs,      \* the stubs of the nets with one source
  Placements, \* the vectors of stubs that "placing nets in tiles" can leave
  StartTile,  \* StartTile[s]: the tile of the site pin of stub s
  Source,     \* Source[s]: source_tiles[0] of its net
  FirstTiles, \* FirstTiles[s]: tiles with a pip into the stub's own node
  PipTiles,   \* PipTiles[t]: tile_destination of the pips of tile t
  Closed,     \* tiles with no pips, or with sites
  Distance,   \* Distance[t][u]: orders tiles as Tile_Index::distance does
  HugeVal     \* HUGE_VAL: farther than any tile

Threads == 0..(GroupSize - 1)
Tiles == 0..(TileCount - 1)

ASSUME GroupAssumption == GroupSize \in Nat \ {0} /\ TileCount \in Nat

ASSUME StubAssumption ==
  /\ IsFiniteSet(Stubs)
  /\ StartTile \in [Stubs -> Tiles]
  /\ Source \in [Stubs -> Tiles]
  /\ FirstTiles \in [Stubs -> Seq(Tiles)]
  /\ PipTiles \in [Tiles -> Seq(Tiles)]
  /\ Closed \subseteq Tiles
  /\ Placements \subseteq [Tiles -> Seq(Stubs)]
  /\ \A placed \in Placements : \A t \in Tiles :
       /\ \A i, j \in DOMAIN placed[t] : placed[t][i] = placed[t][j] => i = j
       /\ {placed[t][i] : i \in DOMAIN placed[t]} =
            {s \in Stubs : StartTile[s] = t}

ASSUME DistanceAssumption ==
  /\ Distance \in [Tiles -> [Tiles -> Nat]]
  /\ \A t, u \in Tiles : Distance[t][u] = 0 <=> t = u
  /\ HugeVal \in Nat
  /\ \A t, u \in Tiles : Distance[t][u] < HugeVal

VARIABLES
  pc,                 \* where each thread is in the loop of route_tiles
  waiting,            \* the threads that wait at the barrier
  tin,                \* the tile each thread looks at next
  ustubs,             \* the stubs it has taken from that tile
  unhandled,          \* unhandled_out_nets of each tile
  handling,           \* handling_out_nets of each tile
  stubs_to_handle,    \* atomic: the stubs moved in this round
  stub_router_count,  \* atomic: the stubs that are not finished
  tile_path,          \* the tiles each stub has walked
  current_distance    \* how far the last of them is from its source

shared == <<unhandled, handling, stubs_to_handle>>
routers == <<stub_router_count, tile_path, current_distance>>
vars == <<pc, waiting, tin, ustubs, unhandled, handling, stubs_to_handle,
          stub_router_count, tile_path, current_distance>>

Init ==
  /\ pc = [th \in Threads |-> "again"]
  /\ waiting = {}
  /\ tin = [th \in Threads |-> th]
  /\ ustubs = [th \in Threads |-> << >>]
  /\ unhandled \in Placements
  /\ handling = [t \in Tiles |-> << >>]
  /\ stubs_to_handle = 0
  /\ stub_router_count = Cardinality(Stubs)
  /\ tile_path = [s \in Stubs |-> << StartTile[s] >>]
  /\ current_distance = [s \in Stubs |-> HugeVal]

-----------------------------------------------------------------------------
(* bar.arrive_and_wait(): the last thread to arrive releases the others. *)
Arrive(th) ==
  waiting' = IF waiting \cup {th} = Threads THEN {} ELSE waiting \cup {th}

Runs(th, label) == pc[th] = label /\ th \notin waiting

Goto(th, label) == pc' = [pc EXCEPT ![th] = label]

(* Mutant: the barrier at the top of the loop is left out. *)
EnterRoundAtOnce(th) ==
  /\ Runs(th, "again")
  /\ Goto(th, "reset")
  /\ UNCHANGED <<waiting, tin, ustubs, shared, routers>>

(* The barrier at the top of the loop. *)
EnterRound(th) ==
  /\ Runs(th, "again")
  /\ Arrive(th)
  /\ Goto(th, "reset")
  /\ UNCHANGED <<tin, ustubs, shared, routers>>

(* The thread at offset 0 clears the counter, before the next barrier. *)
Reset(th) ==
  /\ Runs(th, "reset")
  /\ stubs_to_handle' = IF th = 0 THEN 0 ELSE stubs_to_handle
  /\ Goto(th, "cleared")
  /\ UNCHANGED <<waiting, tin, ustubs, unhandled, handling, routers>>

StartMoving(th) ==
  /\ Runs(th, "cleared")
  /\ Arrive(th)
  /\ Goto(th, "move")
  /\ tin' = [tin EXCEPT ![th] = th]
  /\ UNCHANGED <<ustubs, shared, routers>>

(* move_unhandled_to_handled reads the size of the vector without its lock. *)
CountStubs(th) ==
  /\ Runs(th, "move")
  /\ tin[th] < TileCount
  /\ stubs_to_handle' = stubs_to_handle + Len(unhandled[tin[th]])
  /\ IF unhandled[tin[th]] = << >>
     THEN /\ tin' = [tin EXCEPT ![th] = @ + GroupSize]
          /\ UNCHANGED pc
     ELSE /\ Goto(th, "handle")
          /\ UNCHANGED tin
  /\ UNCHANGED <<waiting, ustubs, unhandled, handling, routers>>

(* handle_out_nets, under the lock of the tile. *)
HandleOutNets(th) ==
  /\ Runs(th, "handle")
  /\ handling' = [handling EXCEPT ![tin[th]] = unhandled[tin[th]]]
  /\ unhandled' = [unhandled EXCEPT ![tin[th]] = << >>]
  /\ tin' = [tin EXCEPT ![th] = @ + GroupSize]
  /\ Goto(th, "move")
  /\ UNCHANGED <<waiting, ustubs, stubs_to_handle, routers>>

(* Mutant: a thread routes as soon as its own tiles are moved. *)
StartRoutingAtOnce(th) ==
  /\ Runs(th, "move")
  /\ tin[th] >= TileCount
  /\ Goto(th, "route")
  /\ tin' = [tin EXCEPT ![th] = th]
  /\ UNCHANGED <<waiting, ustubs, shared, routers>>

StartRouting(th) ==
  /\ Runs(th, "move")
  /\ tin[th] >= TileCount
  /\ Arrive(th)
  /\ Goto(th, "route")
  /\ tin' = [tin EXCEPT ![th] = th]
  /\ UNCHANGED <<ustubs, shared, routers>>

(* Mutant: the stubs are copied instead of moved. *)
TakeStubsCopied(th) ==
  /\ Runs(th, "route")
  /\ tin[th] < TileCount
  /\ ustubs' = [ustubs EXCEPT ![th] = handling[tin[th]]]
  /\ Goto(th, "stubs")
  /\ UNCHANGED <<waiting, tin, shared, routers>>

(* route_tile takes the stubs of one tile; none is the empty loop. *)
TakeStubs(th) ==
  /\ Runs(th, "route")
  /\ tin[th] < TileCount
  /\ ustubs' = [ustubs EXCEPT ![th] = handling[tin[th]]]
  /\ handling' = [handling EXCEPT ![tin[th]] = << >>]
  /\ Goto(th, "stubs")
  /\ UNCHANGED <<waiting, tin, unhandled, stubs_to_handle, routers>>

(* The tiles the pips of a stub at tile t lead to, in the order they are   *)
(* looked at. *)
Scanned(s, t) ==
  (IF Len(tile_path[s]) = 1 THEN FirstTiles[s] ELSE << >>) \o PipTiles[t]

(* Those it may go to, by their places: a closed one only if it is the     *)
(* source. *)
Choices(s, t) ==
  {i \in DOMAIN Scanned(s, t) :
     /\ Scanned(s, t)[i] # t
     /\ Scanned(s, t)[i] = Source[s] \/ Scanned(s, t)[i] \notin Closed}

(* bestTI: the first of the choices nearest to the source of the stub. *)
BestTile(s, t) ==
  LET far(i) == Distance[Source[s]][Scanned(s, t)[i]]
  IN  Scanned(s, t)[CHOOSE i \in Choices(s, t) :
                      \A j \in Choices(s, t) :
                        far(i) < far(j) \/ (far(i) = far(j) /\ i <= j)]

(* Mutant: a stub that is led away once gives up. *)
FurtherAtOnce(s, u) ==
  Distance[Source[s]][u] >= current_distance[s] /\ Len(tile_path[s]) > 1

(* After three tiles a stub must come closer with every tile. *)
Further(s, u) ==
  Distance[Source[s]][u] >= current_distance[s] /\ Len(tile_path[s]) > 3

Walk(s, u) ==
  /\ tile_path' = [tile_path EXCEPT ![s] = Append(@, u)]
  /\ current_distance' =
       [current_distance EXCEPT ![s] = Distance[Source[s]][u]]

(* Mutant: a stub that cannot come closer tries again. *)
StopAndRetry(s, t) ==
  /\ unhandled' = [unhandled EXCEPT ![t] = Append(@, s)]
  /\ UNCHANGED <<stub_router_count, tile_path, current_distance>>

(* A dead end, or no tile that is closer: the stub stops here. *)
Stop(s, t) ==
  /\ stub_router_count' = stub_router_count - 1
  /\ UNCHANGED <<unhandled, tile_path, current_distance>>

(* append_unhandled_out, under the lock of the tile the stub goes to. *)
Hop(s, u) ==
  /\ Walk(s, u)
  /\ unhandled' = [unhandled EXCEPT ![u] = Append(@, s)]
  /\ UNCHANGED stub_router_count

(* The stub has reached the tile of its source. *)
Finish(s, u) ==
  /\ Walk(s, u)
  /\ stub_router_count' = stub_router_count - 1
  /\ UNCHANGED unhandled

(* route_tile_stub *)
RouteStub(th) ==
  /\ Runs(th, "stubs")
  /\ ustubs[th] # << >>
  /\ ustubs' = [ustubs EXCEPT ![th] = Tail(@)]
  /\ LET s == Head(ustubs[th])
         deadEnd == Choices(s, tin[th]) = {}
         u == BestTile(s, tin[th])
     IN  \/ deadEnd /\ Stop(s, tin[th])
         \/ ~deadEnd /\ Further(s, u) /\ Stop(s, tin[th])
         \/ ~deadEnd /\ ~Further(s, u) /\ u # Source[s] /\ Hop(s, u)
         \/ ~deadEnd /\ ~Further(s, u) /\ u = Source[s] /\ Finish(s, u)
  /\ UNCHANGED <<pc, waiting, tin, handling, stubs_to_handle>>

NextTile(th) ==
  /\ Runs(th, "stubs")
  /\ ustubs[th] = << >>
  /\ tin' = [tin EXCEPT ![th] = @ + GroupSize]
  /\ Goto(th, "route")
  /\ UNCHANGED <<waiting, ustubs, shared, routers>>

EndRound(th) ==
  /\ Runs(th, "route")
  /\ tin[th] >= TileCount
  /\ Arrive(th)
  /\ Goto(th, "check")
  /\ UNCHANGED <<tin, ustubs, shared, routers>>

(* No stub was moved in this round: the loop ends. *)
Check(th) ==
  /\ Runs(th, "check")
  /\ Goto(th, IF stubs_to_handle = 0 THEN "exit" ELSE "again")
  /\ UNCHANGED <<waiting, tin, ustubs, shared, routers>>

Thread(th) ==
  \/ EnterRound(th) \/ Reset(th) \/ StartMoving(th)
  \/ CountStubs(th) \/ HandleOutNets(th) \/ StartRouting(th)
  \/ TakeStubs(th) \/ RouteStub(th) \/ NextTile(th)
  \/ EndRound(th) \/ Check(th)

(* tile_based_routing joins its threads. *)
Joined == (\A th \in Threads : pc[th] = "exit") /\ UNCHANGED vars

Next == Joined \/ \E th \in Threads : Thread(th)

Spec == Init /\ [][Next]_vars

(* The operating system runs every thread that does not wait. *)
FairSpec == Spec /\ \A th \in Threads : WF_vars(Thread(th))

-----------------------------------------------------------------------------
(* Properties. *)

Labels == {"again", "reset", "cleared", "move", "handle", "route", "stubs",
           "check", "exit"}

(* Every variable has its type. *)
TypeOK ==
  /\ pc \in [Threads -> Labels]
  /\ waiting \in SUBSET Threads
  /\ tin \in [Threads -> Nat]
  /\ ustubs \in [Threads -> Seq(Stubs)]
  /\ unhandled \in [Tiles -> Seq(Stubs)]
  /\ handling \in [Tiles -> Seq(Stubs)]
  /\ stubs_to_handle \in Nat
  /\ stub_router_count \in Nat
  /\ tile_path \in [Stubs -> Seq(Tiles)]
  /\ current_distance \in [Stubs -> Nat]

(* The stubs in the vectors of the tiles, or of the threads. *)
Members(vectors) ==
  UNION {{vectors[t][i] : i \in DOMAIN vectors[t]} : t \in DOMAIN vectors}

(* No two places of the vectors hold the same stub. *)
Distinct(vectors) ==
  \A t, u \in DOMAIN vectors :
    \A i \in DOMAIN vectors[t], j \in DOMAIN vectors[u] :
      vectors[t][i] = vectors[u][j] => t = u /\ i = j

Live == Members(unhandled) \cup Members(handling) \cup Members(ustubs)

(* No two places hold the same stub, be they of tiles or of threads, and   *)
(* the counter of the stubs that are not finished is the number of those   *)
(* somewhere. *)
OncePlaced ==
  /\ Distinct(unhandled) /\ Distinct(handling) /\ Distinct(ustubs)
  /\ Members(unhandled) \cap Members(handling) = {}
  /\ Members(unhandled) \cap Members(ustubs) = {}
  /\ Members(handling) \cap Members(ustubs) = {}
  /\ stub_router_count = Cardinality(Live)

(* The stubs a thread or a tile has are those that walked to that tile. *)
StubsAreHere ==
  LET end(s) == tile_path[s][Len(tile_path[s])]
  IN  /\ \A t \in Tiles : \A i \in DOMAIN unhandled[t] : end(unhandled[t][i]) = t
      /\ \A t \in Tiles : \A i \in DOMAIN handling[t] : end(handling[t][i]) = t
      /\ \A th \in Threads : \A i \in DOMAIN ustubs[th] : end(ustubs[th][i]) = tin[th]

(* The threads leave their loops in the same round: once one has ended, no *)
(* other one goes around again, where it would wait forever. *)
ThreadsAgree ==
  \A th, other \in Threads :
    pc[th] = "exit" => pc[other] \in {"check", "exit"}

(* A thread ends only when every stub has finished or stopped. *)
NothingLeft ==
  (\E th \in Threads : pc[th] = "exit") => stub_router_count = 0

(* No stub is lost or handled twice, none is at a tile that is not the end *)
(* of its path, and none is left behind. *)
EachStubOnce == OncePlaced /\ StubsAreHere /\ NothingLeft

(* The vector whose size move_unhandled_to_handled reads without its lock  *)
(* is never appended to at that time: threads move and route in turn. *)
PhasesApart ==
  \A mover, router \in Threads :
    /\ Runs(mover, "move") \/ Runs(mover, "handle")
    => ~(Runs(router, "route") \/ Runs(router, "stubs"))

(* The path of stub s one step on, if there is no other stub: to the first *)
(* of the open tiles nearest to its source, unless it is there or, after   *)
(* three tiles, comes no closer. *)
Onward(s, path) ==
  LET t == path[Len(path)]
      ways == (IF Len(path) = 1 THEN FirstTiles[s] ELSE << >>) \o PipTiles[t]
      far(u) == Distance[Source[s]][u]
      open == {i \in DOMAIN ways : /\ ways[i] # t
                                   /\ ways[i] = Source[s] \/ ways[i] \notin Closed}
      nearest == {i \in open : \A j \in open : far(ways[i]) <= far(ways[j])}
      best == CHOOSE i \in nearest : \A j \in nearest : i <= j
  IN  IF \/ open = {}
         \/ Len(path) > 1 /\ t = Source[s]
         \/ Len(path) > 3 /\ far(ways[best]) >= far(t)
      THEN path ELSE Append(path, ways[best])

(* The path it has after more steps than it can make. *)
Alone(s) ==
  LET path[n \in 0..(TileCount + 3)] ==
        IF n = 0 THEN << StartTile[s] >> ELSE Onward(s, path[n - 1])
  IN  path[TileCount + 3]

(* What a stub walks depends on no other stub and on no thread: in the end *)
(* each has the path it has alone. *)
PathsAreSequential ==
  (\A th \in Threads : pc[th] = "exit") =>
    \A s \in Stubs : tile_path[s] = Alone(s)

(* Every thread ends. *)
EveryThreadEnds == \A th \in Threads : <>(pc[th] = "exit")
=============================================================================
