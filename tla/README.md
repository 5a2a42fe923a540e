# A TLA+ development of fpga-solver

`fpga-solver` routes FPGA designs: it reads a placed but unrouted physical
netlist (Cap'n Proto, gzip), finds for every *stub* (a sink site pin of a net)
a chain of *pips* from a source of the net, and writes the netlist back. It
holds several routers, one per experiment, and the tables they look the device
up in. The OpenCL node router is the one whose executable writes a netlist, and
the one modelled first. `CMakeLists.txt` of this commit builds `make_dev_flat`,
the makers of the lookup files and the tile-based router; the other routers are
in the tree with their own `main`.

## Inventory

| Part | Code | State it keeps | Operations | How it meets the others |
|---|---|---|---|---|
| OpenCL node router | `ocl_node_router.h`, `kernels/node_router.cl`, `opencl-node-router.cpp` | `v_node_nets` (net of each node), per stub a beam (`v_heads`), a draw command (`v_drawIndirect`: count, state) and a history (`explored`), the snapshots `vv_explored`, the message `b_phys` | `make`, `block_all_resources`, `route`, `step_all`, the kernel, `store_possibly_routed_nets`, `write_phys_unrouted_nets` | host and device share buffers through one in-order queue; the kernel reads owners of the series' start, the host stores against the owners of now |
| Parallel tile router | `route_tiles.h`, `TileInfo.h`, `stub_router.h`, `Route_Phys.h` 858-1104 | per tile two vectors of stubs (`unhandled_out_nets`, `handling_out_nets`) and a mutex; atomics `stubs_to_handle`, `stub_router_count`, `routed_index_count`; a barrier | `move_unhandled_to_handled`, `route_each_tile`, `route_tile_stub` | one thread per core, in phases separated by `std::barrier` |
| Sequential router | `Route_Phys.h`, `RouteStorage.h`, `NodeStorage.h`, `PIP_Index.h`, `RenumberedWires.h` | the owner of each node (`stored_nodes_nets`); per net a `RouteStorage`: one entry per pip in a mapped file, a priority queue, the nodes and pips used; the wires under new numbers | `make_pips`, `block_resources`, `assign_stubs`, `route_stub`, `add_node_pips`, `append`, `store_route` | one thread (`route`), which a stop token may tell to copy the nets that are left; entries refer to each other by `previous` |
| Tile-based router | `tile-based-router.{h,cpp,md}` | the paths through each tile type, in flat files made once; per wire of a tile the net that uses it or waits there | `make_pip_paths`, `store_in_file`, `block_all_resources`, `route_step` | makes its tables on the first run and reads them ever after |
| OpenCL tile router | `ocl_tile_router.h`, `kernels/draw_wires.cl`, `draw_wires.h` | per stub a front of tiles, a draw command and a line, in SVM or GL buffers; the counter `dirty` | `do_all`, `step_all`, `draw_wires` | kernel on a device, over one in-order queue |
| CPU node router | `cpp_node_router.h` | as the OpenCL node router, in vectors | the same search, on threads that split the stubs | an alternative to the kernel |
| String interchange | `String_Building_Group.h`, `ocl_node_router.h` 132-139 and 588-599, `Route_Phys.h`, `tile-based-router.h` | maps between device and netlist string indices | build, look up, append strings | every writer of a netlist uses it |
| Device tables | `inverse_wires.h`, `wire_idx_*.h`, `site_pin_to_*.h`, node tables of `tile-based-router.h` | sorted arrays in mapped files | build once on threads, test, search | read only while routing |
| Sorted search files | `wire_tile_*.h`, `node_tile_pip.h`, `tile_pip_node.h`, `site_pin_wire.h`, `site_pin_nodes.h`, `tile_tile_wire_pip.h`, `MMF_Dense_Sets.h` | sorted arrays that threads append to | reserve, fill, sort, test, search | made by `make_search_files` for the sequential router |
| Files and archives | `MemoryMappedFile.h`, `InterchangeGZ*.h`, `InflateGZ.h`, `make_*.cpp` | file handles, buffers | map, inflate, deflate | input and output |
| Wrappers | `ocl*.h`, `vk.hpp`, `vu.hpp`, `GL_*.h` | handles | create, enqueue, destroy | the routers call them |
| Viewer | `show_phys_nets.cpp`, `win-desktop.cpp`, generated GL bindings | a window | draw | draws routed indices |
| Older Windows router | `dev.h`, `Physnet.h`, which no file includes | - | - | - |

What is hard here: the stubs of a series search in parallel with owners that
grow stale while others store; a search is suspended at a fixed number of
expansions and resumed by the next kernel, so a route is a chain of entries
spread over several snapshots; restarts throw part of that state away and keep
the rest; beams, histories and snapshots are bounded arrays with implicit
agreement between host and device on their strides; the tile router's threads
exchange stubs between phases and must agree on when to stop; tables are filled
by threads that reserve ranges with `fetch_add` or write without a lock, and are
found made or not by the size of one file; a flat table of paths is indexed by
subscripts that only add. `PROJECT.json` lists each such hazard at its line,
with the properties that cover it.

What makes each part correct:

- *Node router*: routes of different nets share no node; a route is a connected
  chain from a source to its stub; owners and stored routes are never revoked;
  the file contains whole routes or what was read; a route that could be stored
  is; a dead end is one; the run ends. Before it: each stub has one index with
  its own data, whichever thread filled it, and host and device read the
  histories at the same places.
- *Parallel tile router*: no stub is lost or handled twice, all threads stop in
  the same round and only when no stub is left, the live counter is exact.
- *Sequential router*: the entries of a search form a forest below the sources,
  whatever the costs; a net is written with a tree to each node of its stubs,
  over nodes of no other net, or as it was read; the queue runs empty only if a stub
  cannot be reached; the program aborts only on a bad netlist; the run ends.
- *Tile-based router*: what is stored is every path without a detour, and what
  is read from the flat table is what was stored; paths of different nets share
  no wire; a stub is left only if each of its paths is taken.
- *OpenCL tile router*: a success reached the source, a dead end could not.
- *String interchange*: the two maps are inverse to each other, and an index
  that was handed out keeps its string.
- *Tables*: who is turned away is decided by the device and not by the order of
  threads; a finished table answers every search as the device says.

## Modules

| Module | Models | Role |
|---|---|---|
| `NetRouting` | what the node router promises about nodes and routes, without the search | abstract specification |
| `Beam` | the row of heads of one stub: shift and insertion (`node_router.cl` 188-237) | operators |
| `NodeRouter` | host loop, kernel and store phase of the OpenCL node router | component, `Spec` and `FairSpec` |
| `NodeSetup` | how the OpenCL node router is made, threads included | component |
| `MCNodeRouter`, `MCNodeSetup` | two small devices; netlists of three out of ten nets | model checking |
| `NodeRouterProofs`, `NodeSetupProofs` | theorems | proofs |
| `RouteTiles`, `MCRouteTiles`, `RouteTilesProofs` | the threads of the parallel tile router | component, a small instance, theorems |
| `TreeRouting` | what the sequential router promises about nodes and trees | abstract specification |
| `RoutePhys`, `MCRoutePhys`, `RoutePhysProofs` | the sequential router: blocking, the loop over the nets, the search, the walk back | component, a small device, theorems |
| `RenumberedWires` | `make_pips`: the files the sequential router runs on | component, theorems (in `RoutePhysProofs`) |
| `FlatPipPaths` | the flat table of paths: layout and subscripts | operators |
| `TilePaths`, `MCTilePaths`, `TilePathsProofs` | the search for the paths of each tile type, on threads, and `store_in_file` | component, small tile types, theorems (those of `TableCache` too) |
| `TileRouter`, `MCTileRouter`, `TileRouterProofs` | blocking and the routing step of the tile-based router, over the flat table | component, a small device, theorems |
| `TableCache` | its files, and a process that is stopped and started | component |
| `StringInterchange`, `StringInterchangeProofs` | the maps between the strings of device and netlist | component, theorems |
| `MCNames` | runs `RenumberedWires` and `StringInterchange` side by side | small devices and lists |
| `DenseSets` | a file of vectors (`MMF_Dense_Sets.h`) | operators |
| `DeviceTables`, `SortedTables`, `MCTables` | the lookup tables and the search files, made by threads; `MCTables` runs these two and `TableCache` side by side | components, small devices |
| `DrawWires`, `MCDrawWires`, `DrawWiresProofs` | the OpenCL tile router | component, all graphs of four tiles, theorems |

### NodeRouter and the code

The host is one thread; `pc` says where it is: `restart` and `series` are the
two loops of `route`, `kernel` the time between `step_all` and `finish`,
`store` the loop over draw commands, `walk` the loop that collects `ids` from a
stub's last entry up to a source, `forward` the loop that builds branches and
checks owners from the source down, `throw` an exception of `at()`, `done` the
end of `route_file`.

| Variables | Code |
|---|---|
| `owner`, `is_routed`, `out` | `v_node_nets`, `is_routed`, the nets of `b_phys` |
| `order` | `net_pairs`, in the order the threads of `make_vecs` happened to fill |
| `di`, `heads`, `explored` | the device buffers: draw commands, beams, histories |
| `snaps` | `vv_explored`, one history per series read back in this restart |
| `todo`, `item`, `cur_heads`, `count_index`, `parent`, `pip_i` | the work items of a series and the locals of the one that runs |
| `di_index`, `ids`, `cur_history`, `ri`, `seen` | the locals of `store_possibly_routed_nets` |
| `claimed`, `dropped` | history variables: the pips a stored route took, the stubs whose beam lost a head |

Each loop body of the kernel and of the store is an action, so that a search
may be suspended, succeed or die at any expansion. Work items share nothing
they write, so they run one after the other in any order; that makes the order
of their steps irrelevant and is the only reduction of the concurrency.

Abstracted: names and strings; the tile distance and pseudo-random part of a
cost (the constant `Bias` gives any number per stub and pip); the message
(`out` keeps whether a net is as read, emptied, or rebuilt, with which pips in
which order and whether the stub hangs on the last one). A multi-stub net is
not built by the code, and `AddBranch` leaves it alone.

`block_all_resources` runs on all threads over existing routing; its outcomes
are the set `Inputs` of initial owners, and the outcomes of `make_vecs` the set
`Orders`. `NodeSetup` shows what these outcomes are.

### NodeSetup and the code

`pc` is the part of `make` that runs: `count` (`count_stubs` and the sizes that
follow from it), `vecs` (`make_vecs`), `block` (`block_all_resources`),
`buffers` (`setup_buffers`). In the first three each thread of `jthread_each` is
at a net (`at`) and goes on to the one `Threads` further. `Reserve` is the
`fetch_add` on `global_stub_index`, `FillStub` one stub at
`base + stub_offset`, `Block` one write to `node_nets`; they interleave. The
writes to `node_nets` race in the code: the last one wins. `blocked` is what a
thread has written for its net; the writes of one net are the same number, so
they come in any order, and the first wire that is not there ends the program.
`heads` keeps the set of first heads: they cost the same. `Logged` and `Read`
are the addresses at which the kernel writes a history entry and the host
reads it, with the stride of each.

`SizesAssumption` says what `MadeAsItShould` and `HistoriesReadBack` need of the
constants: a beam of at most half as many slots as a history has entries
(`beam_width` is 32, `largest_ocl_counter_max` 128), so that of all buffers the
histories are the largest, and at most two devices per entry of a history
(256), so that there is memory for one line if there is for the histories.

Not in the model: every pin resolves to a node, every wire of a pip is in some
node (or is `None`, where the code aborts). A netlist without a stub divides by
zero in `make`, and a device that is dealt no work group makes
`clCreateBuffer` fail: both are `aborted` here.

### RouteTiles and the code

Each thread runs the loop of `route_tiles`; `pc` is where it is: `again` (top
of the loop), `reset` and `cleared` around the store to `stubs_to_handle`,
`move` and `handle` in `move_unhandled_to_handled` (the size of a vector is
read without the lock of its tile, then the vector is moved under it), `route`
and `stubs` in `route_each_tile`, `check` after the last barrier, `exit`.
`waiting` is the `std::barrier`: the last thread to arrive empties it, and the
released threads go on whenever they are scheduled. `tin` is the tile a thread
is at, `ustubs` the stubs it took from it. Each access to shared data (an
atomic, a vector under its lock, the barrier) is a step of its own.

`Scanned`, `Choices` and `BestTile` are the two scans for the tile nearest to
the source: first over the tiles of the source node's pips, then over those of
the tile's pips; distances are a constant matrix that orders tiles as
`Tile_Index::distance` does. The indices written for the viewer are left out.

### RoutePhys and the code

`pc` says where the thread of `Route_Phys::route` is: `block` is the loop that
blocks the resources of every net, `net` the loop over the nets, `sources` the
loop of `add_nodes_pips`, `search` the loop of `route_stub`, `walk` that of
`build_route_ids`, `abort` a call of `abort()`, `done` the end. An action is
one iteration of one of these loops, with all that it calls.

| Variables | Code |
|---|---|
| `input` | the netlist: the nodes of the pins and pips of each net, and the nets with a pip below their one source |
| `net`, `stop_requested` | `net_idx`, then `n`; the stop token |
| `stored_nodes_nets` | `NodeStorage` |
| `route_storage`, `alt_route_options`, `used_nodes`, `used_pips` | `RouteStorage`, created again for every net over a zeroed file |
| `sources`, `stubs`, `pip_stubs`, `attempts` | the sources not yet added, `stubs_map`, and the locals of `route_stub` |
| `pips_to_process`, `route_ids` | the locals of `build_route_ids` |
| `phys_nets` | the nets of the message: the stubs copied, or the branches (as pairs of previous pip and pip) with the stubs that hang on them |
| `appended` | history variable: the pips `append` was called with |

A pip of the model is a `PIP_Index`, an id with a direction: both directions
share an entry of the storage and a bit of `used_pips`, as in the code.
Abstracted: the distance of two nodes is a constant (ten times the tile
distance, minimised over the tiles of both nodes); the order of an
`unordered_map` and of equal heads of the queue is any; `pips_to_process` is a
set, so a trunk that several stubs share is walked in any order and as often.
`StubAt` is the stub that `stubs_map` has at a node: the first one there, as
`insert` adds no second. Where a net is routed, a second stub at a node is
neither hung on a branch nor copied (see the findings); a stub whose node is a
source is never found.
Strings and the indices written for the viewer are left out. A pin without a
wire, for which `block_site_pin` does nothing, is outside the assumptions:
`assign_stubs` reads a table at `UINT32_MAX` for it.

`route` is started by `start_routing`; `route_phys.cpp` has that call commented
out in favour of `tile_based_routing`.

### RenumberedWires and the code

`stage` is the part of `make_pips` that runs and `at` where its loop is; one
iteration is a step, of the inner loop where there is one: `MakeWires` is one wire
of a node, `MakeWireToPips` one pip and `MakeSitePinWires` one pin of the device
(`DevicePips` and `SitePins` list them in the order of the loops over tiles, types
and sites), `NextNode` the end of a node. `buckets` and `node_renumber` are `ret` and the pairs of
bucket and place that stand for a new number until all buckets are known
(`make_wires`), `alt_wires`, `alt_nodes`, `alt_pips`, `alt_site_pins` the files
that are mapped afterwards, with `DenseSets` for those of vectors. `find_wire`
and `find_site_pin` hash, then scan the bucket; `crc` is any function of a pair
of strings, so any two keys may share a bucket. `TestNodes` and `TestWires` are
the checks the maker runs; `test_wires` compares the tile found with the *wire*'s
name (line 206), so it counts wires as bad that are not, and only prints.

### TilePaths, FlatPipPaths, TileRouter, TableCache and the code

`TilePaths` follows `enum_tile_paths`: `NextType` and the wires of a type,
`StartWire` the search against the pips from a wire that only is driven, `Grow`
one head of one thread's share of the level (threads take every n-th head),
`Join` the concatenation of what they found and the storing of paths whose head
only drives, `StoreInFile` the layout and its own checks. A head is a place in
`wpns` and knows the wires its path could have gone to already.
`write_flat_span_file` makes a file of as many bytes as its array has, and no file
of no bytes can be mapped: `StoreInFile` aborts as well if an array is empty
(`Storable`), which that of the wires is on a device without an inner wire in any
path. What is then left on disk are the files before it, a stop as in `TableCache`.

`FlatPipPaths` has the layout (`Spans`, `skippable`) and the subscripts. The
entry behind the end of an array reads as `Beyond`; in the mapped file it is
part of the zero-filled last page. A tile type without paths is given a
negative index by `skippable`, which the subscripts never follow, as its count
is 0.

`TileRouter`: a slot is one wire of one tile. `net_ids` is `a_tile_wire_net_id`
with its inbox bit, `path_ids` and `net_source` the other two arrays.
`BlockSource`, `BlockStub`, `BlockPip` and `BlockAbort` are one resource each
of `block_all_resources`; `Skip`, `Assign` and `Unroutable` one slot of
`route_step`. The source of a net whose node has several wires is only the last
of them, as in the code. What the router finds in the table is the constant
`Scan`, which `MCTileRouter` computes with `FlatPipPaths`.

`TableCache`: each file is absent, empty, sized or written; `Make` is one of
the steps `op` of the maker in its order, `Stop` a crash at any point, `Start`
the test of the marker's size; `phase` is where the process is. A table of the
model is the list of its files with the order in which they are opened, sized
and written; the assumption is that each is written, and nothing done to it
afterwards. `MCTables` has the two lists of the code.

### DeviceTables, SortedTables and the code

Both go through their makers in one fixed order (`pc`); in each the threads
share a list by `each_n` and interleave entry by entry. `DeviceTables` writes
fixed places without a lock and sorts afterwards; an entry is the packed number
of the code, modulo `Word`, and what is not filled stays zero and is sorted to
the front. `SortedTables` reserves with `fetch_add` (`Reserve`) and fills
(`Store`) at places of one file; what is stored beyond its end is `overrun`.
Each maker's own tests abort as in the code. A tile is known to two of the files
by `Tile_Index`, its place in an array of columns and rows. The code does not
look whether tiles share a place or lie outside; `TilesAssumption` says they do not.

### StringInterchange and the code

`kind` is the maker: `insert` (`String_Building_Group`), `assign` (the two node
routers and `Route_Phys`), `sorted` (the tile-based router, which only reads).
`Load` is one string of the loops that build the map; `AddPip` appends the pip
with up to three strings (a pip lies in one tile, so it names three), `DropPip`
is a pip that is orphaned after its strings were appended, `WriteStrings` the
list that is written. `ic` holds `phys_stridx_to_dev_stridx`,
`dev_strIdx_to_phys_strIdx` and `extra_dev_strIdx`.

### DrawWires and the code

The host enqueues a series (`step_all`), every item runs (`Begin`, `Search`,
`Succeed`, `RunEmpty`, `Save`: one iteration of the kernel's loop each), the host
finishes the queue, copies `dirty` and enqueues its fill (`Finish`). It does not
await the fill: `Fill` runs at any time after, also when the host has enqueued the
next series, and only the order of the queue keeps it before those items
(`InOrder`). `combine` packs cost, steps and tile into the bits of the code, so
costs wrap; `Swap` is the exchange at one slot. `workgroup_count` is a division:
what does not fill a work group is never run (`Ran`), and if there is no whole
group `step_all` throws (`Refuse`). The kernel's local `first` is read by nobody.

The model has one device with one in-order queue, as `make` creates it for the
default device. On several queues `step_all` would run all items on each, over
memory they share, and `do_all` would await the first only.

## Runs

| Run | Question | Bounds |
|---|---|---|
| `node_router_conflict` | Are routes of different nets disjoint, is the output whole, is no found route refused without cause, do routes stay? Refinement of `NetRouting` | 4 stubs of 3 nets over 13 nodes, 18 pips; any of 4 nodes blocked, 4 orders; 3 expansions, 2 series, 2 restarts: stale owners, refusals, refusals followed by success in a later restart, loops, routes over two series and the multi-stub branch occur |
| `node_router_maze` | The forest over all snapshots, resumed beams, the cheapest head in front, the meaning of a dead end, termination | a graph with cycles, any of 6 nodes blocked, 3 series of 3 expansions, 2 restarts; a beam of 4 with insertion into 3, so heads are lost in some runs and not in others |
| `node_router_report` | The count of the final report (a violation) | as conflict |
| `node_setup` | Does each stub get one index with its own data, does only the input decide whether the router is made, do host and device agree where histories are? | every netlist of 3 out of 10 nets that differ in the case they exercise; 2 threads; 1 to 3 devices, with just enough and too little memory |
| `route_tiles` | Are stubs lost or doubled, do phases overlap, do the threads stop together, with nothing left, and at all; do paths depend on the threads? | 3 threads, 7 tiles, 5 stubs: a dead end, a stub led away, a closed source, two open tiles equally near, two stubs that meet at one tile in one round |
| `route_phys` | Is the search a forest, does the router give up, abort and write only as it should, does it end? Refinement of `TreeRouting` | 4 nets over 14 nodes and 16 pips: two source nodes, stubs behind stubs, two stubs at one node, parallel pips, pips of two directions, cycles; any of 4 nodes blocked, a netlist that overlaps and one that is partly routed; 4 attempts, so that searches are cut off, and costs modulo 4, so that they wrap |
| `route_phys_report` | The count of its final report (a violation) | as `route_phys` |
| `tile_paths` | Is exactly every direct path stored, once, and read back? Does nothing but a full count or an empty file abort? | every way to connect three inner wires and some ends, 2^10 tile types, and three larger ones; counts of 16 bits stand at 15 (`CountLimit`), so that a pair with 16 paths is cut; 2 threads from 2 heads on |
| `tile_router` | Are paths disjoint, is a stub left for cause, does a path belong to its pair? | 3 nets with every choice of sources and stubs over two tiles that share wires, and netlists with a pip, two stubs, no source, a pin on no node |
| `tables` | Do only the devices decide who is turned away, does every search answer as the device says, is a place written once, which stops hurt? | two tiles of a type, up to 5 wires in up to 4 nodes, sound and not: a wire twice, in two nodes, in none, a name that is the zeros', equal sites; 2 threads; 3 stops |
| `names` | Do names and pips resolve as in the device; do the directions of the map of strings agree, do pips keep their names? | devices as of `tables`, with checksums from all different to all the same; lists of up to 3 strings, of one file, of both, twice in one; 2 pips added or dropped |
| `draw_wires` | What do a success and a dead end mean, when does the host stop? | one search on every graph of four tiles, on some graphs 2 or 3 items in work groups of 2, and a group larger than all items; the fill of `dirty` at any time; 3 series of 3 steps; costs modulo 128, so that they wrap; insertion into 3 of 6 slots |

Several properties are conjunctions of named parts. `EachStubOnce` is
`OncePlaced`, `StubsAreHere` and `NothingLeft`; `StoresDirectPaths` contains
`PathsNumbered` and `EndsByItself`; `NamesResolve` and `PipsLeadAsInDevice` have
two or three parts each; `VerdictsAreReal` contains `FrontSorted`,
`EntriesAreWalks` and `LinesAreOfOneSeries`, `EndsDecided` contains
`DirtyIsUndecided`; `MadeAsItShould` and `AllResolve` of `tables` speak of both
generations of tables. `InsertIsTheLoop`, that `Insert` of `Beam` is the loop of
the kernel on every small beam, is an assumption of `MCNodeRouter` that TLC
evaluates.

Deadlock is checked in every run: a finished program stutters (`Done`, `Ended`).

Fairness: `FairSpec` of `NodeRouter` (run `node_router_maze`) is weak fairness
of `Next`. The host is one thread that the operating system runs, and `finish`
returns because the driver runs every work item; every loop of a work item is
bounded. Nothing stronger is needed, and no action is favoured over another. In
`RouteTiles` each thread is weakly fair: the operating system runs every thread
that does not wait at the barrier. In `RoutePhys` the one thread is weakly fair;
a request to stop is not, it may never come. The other modules state no
liveness.

### Findings

`write_phys_unrouted_nets` of the OpenCL node router counts as "fully routed"
every net whose `is_routed` flag is set. The flag is set when the *first* stub of a net is stored, and a
net with several stubs is then written back unrouted, so the reported number
exceeds the number of nets written with their routes. The run
`node_router_report` shows it on the smallest such design.

`Route_Phys` counts a net as "fully routed" when a tree to every node of its
stubs was found. Two stubs at one node share the entry of `stubs_map`
(`RouteStorage.h:567`), where `insert` keeps the first; the second one is hung on no
branch, and a routed net's stubs are not copied. The run `route_phys_report`
shows a net reported as fully routed that lacks a stub. `OutputWhole` therefore says of
a routed net which stubs it has: the first at each node, and no others.

Met on the way, and said where they matter rather than shown as violations,
because no line of the repository claims otherwise: a finish is added to the
index of its vector without a look at the vector's size
(`tile-based-router.h:1678`), so `RoutedInRange` has to assume it is in range; a
table of the tile-based router that was cut short counts as made
(`tile-based-router.h:1072`, `DamageIsForGood`); with three OpenCL devices and
little memory, host and kernel disagree on where histories are
(`HistoriesReadBack` is stated for up to two); the OpenCL tile router leaves out
what does not fill a work group (`ocl_tile_router.h:381`), which is nothing where the size of a group divides 256,
to which items are padded, and would run all items on
each queue of several (`ocl_tile_router.h:93`); the file of site pins is
sized by the number of nodes (`site_pin_nodes.h:125`); `make_pips` accepts a wire
in two nodes and keeps the last; a wire of no node reads as one of node 0 in
`flat_tile_wire_to_node`.

## Proofs

`NodeRouterProofs` first proves that a pop and an insertion leave in a beam only
heads that were there and the new one, and leave a sorted beam sorted, for every
width. Then it proves, for every device, netlist, cost table, beam width
and number of expansions, series and restarts satisfying the named assumptions
of `NodeRouter` (the device is a graph, the netlist refers to it, counts are
positive):

| Theorem | Property | What it says |
|---|---|---|
| `TypeCorrect` | `TypeOK` | types, and counts within the histories run so far |
| `HistoriesAreForests` | `HistoryForest` | parents are earlier entries, over all snapshots, and pips meet |
| `BeamsExtendHistories` | `BeamForest` | so do the heads a later series resumes with |
| `FrontsAreCheapest` | `FrontIsCheapest` | every beam is in the order of its costs, so a cheapest head is expanded, in every series |
| `DisjointRoutes` | `RoutesDisjoint` | no node is in two stored routes |
| `LookupSucceeds` | `NoThrow` | the lookup of the first branch does not throw |
| `WrittenWhole` | `OutputWhole` | each net is written as read or with one whole route |
| `OwnersStay` | `OwnersKept` | an owner is never replaced |
| `RoutesStay` | `RoutesKept` | a routed net keeps its route and its output |
| `ImplementsNetRouting` | `RoutingSpec` | every step is one `Take` or changes nothing `NetRouting` sees |
| `DeadEndsStay` | `DeadEndIsReal` | a search that ran empty and lost no head leaves no legal route to its stub, then or later |
| `LossesHaveCauses` | `RefusedForCause` | a route that was found and not stored has a loop, or a node that belongs to another net |

`NodeSetupProofs` proves of its `make`, for any netlist, number of threads and
devices, and sizes of groups, beams, histories and buffers satisfying the
assumptions of `NodeSetup`:

| Theorem | Property | What it says |
|---|---|---|
| `Invariance` | - | the inductive invariant |
| `StubsAreIndexed` | `StubsIndexed` | each stub ends up at one index, with its own node, net and first heads |
| `RouterIsMade` | `MadeAsItShould` | netlist and context alone decide whether the router is made; nodes belong to nets that use them |
| `HistoriesAreReadBack` | `HistoriesReadBack` | with one or two devices host and kernel agree where a history entry is |

`RouteTilesProofs` proves, for any number of threads, tiles and stubs:

| Theorem | Property | What it says |
|---|---|---|
| `NoUnlockedRace` | `PhasesApart` | no thread routes while another reads a vector's size without its lock |
| `AllThreadsStop` | `ThreadsAgree` | once a thread has ended, no other one goes around again |
| `TypeCorrect` | `TypeOK` | types; the counter of unfinished stubs does not wrap below 0 |
| `StubsAreConserved` | `EachStubOnce` | no stub is lost, in two places, or at a tile its path does not end at, and none is left when a thread ends |
| `PathsAreAlone` | `PathsAreSequential` | whatever the threads do, each stub ends with the path it has alone |

`RoutePhysProofs` proves, for every device (cycles and two-way pips included)
and every netlist satisfying the assumptions of `RoutePhys`, for any cost width
and any limit of attempts:

| Theorem | Property | What it says |
|---|---|---|
| `TypeCorrect` | `TypeOK` | types; the walk back meets pips only |
| `SearchIsForest` | `SearchForest` | the pips of a search form a forest below the sources |
| `AbortsForCause` | `AbortForCause` | it aborts only on overlapping or partly routed nets |
| `GivesUpOnlyForCause` | `GivesUpForCause` | an empty queue proves a stub out of reach |
| `OutputIsWhole` | `OutputWhole` | a net is written as a tree over its own nodes that carries the first stub at each of its stub nodes and ends nowhere else, or as it was read |
| `CostsKept` | `QueuedCostsKept` | the entry of a pip in the queue is not rewritten |
| `ImplementsTreeRouting` | `TreeRoutingSpec` | every step is one `Reserve`, one `Take`, or changes nothing `TreeRouting` sees |

and of the files this router searches, `RenumberedWires`, for every device and
every checksum function:

| Theorem | Property | What it says |
|---|---|---|
| `MakingInvariant` | - | the inductive invariant |
| `MakeNames` | `NamesResolve` | the maker aborts only on a device without a wire in any node, for which an empty file cannot be made; each new number is one wire of one node, in every file; on a sound device the searches find the nodes the device has |
| `MakePips` | `PipsLeadAsInDevice` | a node's pips are those of its wires, each way once; if the wires are sound they lead where the device's pips do |

A device is sound if its names are those of one wire (or pin) each and no wire is
in two nodes, or in one twice; that is a hypothesis of the last parts only. The
assumption `DeviceFilesAssumption` is that a list of the device indexes the lists it
speaks of and that each pin of a site type has a wire, which the code reads
without a check. `MCNames` has devices of both kinds.

`TileRouterProofs` proves, for every device, netlist and table of paths (the
table may hold anything, but for the last two theorems):

| Theorem | Property | What it says |
|---|---|---|
| `TypeCorrect` | `TypeOK` | types; what waits, waits for a net |
| `AssignedPathsOwned` | `PathsOwned` | the wires of an assigned path stay the net's |
| `AssignedPathsDisjoint` | `PathsDisjoint` | paths of different nets share no wire |
| `LeftForCause` | `UnroutedForCause` | each path of a stub left behind has a wire of another net, still at the end |
| `EveryMarkExplained` | `MarksExplained` | a slot is marked only for a source, a waiting stub or a path |
| `RoutingKeepsSlots` | `SlotsKept` | routing takes no slot from a net, if no path runs over a wire at which paths start (`InnerUnstartable`) |
| `RoutedFromTable` | `RoutedInRange` | a path assigned for a source and a stub is one stored for the two, if the scan gives what is stored wherever source and finishes are in range (`ScansStored`) |

The two hypotheses are about the table alone. Inner wires drive, so paths start
at none of them; and that a scan gives what was stored is what `ScanIsStored` of
`TilePaths` says of the table the process makes, proved below. `MCTileRouter`
assumes both of its table, so TLC evaluates them there.

`TilePathsProofs` proves, for any tile types, any number of threads in any order
of their steps, and any limits satisfying the assumptions of `TilePaths` and
`FlatPipPaths`:

| Theorem | Property | What it says |
|---|---|---|
| `SearchFindsDirectPaths` | `StoresDirectPaths` | exactly the direct paths from a wire are stored, each under one id, and `max_depth` cuts nothing off |
| `SearchAbortsIfCutOrEmpty` | `AbortsIfCutOrEmpty` | the calls of `abort()` in the search are never reached; `store_in_file` aborts exactly if a pair has too many ids or no path has an inner wire |
| `SearchScansStored` | `ScanIsStored` | the flat table reads back as it was made: the scan tries exactly the stored ids, the shortest paths first, and each id is read as its path |

The assumptions: a type has fewer than 2^16 wires (the code's sets of wires have
`max_tile_wire_count` 25285, `tile-based-router.h:229`) and its pips join wires
of the type (as the bit sets of `get_pips_by_wire` presume); the device has no
more types than the table has room for (`store_in_file` aborts otherwise); twice
`max_depth` (4000) is below 2^16; what is read behind the end of an array has a
count of 16 bits. That no direct path has as many wires as `max_depth`
(`DepthAssumption`) is a fact about devices the code relies on: it cuts longer
ones off without a word.

And, for any files, any order in which they are made and any number of stops, of
`TableCache`:

| Theorem | Property | What it says |
|---|---|---|
| `CacheInvariant` | - | the inductive invariant |
| `DamageHasOneCause` | `DamageIsForGood` | what is loaded is whole exactly if the process was never stopped between the size of the marker and the last write; it aborts over its tables only after such a stop |
| `DamageStays` | - | damaged tables are never made again |

`StringInterchangeProofs` proves, for any two lists of strings, each maker and
any number of pips:

| Theorem | Property | What it says |
|---|---|---|
| `TypeCorrect` | `TypeOK` | types |
| `DirectionsAgree` | `NamesAgree` | both directions of the map name the same string |
| `ReadsTheFirst` | `FirstFound` | a netlist string leads to the first device string of its spelling |
| `AppendedOnce` | `NoneTwice` | no string is appended that the list has |
| `PipsKeepTheirNames` | `PipsNamed` | a pip names in the written list what was asked for |
| `NamesNeverChange` | `NamesStay` | an index keeps its string |

`DrawWiresProofs` proves, for every graph of tiles and list of stubs, any widths
of front and beam, any size of a work group, any number of steps and series, and
the fill of `dirty` at any time the queue allows:

| Theorem | Property | What it says |
|---|---|---|
| `ReportInvariant` | - | the inductive invariant of the series: `dirty` counts what it left undecided, and the points a line shows are of one series |
| `CountsDecide` | `EndsDecided` | what the host read is the number of items the series left undecided, so it stops exactly when what the queue runs is decided |
| `SearchInvariant` | - | the inductive invariant of the search |
| `VerdictsHold` | `VerdictsAreReal` | a success reached the source; a dead end without a loss could not; a front is in order and of walks from the stub |

The node router's argument has two layers. `KernelInv` is about the search. `HistoryForest`
alone is not inductive: that the entry a head points to is where the host will
look for it depends on how many series the stub has run, so `Counts` fixes the
count of every stub by the phase and the state, `Phase` the number of snapshots
by where the host is, and `ParentLogged` says the head being expanded is the
last entry. `PlaceUnique` and `PlaceBelow` are the arithmetic of "series and
offset" places, so that logging one entry disturbs no other.
`StoreInv` is about the host, on top of it: `Walk` (the ids collected go
strictly down and each is the parent of the one before), `Forward` (the nodes
passed are distinct and not foreign), `Written` (the branches built are the
path behind), `Committed` and `ClaimsOwned`. The pivotal lemma is
`WalkedPathIsRoute`: at the moment of `StoreRoute` the walked pips are a route
in the sense of `NetRouting`, all of whose nodes are free or the net's.

That the beams are sorted is a layer of its own, `BeamsSorted`. An insertion
carries a head from slot to slot and swaps it for a costlier one: `CarriedIsLast`
says that the head carried is the one last swapped out, `PassedOver` that the
heads it passed since cost no more than it, whence `InsertSorted`. A beam is
empty, made of first heads of equal cost, or what shifts and insertions left,
and the beam at work and the stored ones are both covered.

What a search has seen is `SearchInv`: the nodes its history
enters, and the sources (`Visited`). Each pip that leaves one of them leads to a
node that is blocked or seen, to a head of the beam, or is still to be tried in
the expansion at work (`Pursued`). When a beam that lost no head runs empty the
set is closed (`Encloses`), and as owners only grow it stays so; the invariant
speaks of the set, and `ReachableEnclosed` shows that the recursive `Reachable`
lies inside it. It needs what `DeviceAssumption` does not say: that the slice of
a node has every pip that leaves it (`SlicesAssumption`), and that each pip from
a source node is among those its stubs start with and each stub is in the table
(`StubsAssumption`, as `make_vecs` fills them). A stub at a source node of its own
net is left out (`Sought`): its search goes on from the source nodes, as any.
`RefusalInv` gives each stub that lost its route the chain of entries its walk
went up (`Excused`), with the fault in it, which no later step removes.

For `NodeSetup` counts are numbers of pairs of net and stub. A thread that goes
from net to net passes every `Threads`-th (`FurtherPasses`, arithmetic of
remainders), so when all have ended all nets are passed. `CountInv`: what is
counted are the pairs of the nets passed. `RangesInv`: what is reserved are the
pairs of the nets passed or at work (`Reserved`), and no index is ahead of two
threads (`Pending`); hence the index a thread fills is below `netCount`.
`PlacesInv`: an index that is reserved is filled or ahead of a thread, and the
pairs placed (`Placed`) have one index each. `StubsIndexed` says this only once
the threads have joined, and does not survive a step before. `BlockInv` says the
same of nodes: those of the nets passed have owners, and owners are users. That
the aborts of `setup_buffers` are those of `Troubled` is arithmetic: how many
groups a queue is dealt (`QueueCounts`), and that room for the histories of the
first queue is room for everything else (`LinesFit`, `HistoriesFit`).

For the parallel tile router the inductive invariant is `Barrier` (the threads that run
are in one phase, those that wait at the start of the next, and somebody runs)
and `Seen` (while threads check the counter it is 0 for none or for all of
them). `ThreadsAgree` alone is not inductive: it needs that the counter cannot
change between the first and the last check, which the barrier at the top of
the loop provides.

`EachStubOnce` rests on a second layer, `RoundInv`, which says where the stubs
of a tile can be while its thread sweeps over its tiles (`Owns`, every
`GroupSize`-th one). `Swept`: the stubs a tile handles lie behind the thread when
it moves and ahead of it when it routes, so `HandleOutNets` overwrites an empty
vector. `Moved`: no stub waits at a tile behind a thread that moves, nor at any
tile of one that waits to route, because stubs are appended in the next phase
only. `QuietMove` and `QuietEnd`: while the counter of the round is 0 no vector
was moved, and once all have moved there is nothing anywhere, which is what a
thread relies on that leaves its loop. The lemmas `MoveAll`, `TakeFirst` and
`AppendNew` then say, of any vectors, that a move, a take and an append keep
every stub in one place, and `OnceOfHandle`, `OnceOfTake` and `OnceOfRoute` apply
them.

`PathInv` is about one stub at a time. `OnItsWay` says that its path is as far
as it comes alone in as many steps (`Way`), that it is handled as long as that
goes on, and that from the fourth tile on it has come nearer to its source with
every step, so that it meets no tile twice and ends within `TileCount + 3` steps
(`NearingIsShort`). `StepIsOnward` is the lemma that a step of `route_tile_stub`
depends on the path and the device only: it is proved for any tiles that are
equally near, where the code takes the first it scans. An earlier form of the
reference took the one with the lowest number; it agreed on every instance
without such a tie.

For the sequential router `RouteInv` adds to the properties what they rest on.
`SearchSets` ties the bit sets to the pips appended and says that no appended
pip is over a node of another net, which is why `store_pip` cannot abort after
the search; and that each node of stubs was found by one pip, on which `Routed`
hangs the kept stub (`KeptStub`, `KeptStubsHang`). `Covered` is the argument for `GivesUpForCause`: every node used is
expanded, waits in the queue, or is a source that is not added yet; with an
empty queue the nodes used are closed under free pips. `WalkInv` says that the
walk back is closed but for what it has yet to process, and that everything it
met leads to a stub, so that what is stored has no loose end. `Reserved` says
why a node has an owner. `AddNodePipsStep` is the pivotal lemma: pips into
unused nodes, one per node, keep a forest a forest (`ForestGrows`), and no two
directions of one pip are both in it (`IdsDiffer`). The lemma `Least` gives
every nonempty set of numbers a least one, from `NatLessThanWellFounded`.

For `RenumberedWires` the invariant `MakingInv` has one conjunct for what each part
of `make_pips` leaves behind, and one for how far the part that runs has come.
`BucketsFilled`: every wire of a node met so far has its key at its place, no place
is given twice, no other is used, and a key is in the bucket of its checksum. A
place becomes a number when the file is written: the number is where the bucket
begins (`Offsets`) plus the place in it, and since vectors laid end to end overlap
nowhere (`PlaceOnce`, `Located`) the numbers are given once and used up
(`WiresNumbered`). The search scans one bucket; `FoundInFile` says that this is as
good as a search of the whole file, as all entries of the key are in that bucket.
`NodesSet` says that the first nodes' wires know their node and that no later node
takes them away, which needs `NumbersOnce`. `PipsEntered` and `PipsAtNodes` describe
both lists of pips by one set, the ways to take the pips so far (`Ways`): at a
wire those that leave the wire, at a node those whose wire's node it is. So the two
agree without a look at the order in which they were made. The properties say
something of a finished making only and are not inductive.

For the tile-based router the argument is `NetsKept`: routing gives a slot a net
only if it has none or has that one. So what `pathAvailable` saw when a path was
taken stays, and so does what was in the way of the paths that were not taken;
the marks need no second look.

For the search of `TilePaths` the inductive invariant is `SearchInv`. A head
stands for its trail, the walk from the start to it. `LevelOk` says that the heads
of level `n` have exactly the direct walks of `n` wires that end or go on
(`Live`), each once, and that a head knows of its walk what the code's two bit
sets should hold (`Reach`: what any of its wires can be reached from; `Fresh`:
what only its last wire can). `ThreadsOk` says that what thread `i` has found are
the continuations (`Sprouts`) of the heads it has grown, those `k` with
`k % threads = i % threads`; when all are past the end every head was grown by one
thread (`RemainderSteps`), so the levels joined are `LevelOk` again. Since
`Fresh` leaves only wires that keep a walk direct, no wire is met twice and no
call of `abort()` under `grow_head` is reached; and as a direct walk repeats no wire,
it has no more inner wires than the type has wires of both directions, which is
why the search ends by itself. `Contents` says what the container holds: the walks
of the searches and levels that are over (`Met`) and nothing else. It needs
`Kept` (ids number distinct paths, a key's ids are distinct), because a path met
before is not added again but shared over wires and tile types. `StoresDirectPaths`
alone is not inductive: it says nothing while a search runs.

For the layout, `LevelIs` says what `skippable` leaves in every entry: an empty one
leads to the next that is not empty, whichever vector that is in, or to the end of
the array. A subscript that adds less than its entry's count stays within its
vector (`Descends`, once per level). The scan adds the skips as well: `NextIsNear`
shows that a skip over the end of the vector lands behind its count, and is small
enough for 16 bits, so that `LadderScan` finds the nonempty depths of one vector
in order. When no count is cut, what is read back is what was stored; when one is,
the pair it belongs to reads shorter (`CutLength`), and the check aborts
(`OutcomeKept`). That the counts of the upper levels are never cut, so that
only the number of ids matters, follows from the bounds on wires and depth.

`Before`, `Chain`, `WirePath`, `StorePaths`, `Walks`, `DepthVector` and the scan are
recursive functions within a LET. What such a function computes is
proved in two parts: that some function satisfies its equations (`BeforeRecursion`,
`ClimbRecursion`, `AscentRecursion`, `StoringRecursion`, `WalkingRecursion`,
`FillingRecursion`), which CHOOSE then gives; and induction on the argument, by
`Inductive` (a set with 0 and the successor of each of its numbers has them all).
That one is stated of sets, not of predicates, and follows from
`NatLessThanWellFounded` of the library. What the fold of `FlattenSeq` gives is
proved the same way (`FlatteningRecursion`).

For the strings `Good` relates the two maps and
the appended list: `AllocIsGood` and `Alloc3IsGood` say that one, and three,
appended strings keep it, and the invariant of the reading loops (`Progress`)
hands over to it. For the files it is `StepsLeft` (while they are made, what is
not written has a step left) and `ReadWhole` (what seems made is whole or the
process was stopped at the wrong moment).

For the OpenCL tile router `DirtyInv` says that `dirty` is the number of items
that were saved undecided in this series, unless its fill is still on the queue,
and then no item has begun; items write nothing of each other.
`SearchOf` is the argument for `VerdictsAreReal`: a front is in order and of
tiles that walks from the stub lead to, in as many steps as an entry counts
(modulo `PreviousMod`; the code's constants leave no walk so long); and unless
an entry was dropped, one of its tiles leads to the source if the stub does
(`Open`). An expansion keeps that (`ExpandKeeps`): the walk of the tile expanded
goes on over a neighbour, which the front has afterwards (`HasTile`, if only as
the entry it was merged with), and the other tiles stay (`Holds`). So an empty
front that lost nothing is a stub that does not lead there. It holds whatever
costs wrap to. That the bounded `Reachable` of the property is what
walks of any length lead to is `LeadsIsReachable`, by the pigeonhole principle
on a shortest walk.

Model-checked only: liveness (`Terminates`, twice, and `EveryThreadEnds`), and
all of `DeviceTables` and `SortedTables` (`MadeAsItShould`, `AllResolve`). The
operators of these filter sequences, sort sets into sequences and fold over both,
one on top of the other; each such operator would need its own lemmas by
induction, as `FlattenSeq`, `Offsets` and `dense` do. Proved but in no run: `TypeOK` of the
modules with proofs, `NoThrow`, `OwnersKept`, `QueuedCostsKept`, `PathsOwned`,
`MarksExplained`, `SlotsKept`, `FirstFound`, `NoneTwice`, `NamesStay`, and the
steps of `DamageStays`.

## Not modelled

- *Files and archives*: memory-mapped files, gzip and Cap'n Proto are input and
  output. What their state decides is in `TableCache` (a file absent, empty,
  sized, written) and in the sizes of `SortedTables`. `make_dev_tile_index.cpp`,
  whose files nothing reads, and the programs that only convert files are left
  out.
- *Wrappers*: the OpenCL, Vulkan and OpenGL classes are handles around external
  interfaces; the order of the one queue is how the models use them. The largest
  files of the tree (`gl46_base.h`, `declarations.h`, `loadProcs.h`, `GL46.h`,
  some 14,000 lines) are generated bindings without state, and are nearly half
  of what is not modelled.
- *Viewer*: a window; `gl_step` and `inspect` of the OpenCL tile router serve it.
- *Older Windows router*: `dev.h` and `Physnet.h` are included by no file.
- *OpenCL node router*: the building of the OpenCL program. The strings its
  stored routes append are in `StringInterchange`.
- *Sequential router*: `draw_sources` and the indices for the viewer;
  `block_phys`, a parallel form of the blocking whose call is commented out
  (`Route_Phys.h:1065`); `propagate_wires`, which nothing calls.
- *CPU node router*: its kernel is that of `NodeRouter`; its stand-ins for memory,
  contexts, queues and programs only allocate, and run the items on threads that
  share nothing.
- *OpenCL tile router*: contexts of several devices; `draw_wires.h`, a port of an
  earlier kernel to threads, which no build compiles in
  (`USE_CPP_INSTEAD_OF_OPENCL` is commented out).
- *Tile-based router*: `tile-based-router.md` describes inboxes, bans and claims
  over several steps; the code has one step and the inbox bit.
- Counters that threads add to and nobody reads, and progress output.
