----------------------------- MODULE NodeRouter -----------------------------
(***************************************************************************)
(* The OpenCL node router: src/ocl_node_router.h (class OCL_Node_Router)   *)
(* and the kernel it runs, src/kernels/node_router.cl.                     *)
(*                                                                         *)
(* The host runs RestartMax restarts of SeriesMax series.  In a series     *)
(* every stub is one work item of the kernel: a beam search from the       *)
(* source of its net that expands at most CounterMax heads and logs each   *)
(* expanded head in explored.  The kernel reads the node owners the host   *)
(* sent before the series; the host then stores, stub by stub, the routes  *)
(* found, against the owners as they are by then.                          *)
(*                                                                         *)
(* Work items write nothing another one reads (their own beam, history and *)
(* draw command; node_nets is constant), so they run here one after the    *)
(* other, in any order.  The loops of the kernel and of                    *)
(* store_possibly_routed_nets are steps of their own.                      *)
(***************************************************************************)
EXTENDS Beam, Sequences, FiniteSets

CONSTANTS
  Nets, Nodes, Pips, Node0, Node1, Sources, Stubs, NetOf, StubNode,
  Out,          \* Out[x]: the pips that leave node x, in pip_body order
  SourcePips,   \* SourcePips[n]: the pips that leave the sources of net n
  SiteLess,     \* stubs whose source or stub branch has no site pin
  Bias,         \* Bias[s][p]: 8 * tile distance of p to s, plus node_diff
  HeightCost,   \* the cost of one level of height, in the unit of Bias
  Orders,       \* the net_pairs tables make_vecs can build
  Inputs,       \* the owners block_all_resources can leave in node_nets
  CounterMax,   \* expansions of one series (ocl_counter_max)
  SeriesMax,    \* series of one restart (series_id_max)
  RestartMax    \* restarts (restart_count_max)

ASSUME DeviceAssumption ==
  /\ Node0 \in [Pips -> Nodes]
  /\ Node1 \in [Pips -> Nodes]
  /\ Out \in [Nodes -> Seq(Pips)]
  /\ \A x \in Nodes : \A i \in DOMAIN Out[x] : Node0[Out[x][i]] = x

(* pip_body holds every pip of the device, in the slice of its node. *)
ASSUME SlicesAssumption ==
  /\ IsFiniteSet(Nodes)
  /\ \A p \in Pips : \E i \in DOMAIN Out[Node0[p]] : Out[Node0[p]][i] = p

ASSUME NetlistAssumption ==
  /\ Sources \in [Nets -> SUBSET Nodes]
  /\ NetOf \in [Stubs -> Nets]
  /\ StubNode \in [Stubs -> Nodes]
  /\ SiteLess \subseteq Stubs
  /\ SourcePips \in [Nets -> Seq(Pips)]
  /\ \A n \in Nets : \A i \in DOMAIN SourcePips[n] :
       Node0[SourcePips[n][i]] \in Sources[n]
  /\ Inputs \subseteq [Nodes -> Nets \cup {None}]
  /\ IsFiniteSet(Stubs)
  /\ Orders \subseteq [1..Cardinality(Stubs) -> Stubs]

(* make_vecs takes all pips of the source nodes, and gives every stub a place. *)
ASSUME StubsAssumption ==
  /\ \A p \in Pips : \A n \in Nets :
       Node0[p] \in Sources[n] => \E i \in DOMAIN SourcePips[n] : SourcePips[n][i] = p
  /\ \A table \in Orders : \A s \in Stubs : \E i \in DOMAIN table : table[i] = s

ASSUME SearchAssumption ==
  /\ Bias \in [Stubs -> [Pips -> Nat]]
  /\ HeightCost \in Nat
  /\ \A n \in Nets : Len(SourcePips[n]) <= BeamWidth  \* else make_vecs aborts
  /\ CounterMax \in Nat \ {0}
  /\ SeriesMax \in Nat \ {0}
  /\ RestartMax \in Nat \ {0}

(* UINT32_MAX as the parent of a head that leaves a source node. *)
NoParent == -1

BeamHead == [cost : Nat, height : Nat, parent : Int, pip : Pips]

ASSUME NoneAssumption ==
  None \notin Nets /\ None \notin Pips /\ None \notin Stubs
    /\ None \notin BeamHead

Entry == [pip : Pips \cup {None}, parent : Int]

Fill == [pip |-> None, parent |-> NoParent]

VARIABLES
  owner,         \* v_node_nets: the net each node belongs to
  is_routed,     \* nets a route was stored for
  out,           \* b_phys.physNets: what will be written for each net
  order,         \* net_pairs: the stub of each draw command
  pc,            \* where the host is
  restart,       \* restart_count
  series,        \* series_id
  di,            \* v_drawIndirect: count and baseInstance (state) of a stub
  heads,         \* v_buf_heads: the beam of each stub
  explored,      \* v_buf_explored: the history of each stub
  snaps,         \* vv_explored: the histories read back in this restart
  todo,          \* work items of the series that have not started
  item,          \* the work item that runs, or None
  cur_heads,     \* its beam
  count_index,   \* its expansions so far in this series
  parent,        \* the head it expands, None between two expansions
  pip_i,         \* the next pip of the node it expands
  di_index,      \* the draw command the host looks at
  ids,           \* the history entries of its route, stub first
  cur_history,   \* the entry the walk reads next
  ri,            \* the entry of ids the forward pass reads next
  seen,          \* node_loop_detector
  claimed,       \* history variable: the pips a stored route claimed
  dropped        \* history variable: stubs whose beam lost a head

netlist == <<owner, is_routed, out, claimed>>
progress == <<restart, series, order>>
device == <<di, heads, explored>>
kernel == <<todo, item, cur_heads, count_index, parent, pip_i>>
store == <<di_index, ids, cur_history, ri, seen>>
vars == <<owner, is_routed, out, order, pc, restart, series, di, heads,
          explored, snaps, todo, item, cur_heads, count_index, parent, pip_i,
          di_index, ids, cur_history, ri, seen, claimed, dropped>>

-----------------------------------------------------------------------------
(* Inputs: make, make_vecs, block_all_resources. *)

StubsOf(n) == {s \in Stubs : NetOf[s] = n}

IsMulti(n) == Cardinality(StubsOf(n)) > 1

(* v_heads: the pips that leave the sources of the net, at cost 0. *)
FirstBeam(s) ==
  [j \in 1..BeamWidth |->
     IF s \notin SiteLess /\ j <= Len(SourcePips[NetOf[s]])
     THEN [cost |-> 0, height |-> 0, parent |-> NoParent,
           pip |-> SourcePips[NetOf[s]][j]]
     ELSE None]

Blank == [kind |-> "blank", path |-> << >>, stub |-> FALSE]
Input == [kind |-> "input", path |-> << >>, stub |-> FALSE]

Init ==
  /\ owner \in Inputs
  /\ order \in Orders
  /\ is_routed = [n \in Nets |-> FALSE]
  /\ out = [n \in Nets |-> Blank]
  /\ claimed = [n \in Nets |-> << >>]
  /\ pc = "restart"
  /\ restart = 0
  /\ series = 0
  /\ di = [s \in Stubs |->
             [count |-> 0, state |-> IF s \in SiteLess THEN 1 ELSE 0]]
  /\ heads = [s \in Stubs |-> FirstBeam(s)]
  /\ explored = [s \in Stubs |-> [i \in 0..(CounterMax - 1) |-> Fill]]
  /\ snaps = << >>
  /\ todo = {}
  /\ item = None
  /\ cur_heads = NoBeam
  /\ count_index = 0
  /\ parent = None
  /\ pip_i = 1
  /\ di_index = 1
  /\ ids = << >>
  /\ cur_history = NoParent
  /\ ri = 0
  /\ seen = {}
  /\ dropped = {}

-----------------------------------------------------------------------------
(* The host loop: route and step_all. *)

(* A restart writes the first heads and the draw commands to the device. *)
StartRestart ==
  /\ pc = "restart"
  /\ restart < RestartMax
  /\ heads' = [s \in Stubs |-> FirstBeam(s)]
  /\ dropped' = {s \in dropped : di[s].state # 0}
  /\ pc' = "series"
  /\ UNCHANGED <<netlist, progress, di, explored, snaps, kernel, store>>

(* step_all sends node_nets and starts the kernel on every stub. *)
StepAll ==
  /\ pc = "series"
  /\ series < SeriesMax
  /\ todo' = Stubs
  /\ pc' = "kernel"
  /\ UNCHANGED <<netlist, progress, device, snaps, item, cur_heads,
                 count_index, parent, pip_i, store, dropped>>

(* The queue is drained; the host keeps a copy of every history. *)
ReadBack ==
  /\ pc = "kernel"
  /\ todo = {}
  /\ item = None
  /\ snaps' = Append(snaps, explored)
  /\ di_index' = 1
  /\ pc' = "store"
  /\ UNCHANGED <<netlist, progress, device, kernel, ids, cur_history, ri,
                 seen, dropped>>

EndSeries ==
  /\ pc = "store"
  /\ di_index > Len(order)
  /\ series' = series + 1
  /\ pc' = "series"
  /\ UNCHANGED <<netlist, restart, order, device, snaps, kernel, store,
                 dropped>>

(* Mutant: a restart is repeated until every net is routed. *)
EndRestartUntilRouted ==
  /\ pc = "series"
  /\ series = SeriesMax
  /\ snaps' = << >>
  /\ di' = [s \in Stubs |->
              [count |-> 0,
               state |-> IF is_routed[NetOf[s]] THEN di[s].state ELSE 0]]
  /\ series' = 0
  /\ restart' = IF \A s \in Stubs : is_routed[NetOf[s]]
                THEN restart + 1 ELSE restart
  /\ pc' = "restart"
  /\ UNCHANGED <<netlist, order, heads, explored, kernel, store, dropped>>

(* After the last series every count is reset, and every stub whose net is *)
(* still not routed is searched for again. *)
EndRestart ==
  /\ pc = "series"
  /\ series = SeriesMax
  /\ snaps' = << >>
  /\ di' = [s \in Stubs |->
              [count |-> 0,
               state |-> IF is_routed[NetOf[s]] THEN di[s].state ELSE 0]]
  /\ series' = 0
  /\ restart' = restart + 1
  /\ pc' = "restart"
  /\ UNCHANGED <<netlist, order, heads, explored, kernel, store, dropped>>

(* Mutant: a net that was refused is not restored. *)
WriteMultiNets ==
  /\ pc = "restart"
  /\ restart = RestartMax
  /\ out' = [n \in Nets |-> IF IsMulti(n) THEN Input ELSE out[n]]
  /\ pc' = "done"
  /\ UNCHANGED <<owner, is_routed, claimed, progress, device, snaps, kernel,
                 store, dropped>>

(* write_phys_unrouted_nets: a net that is not routed, or that has several *)
(* stubs, is written as it was read. *)
WriteUnroutedNets ==
  /\ pc = "restart"
  /\ restart = RestartMax
  /\ out' = [n \in Nets |->
               IF IsMulti(n) \/ ~is_routed[n] THEN Input ELSE out[n]]
  /\ pc' = "done"
  /\ UNCHANGED <<owner, is_routed, claimed, progress, device, snaps, kernel,
                 store, dropped>>

-----------------------------------------------------------------------------
(* The kernel: one work item of node_router.cl. *)

IdleItem ==
  /\ item' = None
  /\ cur_heads' = NoBeam
  /\ count_index' = 0
  /\ parent' = None
  /\ pip_i' = 1

(* A dead end or a success of an earlier series returns at once. *)
KernelSkip(s) ==
  /\ pc = "kernel"
  /\ item = None
  /\ s \in todo
  /\ di[s].state # 0
  /\ todo' = todo \ {s}
  /\ UNCHANGED <<netlist, progress, pc, device, snaps, item, cur_heads,
                 count_index, parent, pip_i, store, dropped>>

KernelStart(s) ==
  /\ pc = "kernel"
  /\ item = None
  /\ s \in todo
  /\ di[s].state = 0
  /\ todo' = todo \ {s}
  /\ item' = s
  /\ cur_heads' = heads[s]
  /\ UNCHANGED <<netlist, progress, pc, device, snaps, count_index, parent,
                 pip_i, store, dropped>>

(* Mutant: the id forgets the earlier series. *)
ExploredIdInSeries == count_index

ExploredId == series * CounterMax + count_index

Finish(count, state) ==
  di' = [di EXCEPT ![item] = [count |-> count, state |-> state]]

(* No head is left: a dead end. *)
KernelDeadEnd ==
  /\ pc = "kernel"
  /\ item # None
  /\ parent = None
  /\ cur_heads[1] = None
  /\ Finish(ExploredId, 2)
  /\ IdleItem
  /\ UNCHANGED <<netlist, progress, pc, heads, explored, snaps, todo, store,
                 dropped>>

LogHead(h) ==
  explored' = [explored EXCEPT ![item][count_index] =
                 [pip |-> h.pip, parent |-> h.parent]]

(* The front head enters the stub's node: it is logged last. *)
KernelSuccess ==
  /\ pc = "kernel"
  /\ item # None
  /\ parent = None
  /\ cur_heads[1] # None
  /\ Node1[cur_heads[1].pip] = StubNode[item]
  /\ LogHead(cur_heads[1])
  /\ Finish(ExploredId + 1, 1)
  /\ IdleItem
  /\ UNCHANGED <<netlist, progress, pc, heads, snaps, todo, store, dropped>>

(* The front head is logged and leaves the beam. *)
KernelPop ==
  /\ pc = "kernel"
  /\ item # None
  /\ parent = None
  /\ cur_heads[1] # None
  /\ Node1[cur_heads[1].pip] # StubNode[item]
  /\ LogHead(cur_heads[1])
  /\ parent' = cur_heads[1]
  /\ cur_heads' = Shift(cur_heads)
  /\ UNCHANGED <<netlist, progress, pc, di, heads, snaps, todo, item,
                 count_index, pip_i, store, dropped>>

ExpandedPips == Out[Node1[parent.pip]]

(* Mutant: the parent of the parent is kept. *)
HeadOfGrandparent(p) ==
  [cost |-> Bias[item][p] + parent.height * HeightCost,
   height |-> parent.height + 1,
   parent |-> parent.parent,
   pip |-> p]

HeadOf(p) ==
  [cost |-> Bias[item][p] + parent.height * HeightCost,
   height |-> parent.height + 1,
   parent |-> ExploredId,
   pip |-> p]

(* Mutant: the nodes of the net itself count as used. *)
InUseByAny(x) == owner[x] # None

InUse(x) == owner[x] \notin {None, NetOf[item]}

(* A pip into a node of another net is passed over. *)
KernelPassPip ==
  /\ pc = "kernel"
  /\ parent # None
  /\ pip_i <= Len(ExpandedPips)
  /\ InUse(Node1[ExpandedPips[pip_i]])
  /\ pip_i' = pip_i + 1
  /\ UNCHANGED <<netlist, progress, pc, device, snaps, todo, item, cur_heads,
                 count_index, parent, store, dropped>>

KernelAddPip ==
  /\ pc = "kernel"
  /\ parent # None
  /\ pip_i <= Len(ExpandedPips)
  /\ ~InUse(Node1[ExpandedPips[pip_i]])
  /\ LET h == HeadOf(ExpandedPips[pip_i])
     IN  /\ cur_heads' = Insert(cur_heads, h)
         /\ dropped' = IF Overflow(cur_heads, h) = None
                       THEN dropped ELSE dropped \cup {item}
  /\ pip_i' = pip_i + 1
  /\ UNCHANGED <<netlist, progress, pc, device, snaps, todo, item,
                 count_index, parent, store>>

ExpandedAll ==
  /\ pc = "kernel"
  /\ parent # None
  /\ pip_i > Len(ExpandedPips)

(* The expansion left no head: a dead end that does not count this one. *)
KernelStuck ==
  /\ ExpandedAll
  /\ cur_heads[1] = None
  /\ Finish(ExploredId, 2)
  /\ IdleItem
  /\ UNCHANGED <<netlist, progress, pc, heads, explored, snaps, todo, store,
                 dropped>>

KernelContinue ==
  /\ ExpandedAll
  /\ cur_heads[1] # None
  /\ count_index + 1 < CounterMax
  /\ count_index' = count_index + 1
  /\ parent' = None
  /\ pip_i' = 1
  /\ UNCHANGED <<netlist, progress, pc, device, snaps, todo, item, cur_heads,
                 store, dropped>>

(* The series is over for this work item: the next one resumes its beam. *)
KernelSuspend ==
  /\ ExpandedAll
  /\ cur_heads[1] # None
  /\ count_index + 1 = CounterMax
  /\ Finish(series * CounterMax + CounterMax, 0)
  /\ heads' = [heads EXCEPT ![item] = cur_heads]
  /\ IdleItem
  /\ UNCHANGED <<netlist, progress, pc, explored, snaps, todo, store, dropped>>

-----------------------------------------------------------------------------
(* store_possibly_routed_nets, for the draw command di_index. *)

StubAt == order[di_index]
NetAt == NetOf[StubAt]

(* ei: the histories of the series so far, one after the other. *)
EntryAt(id) == snaps[(id \div CounterMax) + 1][StubAt][id % CounterMax]

NextCommand ==
  /\ di_index' = di_index + 1
  /\ ids' = << >>
  /\ cur_history' = NoParent
  /\ ri' = 0
  /\ seen' = {}
  /\ pc' = "store"

(* Mutant: a net that is routed is stored again. *)
StorableAgain(s) == di[s].count # 0 /\ di[s].state = 1 /\ s \notin SiteLess

Storable(s) ==
  /\ ~is_routed[NetOf[s]]
  /\ di[s].count # 0
  /\ di[s].state = 1
  /\ s \notin SiteLess

StoreSkip ==
  /\ pc = "store"
  /\ di_index <= Len(order)
  /\ ~Storable(StubAt)
  /\ NextCommand
  /\ UNCHANGED <<netlist, progress, device, snaps, kernel, dropped>>

(* The net is built afresh from its sources, with no stubs. *)
StoreBegin ==
  /\ pc = "store"
  /\ di_index <= Len(order)
  /\ Storable(StubAt)
  /\ out' = [out EXCEPT ![NetAt] = [Blank EXCEPT !.kind = "built"]]
  /\ cur_history' = di[StubAt].count - 1
  /\ pc' = "walk"
  /\ UNCHANGED <<owner, is_routed, claimed, progress, device, snaps, kernel,
                 di_index, ids, ri, seen, dropped>>

Walking == cur_history # NoParent /\ Len(ids) < di[StubAt].count

WalkParent ==
  /\ pc = "walk"
  /\ Walking
  /\ ids' = Append(ids, cur_history)
  /\ cur_history' = EntryAt(cur_history).parent
  /\ UNCHANGED <<netlist, progress, pc, device, snaps, kernel, di_index, ri,
                 seen, dropped>>

(* The branch of the first pip's node is looked up among the source site   *)
(* pins with at(), which throws if it is not one of them. *)
WalkEnd ==
  /\ pc = "walk"
  /\ ~Walking
  /\ ri' = Len(ids)
  /\ pc' = IF \/ IsMulti(NetAt)
              \/ Node0[EntryAt(ids[Len(ids)]).pip] \in Sources[NetAt]
           THEN "forward" ELSE "throw"
  /\ UNCHANGED <<netlist, progress, device, snaps, kernel, di_index, ids,
                 cur_history, seen, dropped>>

PipAt(i) == EntryAt(ids[i]).pip

(* Mutant: the nodes of the net itself count as foreign. *)
ForeignOrOwn(x) == owner[x] # None

Foreign(x) == owner[x] \notin {None, NetAt}

(* Mutant: the owners are not looked at again. *)
RefusedLoop(p) == Node1[p] \in seen

Refused(p) == Node1[p] \in seen \/ Foreign(Node0[p]) \/ Foreign(Node1[p])

(* The branch of a pip is added before the pip is checked. *)
AddBranch(p) ==
  IF IsMulti(NetAt) THEN out[NetAt]
  ELSE [out[NetAt] EXCEPT !.path = Append(@, p)]

(* The route runs in a loop, or through a node another net has taken since *)
(* the kernel read its owner: the stub is left for another restart. *)
StoreRefuse ==
  /\ pc = "forward"
  /\ Refused(PipAt(ri))
  /\ out' = [out EXCEPT ![NetAt] = AddBranch(PipAt(ri))]
  /\ NextCommand
  /\ UNCHANGED <<owner, is_routed, claimed, progress, device, snaps, kernel,
                 dropped>>

StoreForward ==
  /\ pc = "forward"
  /\ ~Refused(PipAt(ri))
  /\ ri > 1
  /\ seen' = seen \cup {Node1[PipAt(ri)]}
  /\ out' = [out EXCEPT ![NetAt] = AddBranch(PipAt(ri))]
  /\ ri' = ri - 1
  /\ UNCHANGED <<owner, is_routed, claimed, progress, pc, device, snaps,
                 kernel, di_index, ids, cur_history, dropped>>

(* The path of the walk, source first, and the nodes it takes. *)
WalkedPath == [i \in 1..Len(ids) |-> PipAt(Len(ids) + 1 - i)]
WalkedNodes == {Node0[PipAt(i)] : i \in 1..Len(ids)}
                 \cup {Node1[PipAt(i)] : i \in 1..Len(ids)}

(* Every pip passed: the stub is attached and the nodes are taken. *)
StoreRoute ==
  /\ pc = "forward"
  /\ ~Refused(PipAt(ri))
  /\ ri = 1
  /\ out' = [out EXCEPT ![NetAt] = [AddBranch(PipAt(1)) EXCEPT
                                      !.stub = ~IsMulti(NetAt)]]
  /\ owner' = [x \in Nodes |-> IF x \in WalkedNodes THEN NetAt ELSE owner[x]]
  /\ is_routed' = [is_routed EXCEPT ![NetAt] = TRUE]
  /\ claimed' = [claimed EXCEPT ![NetAt] = WalkedPath]
  /\ NextCommand
  /\ UNCHANGED <<progress, device, snaps, kernel, dropped>>

-----------------------------------------------------------------------------
Done == pc = "done" /\ UNCHANGED vars

Host == \/ StartRestart \/ StepAll \/ ReadBack \/ EndSeries \/ EndRestart
        \/ WriteUnroutedNets
Kernel == \/ \E s \in Stubs : KernelSkip(s) \/ KernelStart(s)
          \/ KernelDeadEnd \/ KernelSuccess \/ KernelPop \/ KernelPassPip
          \/ KernelAddPip \/ KernelStuck \/ KernelContinue \/ KernelSuspend
Store == \/ StoreSkip \/ StoreBegin \/ WalkParent \/ WalkEnd
         \/ StoreRefuse \/ StoreForward \/ StoreRoute

Next == Host \/ Kernel \/ Store \/ Done

Spec == Init /\ [][Next]_vars

(* The program is one host thread and kernels the driver runs to their end. *)
FairSpec == Spec /\ WF_vars(Next)

-----------------------------------------------------------------------------
(* Properties. *)

Routing == INSTANCE NetRouting WITH route <- claimed

History == [0..(CounterMax - 1) -> Entry]
BeamSet == [1..BeamWidth -> BeamHead \cup {None}]

(* Every variable has its type. *)
TypeOK ==
  /\ owner \in [Nodes -> Nets \cup {None}]
  /\ is_routed \in [Nets -> BOOLEAN]
  /\ out \in [Nets -> [kind : {"blank", "input", "built"}, path : Seq(Pips),
                       stub : BOOLEAN]]
  /\ claimed \in [Nets -> Seq(Pips)]
  /\ order \in [1..Cardinality(Stubs) -> Stubs]
  /\ pc \in {"restart", "series", "kernel", "store", "walk", "forward",
             "throw", "done"}
  /\ restart \in 0..RestartMax
  /\ series \in 0..SeriesMax
  /\ di \in [Stubs -> [count : 0..(SeriesMax * CounterMax), state : 0..2]]
  /\ heads \in [Stubs -> BeamSet]
  /\ explored \in [Stubs -> History]
  /\ snaps \in Seq([Stubs -> History])
  /\ todo \in SUBSET Stubs
  /\ item \in Stubs \cup {None}
  /\ cur_heads \in BeamSet
  /\ count_index \in 0..(CounterMax - 1)
  /\ parent \in BeamHead \cup {None}
  /\ pip_i \in Nat \ {0}
  /\ di_index \in 1..(Len(order) + 1)
  /\ ids \in Seq(Nat)
  /\ cur_history \in Int
  /\ ri \in Nat
  /\ seen \in SUBSET Nodes
  /\ dropped \in SUBSET Stubs

NodesOf(path) == {Node0[path[i]] : i \in DOMAIN path}
                   \cup {Node1[path[i]] : i \in DOMAIN path}

(* The nodes of a stored route belong to its net, whatever the kernel saw. *)
ClaimsOwned ==
  \A n \in Nets : \A x \in NodesOf(claimed[n]) : owner[x] = n

(* No node is in the stored routes of two nets: two stubs of one series may *)
(* both have been routed through a node that was free when it started. *)
RoutesDisjoint ==
  \A m, n \in Nets :
    m # n => NodesOf(claimed[m]) \cap NodesOf(claimed[n]) = {}

(* The entry the host finds at id once this series is read back. *)
HistoryAt(s, id) ==
  IF id \div CounterMax < Len(snaps)
  THEN snaps[(id \div CounterMax) + 1][s][id % CounterMax]
  ELSE explored[s][id % CounterMax]

Known(s) ==
  IF item # s THEN di[s].count
  ELSE IF parent = None THEN ExploredId ELSE ExploredId + 1

(* e extends the history of s at id: it leaves a source node, or the node  *)
(* an entry before id enters. *)
Extends(s, e, id) ==
  \/ e.parent = NoParent /\ Node0[e.pip] \in Sources[NetOf[s]]
  \/ /\ e.parent \in 0..(id - 1)
     /\ Node0[e.pip] = Node1[HistoryAt(s, e.parent).pip]

(* Histories of different series join up: the parent of every entry that   *)
(* counts is an earlier entry, and the pips of the two meet. *)
HistoryForest ==
  \A s \in Stubs : \A id \in 0..(Known(s) - 1) :
    /\ HistoryAt(s, id).pip # None
    /\ Extends(s, HistoryAt(s, id), id)

(* So do the heads a stub will expand in this series or the next. *)
BeamForest ==
  \A s \in Stubs : di[s].state = 0 /\ pc \notin {"restart", "done"} =>
    LET beam == IF item = s THEN cur_heads ELSE heads[s]
    IN  \A j \in 1..BeamWidth : beam[j] = None \/ Extends(s, beam[j], Known(s))

(* The head the kernel expands next is a cheapest one of its beam, although *)
(* heads are inserted into the first slots only, the first heads may lie   *)
(* beyond them, and a beam is resumed by later series. *)
Front(beam) ==
  \A j \in 1..BeamWidth :
    beam[j] # None => beam[1] # None /\ beam[1].cost <= beam[j].cost

FrontIsCheapest == Front(cur_heads) /\ \A s \in Stubs : Front(heads[s])

(* The lookup of the first branch never throws. *)
NoThrow == pc # "throw"

(* What is written for a net is what was read, or one whole route from one *)
(* of its sources to its stub; nothing of a refused attempt is left in it. *)
OutputWhole ==
  pc = "done" =>
    \A n \in Nets :
      \/ out[n] = Input
      \/ /\ is_routed[n]
         /\ out[n].stub
         /\ out[n].path = claimed[n]
         /\ Routing!IsRoute(n, out[n].path)

(* Every net the final report counts as fully routed is written with its   *)
(* route.  False: a net with several stubs counts from its first one on,   *)
(* and is written as it was read. *)
FullyRoutedAreWritten ==
  pc = "done" => \A n \in Nets : is_routed[n] => out[n].stub

(* The entries on the way from entry id of stub s back to its source. *)
Ancestors(s, last) ==
  LET anc[id \in 0..last] ==
        {id} \cup (IF HistoryAt(s, id).parent = NoParent THEN {}
                   ELSE anc[HistoryAt(s, id).parent])
  IN  anc[last]

Blocked(s, x) == owner[x] \notin {None, NetOf[s]}

(* A route that was found is lost only for a cause: when a series has been *)
(* stored, each route found for a net that is not routed runs in a loop or *)
(* through a node of another net. *)
RefusedForCause ==
  pc = "series" =>
    \A s \in Stubs :
      di[s].state = 1 /\ di[s].count # 0 /\ ~is_routed[NetOf[s]] =>
        LET route == Ancestors(s, di[s].count - 1)
            pip(id) == HistoryAt(s, id).pip
        IN  \/ \E i, j \in route : i # j /\ Node1[pip(i)] = Node1[pip(j)]
            \/ \E i \in route : Blocked(s, Node0[pip(i)])
                                  \/ Blocked(s, Node1[pip(i)])

(* The nodes stub s can reach through nodes that are free or of its net. *)
Reachable(s) ==
  LET reach[k \in 0..Cardinality(Nodes)] ==
        IF k = 0 THEN Sources[NetOf[s]]
        ELSE LET before == reach[k - 1]
             IN  before \cup {Node1[p] : p \in
                   {q \in Pips : Node0[q] \in before /\ ~Blocked(s, Node1[q])}}
  IN  reach[Cardinality(Nodes)]

(* A stub on a source node of its own net has no route to be found: the    *)
(* search goes on from the source nodes, as for any other. *)
Sought == {s \in Stubs \ SiteLess : StubNode[s] \notin Sources[NetOf[s]]}

(* A dead end is one: unless the beam lost a head, no legal route to the   *)
(* stub was left when the search gave up, nor is there one later. *)
DeadEndIsReal ==
  \A s \in Sought :
    di[s].state = 2 /\ s \notin dropped => StubNode[s] \notin Reachable(s)

(* A node that belongs to a net is never taken from it. *)
OwnersKept ==
  [][\A x \in Nodes : owner[x] # None => owner'[x] = owner[x]]_vars

(* A routed net keeps its route, and a net with one stub what is written   *)
(* for it, through every later series, restart and the final write. *)
RoutesKept ==
  [][\A n \in Nets : is_routed[n] =>
       /\ is_routed'[n]
       /\ claimed'[n] = claimed[n]
       /\ ~IsMulti(n) => out'[n] = out[n]]_vars

(* The router is a NetRouting: each route is taken in one step. *)
RoutingSpec == Routing!Spec

(* Routing ends, however the search goes. *)
Terminates == <>(pc = "done")
=============================================================================
