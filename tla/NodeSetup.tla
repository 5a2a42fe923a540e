------------------------------ MODULE NodeSetup ------------------------------
(***************************************************************************)
(* How the OpenCL node router is made: OCL_Node_Router::make of            *)
(* src/ocl_node_router.h, with count_stubs, make_vecs, block_all_resources *)
(* and setup_buffers.  Its ends are what NodeRouter starts from: net_pairs *)
(* gives the Orders of NodeRouter, node_nets its Inputs, heads its first   *)
(* heads.                                                                  *)
(*                                                                         *)
(* The threads of jthread_each share the nets of the netlist.  In          *)
(* count_stubs they add to one counter; in make_vecs each reserves indices *)
(* for the stubs of a net with a fetch_add; in block_all_resources all of  *)
(* them write node_nets without a lock.                                    *)
(***************************************************************************)
EXTENDS Integers, Sequences, FiniteSets

CONSTANTS
  Netlists,     \* sequences of nets [signal, sources, stubs]; a branch is the sequence
                \* of its segments [kind, nodes] in the order of the tree: a "pin" has
                \* one node, a "pip" two, None for a wire the device does not have
  Contexts,     \* records [queues, mem]: devices of the context, and the largest buffer
  Nodes,        \* numbers, as of the device
  PipCount,     \* PipCount[x]: how many pips leave node x
  Threads,      \* std::thread::hardware_concurrency
  BeamWidth,    \* beam_width, 32
  GroupSize,    \* max_workgroup_size
  LargestCount, \* largest_ocl_counter_max, 128
  None          \* UINT32_MAX

ASSUME NodeSetupAssumption ==
  /\ Threads \in Nat \ {0} /\ GroupSize \in Nat \ {0}
  /\ Nodes \subseteq Nat /\ PipCount \in [Nodes -> Nat]
  /\ None \notin Nat /\ None \notin Nat \X Nat

(* The buffer of the histories is the largest, and there are at most two devices per  *)
(* entry of a history. *)
ASSUME SizesAssumption ==
  /\ LargestCount \in Nat \ {0} /\ BeamWidth \in Nat \ {0}
  /\ 2 * BeamWidth <= LargestCount
  /\ \A c \in Contexts : c.queues \in 1..(2 * LargestCount) /\ c.mem \in Nat

Segments == [kind : {"pin", "pip", "other"}, nodes : Seq(Nodes \cup {None})]
Branches == Seq(Segments)

(* A site pin has a node. *)
ASSUME NetlistsAssumption ==
  \A list \in Netlists :
    /\ list \in Seq([signal : BOOLEAN, sources : Seq(Branches), stubs : Seq(Branches)])
    /\ \A n \in DOMAIN list :
         \A branches \in {list[n].sources, list[n].stubs} :
           \A b \in DOMAIN branches : \A k \in DOMAIN branches[b] :
             branches[b][k].kind = "pin" => /\ Len(branches[b][k].nodes) = 1
                                            /\ branches[b][k].nodes[1] \in Nodes

VARIABLES
  nets, context,
  pc,                \* "count", "vecs", "block", "buffers", "done" or "aborted"
  netCount, ocl_counter_max,
  workgroup_counts, workgroup_offsets,
  at,                \* the net each thread is at
  base,              \* local_stub_index of each thread, None between nets
  stub_offset,       \* the stub each thread is at
  global_stub_index,
  net_pairs,         \* of each index, <<net, stub>>
  stubs,             \* [node, net] of each index
  heads,             \* the pips of the first heads of each index
  state,             \* baseInstance of each draw command: 0 to search, 1 not to
  blocked,           \* the nodes each thread has blocked for its net
  node_nets

sizes == <<netCount, ocl_counter_max, workgroup_counts, workgroup_offsets>>
vecs == <<base, stub_offset, global_stub_index, net_pairs, stubs, heads, state>>
owners == <<blocked, node_nets>>
vars == <<nets, context, pc, sizes, at, vecs, owners>>

-----------------------------------------------------------------------------

\* each_n: a thread goes through every Threads-th net
ThreadIds == 0..(Threads - 1)
Starts == [t \in ThreadIds |-> t + 1]
HasNet(t) == at[t] <= Len(nets)
Net(t) == nets[at[t]]
Further(t) == at' = [at EXCEPT ![t] = @ + Threads]
AllEnded == \A t \in ThreadIds : ~HasNet(t)

Counted(net) == net.signal /\ Len(net.sources) = 1
netCountAligned == ((netCount + GroupSize - 1) \div GroupSize) * GroupSize
groupCount == netCountAligned \div GroupSize

Init ==
  /\ nets \in Netlists /\ context \in Contexts
  /\ pc = "count"
  /\ netCount = 0 /\ ocl_counter_max = 0
  /\ workgroup_counts = <<>> /\ workgroup_offsets = <<>>
  /\ at = Starts
  /\ base = [t \in ThreadIds |-> None] /\ stub_offset = [t \in ThreadIds |-> 0]
  /\ global_stub_index = 0
  /\ net_pairs = <<>> /\ stubs = <<>> /\ heads = <<>> /\ state = <<>>
  /\ blocked = [t \in ThreadIds |-> {}]
  /\ node_nets = [x \in Nodes |-> None]

Abort == pc' = "aborted"

-----------------------------------------------------------------------------
(* count_stubs, and the sizes *)

CountStubs(t) ==
  /\ pc = "count" /\ HasNet(t)
  /\ netCount' = netCount + IF Counted(Net(t)) THEN Len(Net(t).stubs) ELSE 0
  /\ Further(t)
  /\ UNCHANGED <<nets, context, pc, ocl_counter_max, workgroup_counts, workgroup_offsets,
                 vecs, owners>>

\* Groups are dealt to the queues one by one, and lie one queue after the other
Counts == [q \in 1..context.queues |-> (groupCount + context.queues - q) \div context.queues]

\* Of each queue, what all queues before it count
Sums(counts) ==
  LET sums[q \in DOMAIN counts] == IF q = 1 THEN 0 ELSE sums[q - 1] + counts[q - 1]
  IN  sums

\* Mutant: as if every queue before had as many groups
Offsets_Even(counts) == [q \in DOMAIN counts |-> (q - 1) * counts[q]]

Offsets(counts) == Sums(counts)

\* make up to the vectors.  A netlist without a stub divides by zero.
EndCount ==
  /\ pc = "count" /\ AllEnded
  /\ workgroup_counts' = Counts
  /\ workgroup_offsets' = Offsets(Counts)
  /\ IF netCount = 0
     THEN Abort /\ UNCHANGED <<ocl_counter_max, at, net_pairs, stubs, heads, state>>
     ELSE LET indices == 0..(netCountAligned - 1)
              possible == context.mem \div (netCountAligned * 4)
          IN /\ pc' = "vecs" /\ at' = Starts
             /\ ocl_counter_max' = IF possible > LargestCount THEN LargestCount ELSE possible
             /\ net_pairs' = [i \in 0..(netCount - 1) |-> None]
             /\ stubs' = [i \in indices |-> None]
             /\ heads' = [i \in indices |-> {}]
             /\ state' = [i \in indices |-> 1]
  /\ UNCHANGED <<nets, context, netCount, base, stub_offset, global_stub_index, owners>>

-----------------------------------------------------------------------------
(* make_vecs *)

Takes(t) == pc = "vecs" /\ HasNet(t) /\ base[t] = None
HasStubs(net) == Counted(net) /\ net.stubs # <<>>

SkipNet(t) ==
  /\ Takes(t) /\ ~HasStubs(Net(t))
  /\ Further(t)
  /\ UNCHANGED <<nets, context, pc, sizes, vecs, owners>>

\* Mutant: the index after the reservation
Reserve_After(t) ==
  /\ Takes(t) /\ HasStubs(Net(t))
  /\ base' = [base EXCEPT ![t] = global_stub_index + Len(Net(t).stubs)]
  /\ stub_offset' = [stub_offset EXCEPT ![t] = 0]
  /\ global_stub_index' = global_stub_index + Len(Net(t).stubs)
  /\ UNCHANGED <<nets, context, pc, sizes, at, net_pairs, stubs, heads, state, owners>>

Reserve(t) ==
  /\ Takes(t) /\ HasStubs(Net(t))
  /\ base' = [base EXCEPT ![t] = global_stub_index]
  /\ stub_offset' = [stub_offset EXCEPT ![t] = 0]
  /\ global_stub_index' = global_stub_index + Len(Net(t).stubs)
  /\ UNCHANGED <<nets, context, pc, sizes, at, net_pairs, stubs, heads, state, owners>>

Pins(branch) == {branch[k].nodes[1] : k \in {i \in DOMAIN branch : branch[i].kind = "pin"}}

\* The pips that leave the nodes of a source: a node, and a place in its slice.  As
\* first heads they cost the same.
infos(source) == UNION {{x} \X (1..PipCount[x]) : x \in Pins(source)}

Least(S) == CHOOSE x \in S : \A y \in S : x <= y

\* A stub without pins, or of a source without pins, has a place but is not searched
FillStub(t) ==
  /\ pc = "vecs" /\ base[t] # None
  /\ LET net == Net(t)
         index == base[t] + stub_offset[t]
         source == net.sources[1]
         stub == net.stubs[stub_offset[t] + 1]
     IN /\ net_pairs' = [net_pairs EXCEPT ![index] = <<at[t], stub_offset[t] + 1>>]
        /\ IF Pins(source) = {} \/ Pins(stub) = {} THEN UNCHANGED <<pc, stubs, heads, state>>
           ELSE /\ stubs' = [stubs EXCEPT ![index] = [node |-> Least(Pins(stub)), net |-> at[t]]]
                /\ IF Cardinality(infos(source)) > BeamWidth THEN Abort /\ UNCHANGED <<heads, state>>
                   ELSE /\ heads' = [heads EXCEPT ![index] = infos(source)]
                        /\ state' = [state EXCEPT ![index] = 0]
                        /\ UNCHANGED pc
        /\ stub_offset' = [stub_offset EXCEPT ![t] = @ + 1]
        /\ IF stub_offset[t] + 1 = Len(net.stubs)
           THEN base' = [base EXCEPT ![t] = None] /\ Further(t)
           ELSE UNCHANGED <<base, at>>
  /\ UNCHANGED <<nets, context, sizes, global_stub_index, owners>>

\* The threads have joined
EndVecs ==
  /\ pc = "vecs" /\ AllEnded
  /\ IF global_stub_index # netCount THEN Abort /\ UNCHANGED at
     ELSE pc' = "block" /\ at' = Starts
  /\ UNCHANGED <<nets, context, sizes, vecs, owners>>

-----------------------------------------------------------------------------
(* block_all_resources *)

NodesOf(branches) ==
  UNION {UNION {{branches[b][k].nodes[i] : i \in DOMAIN branches[b][k].nodes} :
                  k \in DOMAIN branches[b]} : b \in DOMAIN branches}

\* Mutant: the stubs of a net block nothing
Resources_Sources(net) == NodesOf(net.sources)

\* block_resources: the nodes of all pins and pips
Resources(net) == NodesOf(net.sources) \cup NodesOf(net.stubs)

\* One write to node_nets.  All those of a net are the same number, so their order
\* among each other shows nowhere, but they race with those of the other threads.
Block(t) ==
  /\ pc = "block" /\ HasNet(t)
  /\ \E node \in Resources(Net(t)) \ blocked[t] :
       IF node = None THEN Abort /\ UNCHANGED owners
       ELSE /\ node_nets' = [node_nets EXCEPT ![node] = at[t]]
            /\ blocked' = [blocked EXCEPT ![t] = @ \cup {node}]
            /\ UNCHANGED pc
  /\ UNCHANGED <<nets, context, sizes, at, vecs>>

EndNet(t) ==
  /\ pc = "block" /\ HasNet(t) /\ Resources(Net(t)) \subseteq blocked[t]
  /\ Further(t)
  /\ blocked' = [blocked EXCEPT ![t] = {}]
  /\ UNCHANGED <<nets, context, pc, sizes, vecs, node_nets>>

EndBlock ==
  /\ pc = "block" /\ AllEnded
  /\ pc' = "buffers"
  /\ UNCHANGED <<nets, context, sizes, at, vecs, owners>>

-----------------------------------------------------------------------------
(* setup_buffers *)

ItemsOf(q) == workgroup_counts[q] * GroupSize

\* The bytes of the parts of the buffers that an item has: lines, draw command and
\* stub, heads, history
PartSizes == {ocl_counter_max * 8, 16, BeamWidth * 16, LargestCount * 8}

\* clCreateBuffer gives no buffer of no bytes, and none larger than the largest
Creatable(q) == \A size \in PartSizes : ItemsOf(q) * size \in 1..context.mem

SetupBuffers ==
  /\ pc = "buffers"
  /\ IF \A q \in DOMAIN workgroup_counts : Creatable(q) THEN pc' = "done" ELSE Abort
  /\ UNCHANGED <<nets, context, sizes, at, vecs, owners>>

\* Where the histories of a queue begin in the vector read_buffer_group has read them to
\* one after the other, in items
ReadFrom == Sums([q \in DOMAIN workgroup_counts |-> ItemsOf(q)])

\* Where the kernel logs an entry of a stub in the histories of its queue, whose rows
\* are of ocl_counter_max entries, and where the host looks for it, in rows of
\* largest_ocl_counter_max
Logged(q, item, entry) == ReadFrom[q] * LargestCount + item * ocl_counter_max + entry
Read(index, entry) == index * LargestCount + entry

-----------------------------------------------------------------------------

Thread(t) == CountStubs(t) \/ SkipNet(t) \/ Reserve(t) \/ FillStub(t) \/ Block(t) \/ EndNet(t)
Main == EndCount \/ EndVecs \/ EndBlock \/ SetupBuffers
Ended == pc \in {"done", "aborted"} /\ UNCHANGED vars
Next == Main \/ (\E t \in ThreadIds : Thread(t)) \/ Ended

Spec == Init /\ [][Next]_vars

-----------------------------------------------------------------------------

\* The stubs make_vecs has to place: of signals with one source
Wanted == UNION {{n} \X DOMAIN nets[n].stubs : n \in {m \in DOMAIN nets : Counted(nets[m])}}
Searched(p) == /\ Pins(nets[p[1]].sources[1]) # {}
               /\ Pins(nets[p[1]].stubs[p[2]]) # {}

\* However the threads reserve and fill their ranges (make_vecs), each stub ends up at
\* one index, with its own node and net and the pips of its own source there, and
\* what is searched is what has pins at both ends: nothing else in the last group.
StubsIndexed ==
  pc \in {"block", "buffers", "done"} =>
    /\ {net_pairs[i] : i \in DOMAIN net_pairs} = Wanted
    /\ \A i, j \in DOMAIN net_pairs : net_pairs[i] = net_pairs[j] => i = j
    /\ \A i \in DOMAIN state :
         /\ (state[i] = 0) <=> (i < netCount /\ Searched(net_pairs[i]))
         /\ state[i] = 0 =>
              LET n == net_pairs[i][1] IN
              /\ stubs[i].net = n /\ stubs[i].node \in Pins(nets[n].stubs[net_pairs[i][2]])
              /\ heads[i] = infos(nets[n].sources[1])

Users(node) ==
  {n \in DOMAIN nets :
     \E branches \in {nets[n].sources, nets[n].stubs} :
       \E b \in DOMAIN branches : \E k \in DOMAIN branches[b] :
         \E i \in DOMAIN branches[b][k].nodes : node = branches[b][k].nodes[i]}

\* Nothing to route, a wire the device does not have, more first heads than the beam
\* has slots, a device with nothing to do, or histories larger than a buffer may be
Troubled ==
  LET total == (Cardinality(Wanted) + GroupSize - 1) \div GroupSize
      most == (total + context.queues - 1) \div context.queues
  IN \/ Wanted = {} \/ Users(None) # {}
     \/ \E p \in Wanted : /\ Searched(p)
                          /\ Cardinality(infos(nets[p[1]].sources[1])) > BeamWidth
     \/ total < context.queues
     \/ most * GroupSize * LargestCount * 8 > context.mem

\* Whether the router is made depends on the input alone, never on the threads; and
\* when it is, every node that a net of the netlist uses belongs to a net that uses
\* it, to that net if there is one only, and all other nodes are free
\* (block_all_resources).
MadeAsItShould ==
  /\ pc = "aborted" => Troubled
  /\ pc = "done" =>
       /\ ~Troubled
       /\ \A x \in Nodes : IF Users(x) = {} THEN node_nets[x] = None
                                            ELSE node_nets[x] \in Users(x)

\* Host and kernel agree on where an entry of a history is (read_buffer_group), with
\* one or two devices: the kernel's rows may be shorter than the host's, but then
\* the histories fit in no buffer and the router is not made.  With three devices
\* this is not so.
HistoriesReadBack ==
  pc = "done" /\ context.queues <= 2 =>
    \A q \in DOMAIN workgroup_counts : \A item \in 0..(ItemsOf(q) - 1) :
      \A entry \in 0..(ocl_counter_max - 1) :
        Logged(q, item, entry) = Read(workgroup_offsets[q] * GroupSize + item, entry)
=============================================================================
