---------------------------- MODULE TreeRouting ----------------------------
(***************************************************************************)
(* What the sequential router promises about the routing resources, with   *)
(* none of its search: first every net reserves the nodes its pins and its *)
(* existing routing use; then a net may take, in one step, a tree of pips  *)
(* that leads from its source nodes to all its stub nodes, provided no     *)
(* node of the tree belongs to another net.                                *)
(*                                                                         *)
(* RoutePhys.tla is the program; it is shown to implement this module.     *)
(***************************************************************************)
EXTENDS Integers

CONSTANTS
  Nets,       \* indices of the nets of the physical netlist
  Nodes,      \* routing nodes of the device
  Pips,       \* directed edges of nodes
  NodeIn,     \* NodeIn[p]: the node pip p drives from
  NodeOut,    \* NodeOut[p]: the node pip p drives
  Sources,    \* Sources[n]: the nodes of the source site pins of net n
  StubNodes,  \* StubNodes[n]: the nodes of the stubs of net n
  None        \* UINT32_MAX: no net

VARIABLES
  owner,      \* owner[x]: the net node x belongs to, None when it is free
  tree        \* tree[n]: the pips net n has taken

vars == <<owner, tree>>

(* Every nonempty set of the pips has one that is driven by none of them. *)
NoCycle(pips) ==
  \A some \in SUBSET pips : some # {} =>
    \E p \in some : \A q \in some : NodeOut[q] # NodeIn[p]

(* Each pip is driven by a source or by another pip of the tree, and no    *)
(* node is driven twice. *)
IsTree(n, pips) ==
  /\ pips \subseteq Pips
  /\ \A p \in pips :
       /\ NodeIn[p] \in Sources[n] \/ \E q \in pips : NodeOut[q] = NodeIn[p]
       /\ NodeOut[p] \notin Sources[n]
  /\ \A p, q \in pips : NodeOut[p] = NodeOut[q] => p = q
  /\ NoCycle(pips)

NodesOf(pips) == {NodeIn[p] : p \in pips} \cup {NodeOut[p] : p \in pips}

Init ==
  /\ owner = [x \in Nodes |-> None]
  /\ tree = [n \in Nets |-> {}]

(* Net n reserves some free nodes, before any net is routed. *)
Reserve(n) ==
  /\ \A m \in Nets : tree[m] = {}
  /\ \A x \in Nodes : owner'[x] # owner[x] => owner[x] = None /\ owner'[x] = n
  /\ DOMAIN owner' = Nodes
  /\ UNCHANGED tree

(* Net n takes every node of a tree at once; which tree, tree' says. *)
Take(n) ==
  /\ tree[n] = {}
  /\ IsTree(n, tree'[n])
  /\ \A x \in StubNodes[n] : \E p \in tree'[n] : NodeOut[p] = x
  /\ \A x \in NodesOf(tree'[n]) : owner[x] \in {n, None}
  /\ owner' = [x \in Nodes |->
                 IF x \in NodesOf(tree'[n]) THEN n ELSE owner[x]]
  /\ \A m \in Nets \ {n} : tree'[m] = tree[m]
  /\ DOMAIN tree' = Nets

Next == \E n \in Nets : Reserve(n) \/ Take(n)

Spec == Init /\ [][Next]_vars
=============================================================================
