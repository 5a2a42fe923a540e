----------------------------- MODULE NetRouting -----------------------------
(***************************************************************************)
(* What the OpenCL node router promises about the routing resources, with  *)
(* none of its search: a net that is not routed yet may take, in one step, *)
(* a route from one of its source nodes to one of its stubs, provided no   *)
(* node of the route belongs to another net.  A node that has an owner     *)
(* keeps it, and a routed net keeps its route.                             *)
(*                                                                         *)
(* NodeRouter.tla is the program; it is shown to implement this module.    *)
(***************************************************************************)
EXTENDS Integers, Sequences

CONSTANTS
  Nets,       \* indices of the nets of the physical netlist
  Nodes,      \* routing nodes of the device
  Pips,       \* programmable interconnect points: directed edges of nodes
  Node0,      \* Node0[p]: the node pip p drives from
  Node1,      \* Node1[p]: the node pip p drives
  Sources,    \* Sources[n]: the nodes of the source site pins of net n
  Stubs,      \* the (net, stub branch) pairs the router is given
  NetOf,      \* NetOf[s]: the net of stub s
  StubNode,   \* StubNode[s]: the node of the site pin of stub s
  None        \* UINT32_MAX: no net, no head, no pip

VARIABLES
  owner,      \* owner[x]: the net node x belongs to, None when it is free
  is_routed,  \* is_routed[n]: a route has been taken for net n
  route       \* route[n]: the pips taken for net n, source first

vars == <<owner, is_routed, route>>

NodesOf(path) == {Node0[path[i]] : i \in DOMAIN path}
                   \cup {Node1[path[i]] : i \in DOMAIN path}

(* A connected sequence of pips that enters no node twice. *)
IsPath(path) ==
  /\ path \in Seq(Pips)
  /\ path # << >>
  /\ \A i \in 1..(Len(path) - 1) : Node1[path[i]] = Node0[path[i + 1]]
  /\ \A i, j \in DOMAIN path : Node1[path[i]] = Node1[path[j]] => i = j

IsRoute(n, path) ==
  /\ IsPath(path)
  /\ Node0[path[1]] \in Sources[n]
  /\ \E s \in Stubs : NetOf[s] = n /\ Node1[path[Len(path)]] = StubNode[s]

Init ==
  /\ owner \in [Nodes -> Nets \cup {None}]
  /\ is_routed = [n \in Nets |-> FALSE]
  /\ route = [n \in Nets |-> << >>]

(* Net n takes every node of a route at once; which one, route' says. *)
Take(n) ==
  /\ ~is_routed[n]
  /\ IsRoute(n, route'[n])
  /\ \A x \in NodesOf(route'[n]) : owner[x] \in {n, None}
  /\ owner' = [x \in Nodes |->
                 IF x \in NodesOf(route'[n]) THEN n ELSE owner[x]]
  /\ is_routed' = [is_routed EXCEPT ![n] = TRUE]
  /\ \A m \in Nets \ {n} : route'[m] = route[m]
  /\ DOMAIN route' = Nets

Next == \E n \in Nets : Take(n)

Spec == Init /\ [][Next]_vars
=============================================================================
