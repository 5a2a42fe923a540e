---------------------------- MODULE MCRoutePhys ----------------------------
(***************************************************************************)
(* A small device for RoutePhys: cycles, two pips between one pair of      *)
(* nodes, pips of both directions, a stub node with a pip out of it.       *)
(*                                                                         *)
(* Net 0 has two source nodes and two stubs; net 1 two sources and two     *)
(* stubs, and is left out; net 2 has two stubs at one node and wants the   *)
(* nodes of net 0; net 3 is static and has any of the inner nodes.         *)
(***************************************************************************)
EXTENDS RoutePhys

(* pips2.bin: the two nodes of each pip, and whether it is directional. *)
PipInfo ==
  << <<"a1", "m", TRUE>>, <<"a1", "u", TRUE>>, <<"a2", "u", TRUE>>,
     <<"m", "u", FALSE>>, <<"m", "x1", TRUE>>, <<"u", "v", TRUE>>,
     <<"u", "v", TRUE>>, <<"v", "x1", TRUE>>, <<"v", "w", FALSE>>,
     <<"w", "x2", TRUE>>, <<"b", "m", TRUE>>, <<"b", "v", TRUE>>,
     <<"w", "m", TRUE>>, <<"w", "y", TRUE>>, <<"x1", "w", TRUE>>,
     <<"v", "m", TRUE>> >>

MCNodes == {"a1", "a2", "b", "c1", "c2", "m", "u", "v", "w", "x1", "x2", "y",
            "z1", "z2"}

(* PIP_Index: an id and a direction. *)
MCPips ==
  {p \in (DOMAIN PipInfo) \X BOOLEAN : p[2] \/ ~PipInfo[p[1]][3]}
MCRoot == <<0, TRUE>>
MCZeroPip == <<1, FALSE>>
MCId == [p \in MCPips |-> p[1]]
MCNodeIn == [p \in MCPips |-> PipInfo[p[1]][IF p[2] THEN 1 ELSE 2]]
MCNodeOut == [p \in MCPips |-> PipInfo[p[1]][IF p[2] THEN 2 ELSE 1]]

(* make_node_to_pips visits the pips in the order of their ids. *)
MCNodeToPips ==
  [x \in MCNodes |->
     LET at[i \in 0..Len(PipInfo)] ==
           IF i = 0 THEN << >>
           ELSE at[i - 1] \o
                (IF PipInfo[i][1] = x THEN << <<i, TRUE>> >> ELSE << >>) \o
                (IF PipInfo[i][2] = x /\ ~PipInfo[i][3]
                 THEN << <<i, FALSE>> >> ELSE << >>)
     IN  at[Len(PipInfo)]]

Column ==
  [x \in MCNodes |->
     CASE x \in {"a1", "a2", "c1", "c2"} -> 0
       [] x \in {"m", "u"} -> 1
       [] x \in {"v", "x1"} -> 2
       [] x \in {"w", "y"} -> 3
       [] x \in {"b", "x2", "z1", "z2"} -> 4]
MCDist ==
  [x \in MCNodes |-> [y \in MCNodes |->
     IF Column[x] < Column[y] THEN Column[y] - Column[x]
     ELSE Column[x] - Column[y]]]

MCSourceCount == [n \in 0..3 |-> IF n = 1 THEN 2 ELSE 1]
MCSources ==
  [n \in 0..3 |-> CASE n = 0 -> {"a1", "a2"} [] n = 1 -> {"c1", "c2"}
                    [] n = 2 -> {"b"} [] n = 3 -> {}]
MCStubs == {"Ax1", "Ax2", "Cz1", "Cz2", "By", "By2"}
MCStubList ==
  [n \in 0..3 |-> CASE n = 0 -> << "Ax1", "Ax2" >> [] n = 1 -> << "Cz1", "Cz2" >>
                    [] n = 2 -> << "By", "By2" >> [] n = 3 -> << >>]
MCStubNode ==
  [s \in MCStubs |-> CASE s = "Ax1" -> "x1" [] s = "Ax2" -> "x2"
                       [] s = "Cz1" -> "z1" [] s = "Cz2" -> "z2"
                       [] s \in {"By", "By2"} -> "y"]

Pins(n) == MCSources[n] \cup {MCStubNode[MCStubList[n][i]] : i \in DOMAIN MCStubList[n]}
Netlist(static, partly) ==
  [resources |-> [n \in 0..3 |-> IF n = 3 THEN static ELSE Pins(n)],
   partly |-> partly]

(* Net 3 blocks any inner nodes; or it overlaps net 0; or net 2 is partly  *)
(* routed already. *)
MCInputs ==
  {Netlist(static, {}) : static \in SUBSET {"m", "u", "v", "w"}}
    \cup {Netlist({"x1"}, {}), Netlist({"m"}, {2})}
=============================================================================
