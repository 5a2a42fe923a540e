----------------------------- MODULE MCNodeSetup -----------------------------
(***************************************************************************)
(* Every netlist of three out of ten nets, on contexts whose buffers are  *)
(* just large enough and just too small.                                   *)
(***************************************************************************)
EXTENDS NodeSetup

CONSTANTS NoNode

Pin(x) == [kind |-> "pin", nodes |-> <<x>>]
Pip(x, y) == [kind |-> "pip", nodes |-> <<x, y>>]
Bel == [kind |-> "other", nodes |-> <<>>]
Signal(sources, unrouted) == [signal |-> TRUE, sources |-> sources, stubs |-> unrouted]

MCNodes == 0..5
MCPipCount == [x \in MCNodes |-> CASE x = 0 -> 2 [] x \in {1, 2} -> 1 [] OTHER -> 0]

\* Two stubs; one with a pip; one of which no stub has a pin; a source of two pins,
\* one that has too many pips, none, two sources, a net that is routed, no signal,
\* and a pip of a wire that is not there
MCNets == {
  Signal(<<<<Bel, Pin(0)>>>>, <<<<Pin(3), Bel>>, <<Pin(4)>>>>),
  Signal(<<<<Pin(1)>>>>, <<<<Pip(3, 5), Pin(5)>>>>),
  Signal(<<<<Pin(1)>>>>, <<<<Bel>>, <<Pin(4), Pin(3)>>, <<Bel>>>>),
  Signal(<<<<Pin(1), Bel, Pin(2)>>>>, <<<<Pin(5)>>>>),
  Signal(<<<<Pin(0), Pin(1)>>>>, <<<<Pin(4)>>>>),
  Signal(<<<<Bel>>>>, <<<<Pin(4)>>>>),
  Signal(<<<<Pin(0)>>, <<Pin(2)>>>>, <<<<Pin(3)>>>>),
  Signal(<<<<Pin(0), Pip(0, 3), Pin(3)>>>>, <<>>),
  [signal |-> FALSE, sources |-> <<<<Pip(1, 4)>>>>, stubs |-> <<<<Pin(5)>>>>],
  Signal(<<<<Pin(2), Pip(2, NoNode)>>>>, <<<<Pin(5)>>>>)}

MCNetlists == {<<a, b, c>> : a \in MCNets, b \in MCNets, c \in MCNets}
MCContexts == {[queues |-> c[1], mem |-> c[2]] :
                 c \in {<<1, 127>>, <<1, 128>>, <<1, 1000>>, <<2, 128>>, <<2, 1000>>, <<3, 1000>>}}
=============================================================================
