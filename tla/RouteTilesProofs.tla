-------------------------- MODULE RouteTilesProofs --------------------------
(***************************************************************************)
(* The barrier protocol of RouteTiles, and that it loses no stub and       *)
(* handles none twice, for any number of threads, tiles and stubs.         *)
(*                                                                         *)
(* The threads that run are all in one phase of the round, those that wait *)
(* are at the start of the next one, and somebody always runs.  The phase  *)
(* that checks the counter is the one in which a new round is entered, so  *)
(* the counter keeps its value from the last CountStubs to the last Check. *)
(*                                                                         *)
(* On top of these barriers: every tile has one thread that goes through   *)
(* it; the stubs a tile still handles lie behind that thread when it moves *)
(* and ahead of it when it routes; none comes to a tile between the move   *)
(* of its stubs and the end of all moves.  So a move and a take never      *)
(* overwrite a stub, and a round that moves none has none left.            *)
(*                                                                         *)
(* The path of a stub is at every moment the one it has alone after as     *)
(* many steps, whatever the others do; so in the end it is all of it.      *)
(***************************************************************************)
EXTENDS RouteTiles, FiniteSetTheorems, WellFoundedInduction, TLAPS

Phase(label) ==
  CASE label \in {"check", "again", "exit"} -> 0
    [] label \in {"reset", "cleared"} -> 1
    [] label \in {"move", "handle"} -> 2
    [] label \in {"route", "stubs"} -> 3

(* The label a thread has while it waits to enter a phase. *)
Entry(phase) ==
  CASE phase = 0 -> "check" [] phase = 1 -> "reset"
    [] phase = 2 -> "move" [] phase = 3 -> "route"

Following(phase) == IF phase = 3 THEN 0 ELSE phase + 1

InPhase(phase) ==
  \A th \in Threads :
    IF th \in waiting THEN pc[th] = Entry(Following(phase))
    ELSE Phase(pc[th]) = phase

Barrier ==
  /\ pc \in [Threads -> Labels]
  /\ waiting \in SUBSET Threads
  /\ waiting # Threads
  /\ \E phase \in 0..3 : InPhase(phase)

(* What the checks of a round see: the counter is 0 for none or for all. *)
Checking(th) == th \notin waiting /\ pc[th] \in {"check", "exit"}

Seen ==
  /\ \A th \in Threads : pc[th] = "exit" => stubs_to_handle = 0
  /\ \A th \in Threads : Checking(th) /\ stubs_to_handle = 0 =>
       waiting = {} /\ \A other \in Threads : pc[other] \in {"check", "exit"}

ThreadInv == Barrier /\ Seen

LEMMA InitInv == Init => ThreadInv
<1> SUFFICES ASSUME Init PROVE ThreadInv
  OBVIOUS
<1>1. pc \in [Threads -> Labels] /\ \A th \in Threads : pc[th] = "again"
  BY DEF Init, Labels
<1>2. waiting = {} /\ 0 \in Threads
  BY GroupAssumption DEF Init, Threads
<1>3. Phase("again") = 0
  BY DEF Phase
<1>4. InPhase(0)
  BY <1>1, <1>2, <1>3 DEF InPhase
<1>5. Barrier
  BY <1>1, <1>2, <1>4 DEF Barrier
<1>6. Seen
  BY <1>1, <1>2 DEF Seen, Checking
<1> QED
  BY <1>5, <1>6 DEF ThreadInv

LEMMA Phases ==
  /\ \A label \in Labels : Phase(label) \in 0..3
  /\ \A phase \in 0..3 : /\ Entry(phase) \in Labels
                         /\ Phase(Entry(phase)) = phase
                         /\ Following(phase) \in 0..3
                         /\ Following(phase) # phase
<1>1. \A label \in Labels : Phase(label) \in 0..3
  BY DEF Phase, Labels
<1>2. \A phase \in 0..3 : phase = 0 \/ phase = 1 \/ phase = 2 \/ phase = 3
  OBVIOUS
<1>3. /\ Phase("check") = 0 /\ Phase("reset") = 1
      /\ Phase("move") = 2 /\ Phase("route") = 3
  BY DEF Phase
<1>4. /\ Entry(0) = "check" /\ Entry(1) = "reset"
      /\ Entry(2) = "move" /\ Entry(3) = "route"
  BY DEF Entry
<1>5. /\ Following(0) = 1 /\ Following(1) = 2
      /\ Following(2) = 3 /\ Following(3) = 0
  BY DEF Following
<1> QED
  BY <1>1, <1>2, <1>3, <1>4, <1>5 DEF Labels

(* A thread that arrives waits, or opens the next phase for all of them. *)
LEMMA ArriveKeepsBarrier ==
  ASSUME Barrier, NEW th \in Threads, th \notin waiting, Arrive(th),
         NEW phase \in 0..3, Phase(pc[th]) = phase,
         Goto(th, Entry(Following(phase)))
  PROVE  /\ Barrier'
         /\ \/ waiting' = {} /\ InPhase(Following(phase))'
            \/ waiting' = waiting \cup {th} /\ InPhase(phase)'
<1> DEFINE next == Following(phase)
<1>1. InPhase(phase)
  BY DEF Barrier, InPhase
<1>2. /\ pc' \in [Threads -> Labels] /\ pc'[th] = Entry(next)
      /\ \A other \in Threads \ {th} : pc'[other] = pc[other]
  BY Phases DEF Barrier, Goto
<1>3. next \in 0..3 /\ Phase(Entry(next)) = next
  BY Phases
<1> HIDE DEF next
<1>4. CASE waiting \cup {th} = Threads
  <2>1. waiting' = {} /\ waiting' # Threads /\ waiting' \in SUBSET Threads
    BY <1>4 DEF Arrive
  <2>2. \A other \in Threads : pc'[other] = Entry(next)
    BY <1>1, <1>2, <1>4 DEF InPhase, next
  <2>3. InPhase(next)'
    BY <1>3, <2>1, <2>2 DEF InPhase
  <2> QED
    BY <1>2, <1>3, <2>1, <2>3 DEF Barrier, next
<1>5. CASE waiting \cup {th} # Threads
  <2>1. waiting' = waiting \cup {th} /\ waiting' # Threads
        /\ waiting' \in SUBSET Threads
    BY <1>5 DEF Arrive, Barrier
  <2>2. InPhase(phase)'
    BY <1>1, <1>2, <2>1 DEF InPhase, next
  <2> QED
    BY <1>2, <2>1, <2>2 DEF Barrier
<1> QED
  BY <1>4, <1>5

(* A thread that goes on within its phase disturbs nobody. *)
LEMMA GoingOnKeepsBarrier ==
  ASSUME Barrier, NEW th \in Threads, th \notin waiting, waiting' = waiting,
         NEW label \in Labels, Phase(label) = Phase(pc[th]), Goto(th, label)
  PROVE  Barrier'
<1>1. /\ pc' \in [Threads -> Labels] /\ pc'[th] = label
      /\ \A other \in Threads \ {th} : pc'[other] = pc[other]
  BY DEF Barrier, Goto
<1>2. PICK phase \in 0..3 : InPhase(phase)
  BY DEF Barrier
<1>3. InPhase(phase)'
  BY <1>1, <1>2 DEF InPhase
<1> QED
  BY <1>1, <1>3 DEF Barrier

(* Threads that run are in the same phase. *)
LEMMA SamePhase ==
  ASSUME Barrier, NEW th \in Threads, NEW other \in Threads,
         th \notin waiting, other \notin waiting
  PROVE  Phase(pc[th]) = Phase(pc[other])
BY DEF Barrier, InPhase

(* A thread that has ended does not wait. *)
LEMMA EndedRuns ==
  ASSUME Barrier', NEW th \in Threads, pc'[th] = "exit"
  PROVE  th \notin waiting'
BY Phases DEF Barrier, InPhase, Entry

(* Outside the phase of the checks nothing is claimed of the counter. *)
LEMMA SeenElsewhere ==
  ASSUME Barrier', NEW th \in Threads, th \notin waiting', Phase(pc'[th]) # 0
  PROVE  Seen'
<1>1. ASSUME NEW other \in Threads, Checking(other)' PROVE FALSE
  <2>1. Phase(pc'[other]) = 0
    BY <1>1 DEF Checking, Phase
  <2>2. Phase(pc'[other]) = Phase(pc'[th])
    BY <1>1 DEF Checking, Barrier, InPhase
  <2> QED
    BY <2>1, <2>2
<1>2. ASSUME NEW other \in Threads, pc'[other] = "exit" PROVE FALSE
  BY <1>1, <1>2, EndedRuns DEF Checking
<1> QED
  BY <1>1, <1>2 DEF Seen, Checking

LEMMA ArriveElsewhere ==
  ASSUME ThreadInv, NEW th \in Threads, th \notin waiting, Arrive(th),
         NEW phase \in 1..2, Phase(pc[th]) = phase,
         Goto(th, Entry(Following(phase)))
  PROVE  ThreadInv'
<1>1. phase \in 0..3 /\ Following(phase) \in 0..3 /\ Following(phase) # 0
  BY DEF Following
<1>2. /\ Barrier'
      /\ \/ waiting' = {} /\ InPhase(Following(phase))'
         \/ waiting' = waiting \cup {th} /\ InPhase(phase)'
  BY <1>1, ArriveKeepsBarrier DEF ThreadInv
<1>3. PICK runner \in Threads : runner \notin waiting'
  BY <1>2 DEF Barrier
<1>4. Phase(pc'[runner]) # 0
  BY <1>1, <1>2, <1>3 DEF InPhase
<1>5. Seen'
  BY <1>2, <1>3, <1>4, SeenElsewhere
<1> QED
  BY <1>2, <1>5 DEF ThreadInv

LEMMA GoOnElsewhere ==
  ASSUME ThreadInv, NEW th \in Threads, th \notin waiting, waiting' = waiting,
         NEW label \in Labels, Phase(label) = Phase(pc[th]), Phase(label) # 0,
         Goto(th, label)
  PROVE  ThreadInv'
<1>1. Barrier'
  BY GoingOnKeepsBarrier DEF ThreadInv
<1>2. pc'[th] = label /\ th \notin waiting'
  BY DEF Goto, ThreadInv, Barrier
<1>3. Seen'
  BY <1>1, <1>2, SeenElsewhere
<1> QED
  BY <1>1, <1>3 DEF ThreadInv

LEMMA ThreadInvNext == ThreadInv /\ [Next]_vars => ThreadInv'
<1> SUFFICES ASSUME ThreadInv, [Next]_vars PROVE ThreadInv'
  OBVIOUS
<1> USE DEF shared, routers
<1>0. /\ Phase("again") = 0 /\ Phase("check") = 0 /\ Phase("exit") = 0
      /\ Phase("reset") = 1 /\ Phase("cleared") = 1
      /\ Phase("move") = 2 /\ Phase("handle") = 2
      /\ Phase("route") = 3 /\ Phase("stubs") = 3
  BY DEF Phase
<1>00. /\ Following(0) = 1 /\ Following(1) = 2 /\ Following(2) = 3
       /\ Following(3) = 0 /\ Entry(0) = "check" /\ Entry(1) = "reset"
       /\ Entry(2) = "move" /\ Entry(3) = "route"
  BY DEF Following, Entry
<1>1. ASSUME NEW th \in Threads, EnterRound(th) PROVE ThreadInv'
  <2>1. /\ pc[th] = "again" /\ th \notin waiting /\ Arrive(th)
        /\ Goto(th, Entry(Following(0))) /\ stubs_to_handle' = stubs_to_handle
    BY <1>1, <1>00 DEF EnterRound, Runs
  <2>2. /\ Barrier'
        /\ \/ waiting' = {} /\ InPhase(1)'
           \/ waiting' = waiting \cup {th} /\ InPhase(0)'
    BY <1>0, <1>00, <2>1, ArriveKeepsBarrier DEF ThreadInv
  <2>3. CASE waiting' = {} /\ InPhase(1)'
    <3>1. th \notin waiting' /\ Phase(pc'[th]) # 0
      BY <2>3 DEF InPhase
    <3> QED
      BY <2>2, <3>1, SeenElsewhere DEF ThreadInv
  <2>4. CASE waiting' = waiting \cup {th} /\ InPhase(0)'
    <3>1. /\ pc'[th] = "reset"
          /\ \A other \in Threads \ {th} : pc'[other] = pc[other]
      BY <1>00, <2>1 DEF Goto, ThreadInv, Barrier
    <3>2. ASSUME NEW other \in Threads, Checking(other)', stubs_to_handle' = 0
          PROVE FALSE
      <4>1. Checking(other) /\ stubs_to_handle = 0
        BY <2>1, <2>4, <3>1, <3>2 DEF Checking
      <4> QED
        BY <2>1, <4>1 DEF ThreadInv, Seen
    <3>3. ASSUME NEW other \in Threads, pc'[other] = "exit"
          PROVE stubs_to_handle' = 0
      BY <2>1, <3>1, <3>3 DEF ThreadInv, Seen
    <3>4. Seen'
      BY <3>2, <3>3 DEF Seen, Checking
    <3> QED
      BY <2>2, <3>4 DEF ThreadInv
  <2> QED
    BY <2>2, <2>3, <2>4
<1>2. ASSUME NEW th \in Threads, Reset(th) PROVE ThreadInv'
  BY <1>0, <1>2, GoOnElsewhere DEF Reset, Runs, Labels
<1>3. ASSUME NEW th \in Threads, StartMoving(th) PROVE ThreadInv'
  BY <1>0, <1>00, <1>3, ArriveElsewhere DEF StartMoving, Runs
<1>4. ASSUME NEW th \in Threads, CountStubs(th) PROVE ThreadInv'
  <2>1. CASE unhandled[tin[th]] # << >>
    BY <1>0, <1>4, <2>1, GoOnElsewhere DEF CountStubs, Runs, Labels
  <2>2. CASE unhandled[tin[th]] = << >>
    <3>1. Goto(th, "move") /\ waiting' = waiting /\ Runs(th, "move")
      BY <1>4, <2>2 DEF CountStubs, Goto, Runs, ThreadInv, Barrier
    <3> QED
      BY <1>0, <3>1, GoOnElsewhere DEF Runs, Labels
  <2> QED
    BY <2>1, <2>2
<1>5. ASSUME NEW th \in Threads, HandleOutNets(th) PROVE ThreadInv'
  BY <1>0, <1>5, GoOnElsewhere DEF HandleOutNets, Runs, Labels
<1>6. ASSUME NEW th \in Threads, StartRouting(th) PROVE ThreadInv'
  BY <1>0, <1>00, <1>6, ArriveElsewhere DEF StartRouting, Runs
<1>7. ASSUME NEW th \in Threads, TakeStubs(th) PROVE ThreadInv'
  BY <1>0, <1>7, GoOnElsewhere DEF TakeStubs, Runs, Labels
<1>8. ASSUME NEW th \in Threads, RouteStub(th) PROVE ThreadInv'
  <2>1. Goto(th, "stubs") /\ waiting' = waiting /\ Runs(th, "stubs")
    BY <1>8 DEF RouteStub, Goto, Runs, ThreadInv, Barrier
  <2> QED
    BY <1>0, <2>1, GoOnElsewhere DEF Runs, Labels
<1>9. ASSUME NEW th \in Threads, NextTile(th) PROVE ThreadInv'
  BY <1>0, <1>9, GoOnElsewhere DEF NextTile, Runs, Labels
<1>10. ASSUME NEW th \in Threads, EndRound(th) PROVE ThreadInv'
  <2>1. /\ pc[th] = "route" /\ th \notin waiting /\ Arrive(th)
        /\ Goto(th, Entry(Following(3)))
    BY <1>10, <1>00 DEF EndRound, Runs
  <2>2. /\ Barrier'
        /\ \/ waiting' = {} /\ InPhase(0)'
           \/ waiting' = waiting \cup {th} /\ InPhase(3)'
    BY <1>0, <1>00, <2>1, ArriveKeepsBarrier DEF ThreadInv
  <2>3. CASE waiting' = {} /\ InPhase(0)'
    <3>1. waiting \cup {th} = Threads
      BY <2>1, <2>3 DEF Arrive
    <3>2. \A other \in Threads : pc'[other] = "check"
      <4>1. pc'[th] = "check"
        BY <1>00, <2>1 DEF Goto, ThreadInv, Barrier
      <4>2. PICK phase \in 0..3 : InPhase(phase)
        BY DEF ThreadInv, Barrier
      <4>3. phase = 3
        BY <1>0, <2>1, <4>2 DEF InPhase
      <4>4. \A other \in waiting : pc[other] = "check"
        BY <1>00, <4>2, <4>3 DEF InPhase, ThreadInv, Barrier
      <4> QED
        BY <2>1, <3>1, <4>1, <4>4 DEF Goto, ThreadInv, Barrier
    <3> QED
      BY <2>2, <2>3, <3>2 DEF ThreadInv, Seen
  <2>4. CASE waiting' = waiting \cup {th} /\ InPhase(3)'
    <3>1. PICK runner \in Threads : runner \notin waiting'
      BY <2>2 DEF Barrier
    <3>2. Phase(pc'[runner]) # 0
      BY <2>4, <3>1 DEF InPhase
    <3> QED
      BY <2>2, <3>1, <3>2, SeenElsewhere DEF ThreadInv
  <2> QED
    BY <2>2, <2>3, <2>4
<1>11. ASSUME NEW th \in Threads, Check(th) PROVE ThreadInv'
  <2> DEFINE label == IF stubs_to_handle = 0 THEN "exit" ELSE "again"
  <2>1. /\ pc[th] = "check" /\ th \notin waiting /\ waiting' = waiting
        /\ stubs_to_handle' = stubs_to_handle /\ Goto(th, label)
    BY <1>11 DEF Check, Runs
  <2>2. label \in Labels /\ Phase(label) = 0
    BY <1>0 DEF Labels
  <2> HIDE DEF label
  <2>3. Barrier'
    BY <1>0, <2>1, <2>2, GoingOnKeepsBarrier DEF ThreadInv
  <2>4. /\ pc'[th] = label
        /\ \A other \in Threads \ {th} : pc'[other] = pc[other]
    BY <2>1 DEF Goto, ThreadInv, Barrier
  <2>5. CASE stubs_to_handle = 0
    <3>1. waiting = {} /\ \A other \in Threads : pc[other] \in {"check", "exit"}
      BY <2>1, <2>5 DEF ThreadInv, Seen, Checking
    <3>2. \A other \in Threads : pc'[other] \in {"check", "exit"}
      BY <2>4, <2>5, <3>1 DEF label
    <3>3. Seen'
      BY <2>1, <2>5, <3>1, <3>2 DEF Seen
    <3> QED
      BY <2>3, <3>3 DEF ThreadInv
  <2>6. CASE stubs_to_handle # 0
    <3>1. \A other \in Threads : pc'[other] # "exit"
      BY <2>4, <2>6 DEF label, ThreadInv, Seen
    <3>2. Seen'
      BY <2>1, <2>6, <3>1 DEF Seen
    <3> QED
      BY <2>3, <3>2 DEF ThreadInv
  <2> QED
    BY <2>5, <2>6
<1>12. CASE Joined \/ UNCHANGED vars
  BY <1>12 DEF Joined, vars, ThreadInv, Barrier, InPhase, Seen, Checking
<1> QED
  BY <1>1, <1>2, <1>3, <1>4, <1>5, <1>6, <1>7, <1>8, <1>9, <1>10, <1>11,
     <1>12 DEF Next, Thread

THEOREM ThreadInvariant == Spec => []ThreadInv
BY InitInv, ThreadInvNext, PTL DEF Spec

(* The size of a vector is read without its lock only while no thread can  *)
(* append to it. *)
THEOREM NoUnlockedRace == Spec => []PhasesApart
<1>1. ThreadInv => PhasesApart
  <2> SUFFICES ASSUME ThreadInv, NEW mover \in Threads, NEW router \in Threads,
                      Runs(mover, "move") \/ Runs(mover, "handle"),
                      Runs(router, "route") \/ Runs(router, "stubs")
               PROVE  FALSE
    BY DEF PhasesApart
  <2>1. Phase(pc[mover]) = Phase(pc[router])
    BY SamePhase DEF ThreadInv, Runs
  <2> QED
    BY <2>1 DEF Runs, Phase
<1> QED
  BY <1>1, ThreadInvariant, PTL

(* No thread goes around again once another one has ended. *)
THEOREM AllThreadsStop == Spec => []ThreadsAgree
<1>1. ThreadInv => ThreadsAgree
  <2> SUFFICES ASSUME ThreadInv, NEW th \in Threads, NEW other \in Threads,
                      pc[th] = "exit"
               PROVE  pc[other] \in {"check", "exit"}
    BY DEF ThreadsAgree
  <2>1. th \notin waiting
    BY Phases DEF ThreadInv, Barrier, InPhase, Entry
  <2> QED
    BY <2>1 DEF ThreadInv, Seen, Checking
<1> QED
  BY <1>1, ThreadInvariant, PTL

-----------------------------------------------------------------------------
(* Vectors of stubs: what a move, a take and an append do to them.         *)

(* One vector of stubs for each element of A. *)
Vectors(f, A) == f \in [A -> Seq(Stubs)]

(* f2 is f with v at a. *)
Changed(f2, f, a, v) == f2[a] = v /\ \A t \in DOMAIN f \ {a} : f2[t] = f[t]

LEMMA Placed ==
  ASSUME NEW A, NEW f, DOMAIN f = A, NEW t \in A, NEW i \in DOMAIN f[t]
  PROVE  f[t][i] \in Members(f)
BY DEF Members

LEMMA PlaceOf ==
  ASSUME NEW A, NEW f, DOMAIN f = A, NEW s \in Members(f)
  PROVE  \E t \in A : \E i \in DOMAIN f[t] : s = f[t][i]
BY DEF Members

(* Two places of distinct vectors that hold the same stub are one. *)
LEMMA OnePlace ==
  ASSUME NEW A, NEW f, DOMAIN f = A, Distinct(f),
         NEW t \in A, NEW i \in DOMAIN f[t], NEW u \in A, NEW j \in DOMAIN f[u],
         f[t][i] = f[u][j]
  PROVE  t = u /\ i = j
BY DEF Distinct

(* A whole vector moves to an empty one. *)
LEMMA MoveAll ==
  ASSUME NEW A, NEW B, NEW f, NEW g, Vectors(f, A), Vectors(g, B),
         NEW a \in A, NEW b \in B, g[b] = << >>,
         Distinct(f), Distinct(g), Members(f) \cap Members(g) = {},
         NEW f2, Vectors(f2, A), Changed(f2, f, a, << >>),
         NEW g2, Vectors(g2, B), Changed(g2, g, b, f[a])
  PROVE  /\ Distinct(f2) /\ Distinct(g2)
         /\ Members(f2) \cap Members(g2) = {}
         /\ Members(f2) \cup Members(g2) = Members(f) \cup Members(g)
<1> USE DEF Vectors, Changed
<1>1. DOMAIN f = A /\ DOMAIN g = B /\ DOMAIN f2 = A /\ DOMAIN g2 = B
  OBVIOUS
<1>2. DOMAIN << >> = {}
  OBVIOUS
<1>3. ASSUME NEW t \in A, NEW i \in DOMAIN f2[t]
      PROVE  t # a /\ i \in DOMAIN f[t] /\ f2[t][i] = f[t][i]
  BY <1>1, <1>2
<1>4. ASSUME NEW t \in B, NEW i \in DOMAIN g2[t]
      PROVE  \/ t = b /\ i \in DOMAIN f[a] /\ g2[t][i] = f[a][i]
             \/ t # b /\ i \in DOMAIN g[t] /\ g2[t][i] = g[t][i]
  BY <1>1
<1>a. ASSUME NEW t \in A, NEW i \in DOMAIN f[t] PROVE f[t][i] \in Members(f)
  BY <1>1, Placed
<1>b. ASSUME NEW t \in B, NEW i \in DOMAIN g[t] PROVE g[t][i] \in Members(g)
  BY <1>1, Placed
<1>c. ASSUME NEW t \in A, NEW i \in DOMAIN f2[t] PROVE f2[t][i] \in Members(f2)
  BY <1>1, Placed
<1>d. ASSUME NEW t \in B, NEW i \in DOMAIN g2[t] PROVE g2[t][i] \in Members(g2)
  BY <1>1, Placed
<1>e. ASSUME NEW t \in A, NEW u \in A, NEW i \in DOMAIN f[t], NEW j \in DOMAIN f[u],
             f[t][i] = f[u][j]
      PROVE  t = u /\ i = j
  BY <1>1, <1>e, OnePlace
<1>f. ASSUME NEW t \in B, NEW u \in B, NEW i \in DOMAIN g[t], NEW j \in DOMAIN g[u],
             g[t][i] = g[u][j]
      PROVE  t = u /\ i = j
  BY <1>1, <1>f, OnePlace
<1>5. Distinct(f2)
  <2>1. SUFFICES ASSUME NEW t \in A, NEW u \in A, NEW i \in DOMAIN f2[t],
                        NEW j \in DOMAIN f2[u], f2[t][i] = f2[u][j]
                 PROVE  t = u /\ i = j
    BY <1>1 DEF Distinct
  <2> QED
    BY <2>1, <1>3, <1>e
<1>6. Distinct(g2)
  <2>1. SUFFICES ASSUME NEW t \in B, NEW u \in B, NEW i \in DOMAIN g2[t],
                        NEW j \in DOMAIN g2[u], g2[t][i] = g2[u][j]
                 PROVE  t = u /\ i = j
    BY <1>1 DEF Distinct
  <2>2. ASSUME NEW v \in B, NEW k \in DOMAIN g[v], NEW m \in DOMAIN f[a]
        PROVE  g[v][k] # f[a][m]
    BY <1>a, <1>b
  <2>3. CASE t = b /\ u = b
    BY <2>1, <2>3, <1>4, <1>e
  <2>4. CASE t # b /\ u # b
    BY <2>1, <2>4, <1>4, <1>f
  <2>5. CASE t = b /\ u # b
    BY <2>1, <2>2, <2>5, <1>4
  <2>6. CASE t # b /\ u = b
    BY <2>1, <2>2, <2>6, <1>4
  <2> QED
    BY <2>3, <2>4, <2>5, <2>6
<1>7. ASSUME NEW s \in Members(f2)
      PROVE  \E t \in A : t # a /\ \E i \in DOMAIN f[t] : s = f[t][i]
  <2>1. PICK t \in A : \E i \in DOMAIN f2[t] : s = f2[t][i]
    BY <1>1, <1>7, PlaceOf
  <2>2. PICK i \in DOMAIN f2[t] : s = f2[t][i]
    BY <2>1
  <2> QED
    BY <2>2, <1>3
<1>8. ASSUME NEW s \in Members(g2)
      PROVE  (\E i \in DOMAIN f[a] : s = f[a][i]) \/ s \in Members(g)
  <2>1. PICK t \in B : \E i \in DOMAIN g2[t] : s = g2[t][i]
    BY <1>1, <1>8, PlaceOf
  <2>2. PICK i \in DOMAIN g2[t] : s = g2[t][i]
    BY <2>1
  <2> QED
    BY <2>2, <1>4, <1>b
<1>9. ASSUME NEW s \in Members(f2), s \in Members(g2) PROVE FALSE
  <2>1. PICK t \in A : t # a /\ \E i \in DOMAIN f[t] : s = f[t][i]
    BY <1>7
  <2>2. PICK i \in DOMAIN f[t] : s = f[t][i]
    BY <2>1
  <2>3. s \in Members(f)
    BY <2>2, <1>a
  <2>4. PICK j \in DOMAIN f[a] : s = f[a][j]
    BY <2>3, <1>8, <1>9
  <2>5. f[t][i] = f[a][j]
    BY <2>2, <2>4
  <2>6. t = a
    BY <2>5, <1>e
  <2> QED
    BY <2>1, <2>6
<1>10. ASSUME NEW s \in Members(f) PROVE s \in Members(f2) \cup Members(g2)
  <2>1. PICK t \in A : \E i \in DOMAIN f[t] : s = f[t][i]
    BY <1>1, <1>10, PlaceOf
  <2>2. PICK i \in DOMAIN f[t] : s = f[t][i]
    BY <2>1
  <2>3. CASE t = a
    BY <2>2, <2>3, <1>1, <1>d
  <2>4. CASE t # a
    BY <2>2, <2>4, <1>1, <1>c
  <2> QED
    BY <2>3, <2>4
<1>11. ASSUME NEW s \in Members(g) PROVE s \in Members(g2)
  <2>1. PICK t \in B : \E i \in DOMAIN g[t] : s = g[t][i]
    BY <1>1, <1>11, PlaceOf
  <2>2. PICK i \in DOMAIN g[t] : s = g[t][i]
    BY <2>1
  <2>3. t # b
    BY <2>2, <1>2
  <2> QED
    BY <2>2, <2>3, <1>1, <1>d
<1>12. Members(f2) \cap Members(g2) = {}
  BY <1>9
<1>13. Members(f2) \cup Members(g2) = Members(f) \cup Members(g)
  <2>1. ASSUME NEW s \in Members(f2) \cup Members(g2) PROVE s \in Members(f) \cup Members(g)
    BY <2>1, <1>7, <1>8, <1>a
  <2>2. ASSUME NEW s \in Members(f) \cup Members(g) PROVE s \in Members(f2) \cup Members(g2)
    BY <2>2, <1>10, <1>11
  <2> QED
    BY <2>1, <2>2
<1> QED
  BY <1>1, <1>5, <1>6, <1>12, <1>13

(* The first stub of a vector is taken. *)
LEMMA TakeFirst ==
  ASSUME NEW A, NEW f, Vectors(f, A), NEW a \in A, f[a] # << >>, Distinct(f),
         NEW f2, Vectors(f2, A), Changed(f2, f, a, Tail(f[a])),
         NEW s, s = Head(f[a])
  PROVE  /\ s \in Stubs /\ s \in Members(f)
         /\ Distinct(f2)
         /\ Members(f2) = Members(f) \ {s}
<1> USE DEF Vectors, Changed
<1>1. /\ f[a] \in Seq(Stubs) /\ Len(f[a]) \in Nat /\ Len(f[a]) # 0
      /\ DOMAIN f[a] = 1..Len(f[a])
      /\ Tail(f[a]) \in Seq(Stubs) /\ Len(Tail(f[a])) = Len(f[a]) - 1
      /\ DOMAIN Tail(f[a]) = 1..(Len(f[a]) - 1)
      /\ \A i \in 1..(Len(f[a]) - 1) : Tail(f[a])[i] = f[a][i + 1]
      /\ s = f[a][1] /\ s \in Stubs
  OBVIOUS
<1>2. DOMAIN f = A /\ DOMAIN f2 = A
  OBVIOUS
<1>a. ASSUME NEW t \in A, NEW i \in DOMAIN f[t] PROVE f[t][i] \in Members(f)
  BY <1>2, Placed
<1>c. ASSUME NEW t \in A, NEW i \in DOMAIN f2[t] PROVE f2[t][i] \in Members(f2)
  BY <1>2, Placed
<1>e. ASSUME NEW t \in A, NEW u \in A, NEW i \in DOMAIN f[t], NEW j \in DOMAIN f[u],
             f[t][i] = f[u][j]
      PROVE  t = u /\ i = j
  BY <1>2, <1>e, OnePlace
<1>3. 1 \in DOMAIN f[a] /\ s \in Members(f)
  BY <1>1, <1>a
<1> DEFINE At(t, i) == IF t = a THEN i + 1 ELSE i
<1>4. ASSUME NEW t \in A, NEW i \in DOMAIN f2[t]
      PROVE  At(t, i) \in DOMAIN f[t] /\ f2[t][i] = f[t][At(t, i)]
  <2>1. CASE t = a
    <3>1. i \in 1..(Len(f[a]) - 1)
      BY <2>1, <1>1, <1>2
    <3>2. i + 1 \in 1..Len(f[a])
      BY <3>1, <1>1
    <3> QED
      BY <2>1, <3>1, <3>2, <1>1, <1>2
  <2>2. CASE t # a
    BY <2>2, <1>2
  <2> QED
    BY <2>1, <2>2
<1>5. ASSUME NEW t \in A, NEW i \in DOMAIN f2[t] PROVE i \in Nat \ {0}
  <2>1. f2[t] \in Seq(Stubs)
    BY <1>2
  <2>2. DOMAIN f2[t] = 1..Len(f2[t]) /\ Len(f2[t]) \in Nat
    BY <2>1
  <2> QED
    BY <2>2
<1> HIDE DEF At
<1>6. Distinct(f2)
  <2>1. SUFFICES ASSUME NEW t \in A, NEW u \in A, NEW i \in DOMAIN f2[t],
                        NEW j \in DOMAIN f2[u], f2[t][i] = f2[u][j]
                 PROVE  t = u /\ i = j
    BY <1>2 DEF Distinct
  <2>2. t = u /\ At(t, i) = At(u, j)
    BY <2>1, <1>4, <1>e
  <2>3. i \in Nat /\ j \in Nat
    BY <1>5
  <2> QED
    BY <2>2, <2>3 DEF At
<1>7. ASSUME NEW x \in Members(f2)
      PROVE  \E t \in A : \E i \in DOMAIN f2[t] :
               x = f[t][At(t, i)] /\ At(t, i) \in DOMAIN f[t]
  <2>1. PICK t \in A : \E i \in DOMAIN f2[t] : x = f2[t][i]
    BY <1>2, <1>7, PlaceOf
  <2>2. PICK i \in DOMAIN f2[t] : x = f2[t][i]
    BY <2>1
  <2> QED
    BY <2>2, <1>4
<1>8. ASSUME NEW x \in Members(f2) PROVE x \in Members(f) /\ x # s
  <2>1. PICK t \in A : \E i \in DOMAIN f2[t] :
               x = f[t][At(t, i)] /\ At(t, i) \in DOMAIN f[t]
    BY <1>7
  <2>2. PICK i \in DOMAIN f2[t] : x = f[t][At(t, i)] /\ At(t, i) \in DOMAIN f[t]
    BY <2>1
  <2>3. x \in Members(f)
    BY <2>2, <1>a
  <2>4. ASSUME x = s PROVE t = a /\ At(t, i) = 1
    <3>1. f[t][At(t, i)] = f[a][1]
      BY <2>2, <2>4, <1>1
    <3> QED
      BY <2>2, <3>1, <1>3, <1>e
  <2>5. i \in Nat \ {0}
    BY <1>5
  <2> QED
    BY <2>3, <2>4, <2>5 DEF At
<1>9. ASSUME NEW x \in Members(f), x # s PROVE x \in Members(f2)
  <2>1. PICK t \in A : \E i \in DOMAIN f[t] : x = f[t][i]
    BY <1>2, <1>9, PlaceOf
  <2>2. PICK i \in DOMAIN f[t] : x = f[t][i]
    BY <2>1
  <2>3. CASE t = a
    <3>1. i \in 1..Len(f[a]) /\ i # 1
      BY <2>2, <2>3, <1>1, <1>9
    <3>2. i - 1 \in 1..(Len(f[a]) - 1) /\ i = (i - 1) + 1
      BY <3>1, <1>1
    <3>3. i - 1 \in DOMAIN f2[a] /\ x = f2[a][i - 1]
      BY <2>2, <2>3, <3>2, <1>1, <1>2
    <3> QED
      BY <3>3, <1>c
  <2>4. CASE t # a
    BY <2>2, <2>4, <1>2, <1>c
  <2> QED
    BY <2>3, <2>4
<1>10. Members(f2) = Members(f) \ {s}
  BY <1>8, <1>9
<1> QED
  BY <1>1, <1>2, <1>3, <1>6, <1>10

(* A stub that is nowhere in the vectors is appended to one. *)
LEMMA AppendNew ==
  ASSUME NEW A, NEW f, Vectors(f, A), NEW a \in A, Distinct(f),
         NEW s \in Stubs, s \notin Members(f),
         NEW f2, Vectors(f2, A), Changed(f2, f, a, Append(f[a], s))
  PROVE  /\ Distinct(f2)
         /\ Members(f2) = Members(f) \cup {s}
<1> USE DEF Vectors, Changed
<1> DEFINE n == Len(f[a]) + 1
<1>1. /\ f[a] \in Seq(Stubs) /\ Len(f[a]) \in Nat
      /\ DOMAIN f[a] = 1..Len(f[a])
      /\ Append(f[a], s) \in Seq(Stubs) /\ Len(Append(f[a], s)) = n
      /\ DOMAIN Append(f[a], s) = 1..n
      /\ \A i \in 1..Len(f[a]) : Append(f[a], s)[i] = f[a][i]
      /\ Append(f[a], s)[n] = s
  OBVIOUS
<1>2. DOMAIN f = A /\ DOMAIN f2 = A
  OBVIOUS
<1>a. ASSUME NEW t \in A, NEW i \in DOMAIN f[t] PROVE f[t][i] \in Members(f)
  BY <1>2, Placed
<1>c. ASSUME NEW t \in A, NEW i \in DOMAIN f2[t] PROVE f2[t][i] \in Members(f2)
  BY <1>2, Placed
<1>e. ASSUME NEW t \in A, NEW u \in A, NEW i \in DOMAIN f[t], NEW j \in DOMAIN f[u],
             f[t][i] = f[u][j]
      PROVE  t = u /\ i = j
  BY <1>2, <1>e, OnePlace
<1>3. ASSUME NEW t \in A, NEW i \in DOMAIN f2[t]
      PROVE  \/ t = a /\ i = n /\ f2[t][i] = s
             \/ i \in DOMAIN f[t] /\ f2[t][i] = f[t][i]
  <2>1. CASE t = a
    <3>1. i \in 1..n
      BY <2>1, <1>1, <1>2
    <3>2. i = n \/ i \in 1..Len(f[a])
      BY <3>1, <1>1
    <3> QED
      BY <2>1, <3>2, <1>1, <1>2
  <2>2. CASE t # a
    BY <2>2, <1>2
  <2> QED
    BY <2>1, <2>2
<1>4. ASSUME NEW t \in A, NEW i \in DOMAIN f[t] PROVE f[t][i] # s
  BY <1>a
<1>0. n \in 1..n /\ 1..Len(f[a]) \subseteq 1..n
  BY <1>1
<1> HIDE DEF n
<1>5. Distinct(f2)
  <2>1. SUFFICES ASSUME NEW t \in A, NEW u \in A, NEW i \in DOMAIN f2[t],
                        NEW j \in DOMAIN f2[u], f2[t][i] = f2[u][j]
                 PROVE  t = u /\ i = j
    BY <1>2 DEF Distinct
  <2>2. CASE i \in DOMAIN f[t] /\ f2[t][i] = f[t][i] /\ j \in DOMAIN f[u] /\ f2[u][j] = f[u][j]
    <3>1. f[t][i] = f[u][j]
      BY <2>1, <2>2
    <3> QED
      BY <2>2, <3>1, <1>e
  <2>3. CASE t = a /\ i = n /\ f2[t][i] = s
    BY <2>1, <2>3, <1>3, <1>4
  <2>4. CASE u = a /\ j = n /\ f2[u][j] = s
    BY <2>1, <2>4, <1>3, <1>4
  <2> QED
    BY <2>2, <2>3, <2>4, <1>3
<1>6. ASSUME NEW x \in Members(f2) PROVE x \in Members(f) \cup {s}
  <2>1. PICK t \in A : \E i \in DOMAIN f2[t] : x = f2[t][i]
    BY <1>2, <1>6, PlaceOf
  <2>2. PICK i \in DOMAIN f2[t] : x = f2[t][i]
    BY <2>1
  <2> QED
    BY <2>2, <1>3, <1>a
<1>7. s \in Members(f2)
  <2>1. n \in DOMAIN f2[a] /\ f2[a][n] = s
    BY <1>0, <1>1, <1>2
  <2> QED
    BY <2>1, <1>c
<1>8. ASSUME NEW x \in Members(f) PROVE x \in Members(f2)
  <2>1. PICK t \in A : \E i \in DOMAIN f[t] : x = f[t][i]
    BY <1>2, <1>8, PlaceOf
  <2>2. PICK i \in DOMAIN f[t] : x = f[t][i]
    BY <2>1
  <2>3. i \in DOMAIN f2[t] /\ x = f2[t][i]
    <3>1. CASE t = a
      BY <2>2, <3>1, <1>0, <1>1, <1>2
    <3>2. CASE t # a
      BY <2>2, <3>2, <1>2
    <3> QED
      BY <3>1, <3>2
  <2> QED
    BY <2>3, <1>c
<1>9. Members(f2) = Members(f) \cup {s}
  BY <1>6, <1>7, <1>8
<1> QED
  BY <1>2, <1>5, <1>9

-----------------------------------------------------------------------------
(* The tiles of a thread: its offset and every GroupSize-th tile from it.  *)

Owns(th, t) == \E k \in Nat : t = th + k * GroupSize

LEMMA Multiples ==
  ASSUME NEW k \in Nat, NEW m \in Nat, k < m
  PROVE  k * GroupSize + GroupSize <= m * GroupSize
<1>1. m * GroupSize = k * GroupSize + (m - k) * GroupSize
  BY GroupAssumption
<1>2. (m - k) * GroupSize = GroupSize + (m - k - 1) * GroupSize
  BY GroupAssumption
<1>3. m - k - 1 \in Nat
  OBVIOUS
<1>4. (m - k - 1) * GroupSize \in Nat
  BY <1>3, GroupAssumption
<1>5. k * GroupSize \in Nat /\ m * GroupSize \in Nat
  BY GroupAssumption
<1> QED
  BY <1>1, <1>2, <1>4, <1>5, GroupAssumption

LEMMA OwnsFirst ==
  ASSUME NEW th \in Threads
  PROVE  Owns(th, th) /\ \A t : Owns(th, t) => t \in Nat /\ t >= th
<1>1. th \in Nat /\ 0 * GroupSize = 0
  BY GroupAssumption DEF Threads
<1>2. Owns(th, th)
  BY <1>1 DEF Owns
<1>3. ASSUME NEW t, Owns(th, t) PROVE t \in Nat /\ t >= th
  <2>1. PICK k \in Nat : t = th + k * GroupSize
    BY <1>3 DEF Owns
  <2>2. k * GroupSize \in Nat
    BY GroupAssumption
  <2> QED
    BY <1>1, <2>1, <2>2
<1> QED
  BY <1>2, <1>3

LEMMA OwnsNext ==
  ASSUME NEW th \in Threads, NEW t, Owns(th, t)
  PROVE  Owns(th, t + GroupSize)
<1>1. PICK k \in Nat : t = th + k * GroupSize
  BY DEF Owns
<1>2. (k + 1) * GroupSize = k * GroupSize + GroupSize /\ k * GroupSize \in Nat
  BY GroupAssumption
<1>3. t + GroupSize = th + (k + 1) * GroupSize
  BY <1>1, <1>2, GroupAssumption DEF Threads
<1> QED
  BY <1>3 DEF Owns

(* The next tile of a thread is GroupSize farther. *)
LEMMA OwnsApart ==
  ASSUME NEW th \in Threads, NEW t, NEW u, Owns(th, t), Owns(th, u), t < u
  PROVE  t + GroupSize <= u
<1>1. PICK k \in Nat : t = th + k * GroupSize
  BY DEF Owns
<1>2. PICK m \in Nat : u = th + m * GroupSize
  BY DEF Owns
<1>3. k * GroupSize \in Nat /\ m * GroupSize \in Nat /\ th \in Nat
  BY GroupAssumption DEF Threads
<1>4. k < m
  <2>1. SUFFICES ASSUME m <= k PROVE FALSE
    OBVIOUS
  <2>2. m * GroupSize <= k * GroupSize
    <3>1. CASE m = k
      BY <3>1, <1>3
    <3>2. CASE m < k
      BY <3>2, <1>3, Multiples, GroupAssumption
    <3> QED
      BY <2>1, <3>1, <3>2
  <2> QED
    BY <1>1, <1>2, <1>3, <2>2
<1> QED
  BY <1>1, <1>2, <1>3, <1>4, Multiples, GroupAssumption

LEMMA OneOwner ==
  ASSUME NEW th \in Threads, NEW other \in Threads, NEW t, Owns(th, t), Owns(other, t)
  PROVE  th = other
<1>1. PICK k \in Nat : t = th + k * GroupSize
  BY DEF Owns
<1>2. PICK m \in Nat : t = other + m * GroupSize
  BY DEF Owns
<1>3. k * GroupSize \in Nat /\ m * GroupSize \in Nat /\ th \in 0..(GroupSize - 1)
      /\ other \in 0..(GroupSize - 1) /\ GroupSize \in Nat
  BY GroupAssumption DEF Threads
<1>4. CASE k < m
  BY <1>1, <1>2, <1>3, <1>4, Multiples
<1>5. CASE m < k
  BY <1>1, <1>2, <1>3, <1>5, Multiples
<1>6. CASE k = m
  BY <1>1, <1>2, <1>3, <1>6
<1> QED
  BY <1>4, <1>5, <1>6

LEMMA SomeOwner ==
  ASSUME NEW t \in Tiles
  PROVE  \E th \in Threads : Owns(th, t)
<1>1. t \in Nat /\ GroupSize \in Nat \ {0}
  BY GroupAssumption DEF Tiles
<1>2. /\ t \div GroupSize \in Nat /\ t % GroupSize \in 0..(GroupSize - 1)
      /\ t = GroupSize * (t \div GroupSize) + (t % GroupSize)
  BY <1>1, SMT
<1>3. t = (t % GroupSize) + (t \div GroupSize) * GroupSize
  BY <1>1, <1>2
<1> QED
  BY <1>2, <1>3 DEF Owns, Threads

-----------------------------------------------------------------------------
(* The tile a stub goes to.                                                *)

LEMMA LeastNat ==
  ASSUME NEW T, T \subseteq Nat, T # {}
  PROVE  \E x \in T : \A y \in T : x <= y
<1>1. \E x \in T : \A y \in T : ~(<<y, x>> \in OpToRel(<, Nat))
  BY NatLessThanWellFounded, WFMin, Zenon
<1>2. PICK x \in T : \A y \in T : ~(<<y, x>> \in OpToRel(<, Nat))
  BY <1>1
<1>3. ASSUME NEW y \in T PROVE x <= y
  <2>1. <<y, x>> \in Nat \X Nat
    OBVIOUS
  <2>2. ~(y < x)
    BY <1>2, <2>1 DEF OpToRel
  <2> QED
    BY <2>2
<1> QED
  BY <1>3

(* A stub that has a choice goes to a tile, the nearest of its choices. *)
LEMMA BestIsTile ==
  ASSUME NEW s \in Stubs, NEW t \in Tiles, Choices(s, t) # {}
  PROVE  LET far(i) == Distance[Source[s]][Scanned(s, t)[i]]
         IN  /\ BestTile(s, t) \in Tiles
             /\ \E i \in Choices(s, t) :
                  /\ BestTile(s, t) = Scanned(s, t)[i]
                  /\ \A j \in Choices(s, t) : far(i) < far(j) \/ (far(i) = far(j) /\ i <= j)
<1> DEFINE seq == Scanned(s, t)
           far(i) == Distance[Source[s]][seq[i]]
<1>1. seq \in Seq(Tiles)
  <2>1. FirstTiles[s] \in Seq(Tiles) /\ PipTiles[t] \in Seq(Tiles) /\ << >> \in Seq(Tiles)
    BY StubAssumption
  <2>2. ASSUME NEW a \in Seq(Tiles), NEW b \in Seq(Tiles) PROVE a \o b \in Seq(Tiles)
    OBVIOUS
  <2> QED
    BY <2>1, <2>2 DEF Scanned
<1>2. \A i \in Choices(s, t) : i \in Nat /\ seq[i] \in Tiles
  BY <1>1 DEF Choices
<1>3. \A i \in Choices(s, t) : far(i) \in Nat
  BY <1>2, StubAssumption, DistanceAssumption
<1> HIDE DEF seq, far
<1>4. PICK i0 \in Choices(s, t) : \A j \in Choices(s, t) : far(i0) <= far(j)
  <2> DEFINE D == {far(i) : i \in Choices(s, t)}
  <2>1. D \subseteq Nat /\ D # {}
    BY <1>3
  <2>2. \E x \in D : \A y \in D : x <= y
    BY <2>1, LeastNat
  <2> QED
    BY <2>2
<1>5. PICK i \in {k \in Choices(s, t) : far(k) = far(i0)} :
        \A j \in {k \in Choices(s, t) : far(k) = far(i0)} : i <= j
  <2> DEFINE E == {k \in Choices(s, t) : far(k) = far(i0)}
  <2>1. E \subseteq Nat /\ E # {}
    BY <1>2
  <2> HIDE DEF E
  <2>2. \E x \in E : \A y \in E : x <= y
    BY <2>1, LeastNat
  <2> QED
    BY <2>2 DEF E
<1>6. i \in Choices(s, t) /\ \A j \in Choices(s, t) : far(i) < far(j) \/ (far(i) = far(j) /\ i <= j)
  BY <1>3, <1>4, <1>5
<1> DEFINE P(x) == \A j \in Choices(s, t) : far(x) < far(j) \/ (far(x) = far(j) /\ x <= j)
           best == CHOOSE x \in Choices(s, t) : P(x)
<1>7. best \in Choices(s, t) /\ P(best)
  <2>1. \E x \in Choices(s, t) : P(x)
    BY <1>6
  <2> QED
    BY <2>1
<1>8. BestTile(s, t) = seq[best]
  BY DEF BestTile, far, seq
<1>9. BestTile(s, t) \in Tiles
  BY <1>2, <1>7, <1>8
<1> HIDE DEF best
<1> QED
  BY <1>7, <1>8, <1>9 DEF far, seq

-----------------------------------------------------------------------------
(* Where the stubs of a tile can be while its thread goes through them.    *)

(* Nothing is taken from a tile but inside route_tile, every thread keeps  *)
(* to its own tiles, and one that waits to move or to route has not begun. *)
Base ==
  /\ tin \in [Threads -> Nat]
  /\ ustubs \in [Threads -> Seq(Stubs)]
  /\ unhandled \in [Tiles -> Seq(Stubs)]
  /\ handling \in [Tiles -> Seq(Stubs)]
  /\ stubs_to_handle \in Nat
  /\ tile_path \in [Stubs -> Seq(Tiles) \ {<< >>}]
  /\ current_distance \in [Stubs -> Nat]
  /\ \A th \in Threads :
       /\ Owns(th, tin[th])
       /\ pc[th] # "stubs" => ustubs[th] = << >>
       /\ pc[th] \in {"handle", "stubs"} => tin[th] < TileCount
       /\ th \in waiting /\ pc[th] \in {"move", "route"} => tin[th] = th

(* The stubs a thread handles are at the tiles it has moved, and not yet   *)
(* routed. *)
Swept ==
  \A th \in Threads, t \in Tiles :
    Owns(th, t) /\ handling[t] # << >> =>
      \/ pc[th] \in {"move", "handle"} /\ t < tin[th]
      \/ pc[th] = "route" /\ t >= tin[th]
      \/ pc[th] = "stubs" /\ t > tin[th]

(* No stub comes to a tile that has been moved before all are. *)
Moved ==
  \A th \in Threads, t \in Tiles :
    Owns(th, t) /\ unhandled[t] # << >> =>
      /\ ~(pc[th] \in {"move", "handle"} /\ t < tin[th])
      /\ ~(pc[th] = "route" /\ th \in waiting)

(* While the counter of the round is 0, no stub has been moved ...         *)
QuietMove ==
  \A th \in Threads :
    th \notin waiting /\ pc[th] \in {"move", "handle"} /\ stubs_to_handle = 0 =>
      /\ \A t \in Tiles : handling[t] = << >>
      /\ \A other \in Threads : pc[other] # "handle"

(* ... and when the round has moved none, there is none. *)
Nothing ==
  /\ \A t \in Tiles : unhandled[t] = << >> /\ handling[t] = << >>
  /\ \A th \in Threads : ustubs[th] = << >>

QuietEnd ==
  \A th \in Threads :
    th \notin waiting /\ pc[th] \in {"route", "stubs", "check", "exit"}
      /\ stubs_to_handle = 0 => Nothing

RoundInv == ThreadInv /\ Base /\ Swept /\ Moved /\ QuietMove /\ QuietEnd

LEMMA RoundInit == Init => Base /\ Swept /\ Moved /\ QuietMove /\ QuietEnd
<1> SUFFICES ASSUME Init PROVE Base /\ Swept /\ Moved /\ QuietMove /\ QuietEnd
  OBVIOUS
<1>1. \A th \in Threads : pc[th] = "again" /\ tin[th] = th /\ ustubs[th] = << >>
  BY DEF Init
<1>2. \A t \in Tiles : handling[t] = << >>
  BY DEF Init
<1>3. Base
  <2>1. /\ tin \in [Threads -> Nat] /\ stubs_to_handle \in Nat
        /\ unhandled \in [Tiles -> Seq(Stubs)]
        /\ current_distance \in [Stubs -> Nat]
    BY StubAssumption, GroupAssumption, DistanceAssumption DEF Init, Threads
  <2>2. << >> \in Seq(Stubs)
    OBVIOUS
  <2>3. ustubs \in [Threads -> Seq(Stubs)] /\ handling \in [Tiles -> Seq(Stubs)]
    BY <2>2 DEF Init
  <2>4. tile_path \in [Stubs -> Seq(Tiles) \ {<< >>}]
    <3>1. \A t \in Tiles : << t >> \in Seq(Tiles) \ {<< >>}
      OBVIOUS
    <3> QED
      BY <3>1, StubAssumption DEF Init
  <2>5. \A th \in Threads : Owns(th, th)
    BY OwnsFirst
  <2> QED
    BY <1>1, <2>1, <2>3, <2>4, <2>5 DEF Base
<1>4. Swept
  BY <1>2 DEF Swept
<1>5. Moved
  BY <1>1 DEF Moved
<1>6. QuietMove
  BY <1>1 DEF QuietMove
<1>7. QuietEnd
  BY <1>1 DEF QuietEnd
<1> QED
  BY <1>3, <1>4, <1>5, <1>6, <1>7

(* Who waits after a step: those who waited before, and who arrives. *)
LEMMA WhoWaits ==
  ASSUME NEW th \in Threads, Arrive(th), NEW other \in waiting'
  PROVE  other = th \/ other \in waiting
BY DEF Arrive

(* A thread that goes from label to label with its tile and its stubs. *)
LEMMA BaseOfThreads ==
  ASSUME Barrier, Base, NEW th \in Threads, NEW label, Goto(th, label),
         \A other \in waiting' : other = th \/ other \in waiting,
         NEW t \in Nat, Owns(th, t), tin' = [tin EXCEPT ![th] = t],
         NEW v \in Seq(Stubs), ustubs' = [ustubs EXCEPT ![th] = v],
         label # "stubs" => v = << >>,
         label \in {"handle", "stubs"} => t < TileCount,
         th \in waiting' /\ label \in {"move", "route"} => t = th,
         unhandled' \in [Tiles -> Seq(Stubs)],
         handling' \in [Tiles -> Seq(Stubs)],
         stubs_to_handle' \in Nat,
         tile_path' \in [Stubs -> Seq(Tiles) \ {<< >>}],
         current_distance' \in [Stubs -> Nat]
  PROVE  Base'
<1>1. /\ pc'[th] = label /\ tin'[th] = t /\ ustubs'[th] = v
      /\ \A other \in Threads \ {th} :
           pc'[other] = pc[other] /\ tin'[other] = tin[other] /\ ustubs'[other] = ustubs[other]
  BY DEF Goto, Base, Barrier
<1>2. tin' \in [Threads -> Nat] /\ ustubs' \in [Threads -> Seq(Stubs)]
  BY DEF Base
<1>3. ASSUME NEW other \in Threads
      PROVE  /\ Owns(other, tin'[other])
             /\ pc'[other] # "stubs" => ustubs'[other] = << >>
             /\ pc'[other] \in {"handle", "stubs"} => tin'[other] < TileCount
             /\ other \in waiting' /\ pc'[other] \in {"move", "route"} => tin'[other] = other
  <2>1. CASE other = th
    BY <1>1, <2>1
  <2>2. CASE other # th
    BY <1>1, <2>2 DEF Base
  <2> QED
    BY <2>1, <2>2
<1> QED
  BY <1>2, <1>3 DEF Base

(* A thread between its sweeps goes on, or waits. *)
LEMMA BaseOfLabels ==
  ASSUME Barrier, Base, NEW th \in Threads, pc[th] # "stubs",
         NEW label \in {"reset", "cleared", "check", "again", "exit"}, Goto(th, label),
         \A other \in waiting' : other = th \/ other \in waiting,
         tin' = tin, ustubs' = ustubs, unhandled' = unhandled, handling' = handling,
         stubs_to_handle' \in Nat,
         tile_path' = tile_path, current_distance' = current_distance
  PROVE  Base'
<1>1. /\ pc'[th] = label
      /\ \A other \in Threads \ {th} : pc'[other] = pc[other]
  BY DEF Goto, Barrier
<1>2. ASSUME NEW other \in Threads
      PROVE  /\ Owns(other, tin'[other])
             /\ pc'[other] # "stubs" => ustubs'[other] = << >>
             /\ pc'[other] \in {"handle", "stubs"} => tin'[other] < TileCount
             /\ other \in waiting' /\ pc'[other] \in {"move", "route"} => tin'[other] = other
  <2>1. CASE other = th
    BY <1>1, <2>1 DEF Base
  <2>2. CASE other # th
    BY <1>1, <2>2 DEF Base
  <2> QED
    BY <2>1, <2>2
<1> QED
  BY <1>2 DEF Base

LEMMA BaseNext == ThreadInv /\ Base /\ [Next]_vars => Base'
<1> SUFFICES ASSUME ThreadInv, Base, [Next]_vars PROVE Base'
  OBVIOUS
<1> USE DEF shared, routers
<1>0. Barrier
  BY DEF ThreadInv
<1>a. /\ tin \in [Threads -> Nat] /\ ustubs \in [Threads -> Seq(Stubs)]
      /\ unhandled \in [Tiles -> Seq(Stubs)] /\ handling \in [Tiles -> Seq(Stubs)]
      /\ stubs_to_handle \in Nat
      /\ tile_path \in [Stubs -> Seq(Tiles) \ {<< >>}]
      /\ current_distance \in [Stubs -> Nat]
  BY DEF Base
<1>b. ASSUME NEW th \in Threads
      PROVE  /\ tin[th] \in Nat /\ Owns(th, tin[th]) /\ ustubs[th] \in Seq(Stubs)
             /\ tin = [tin EXCEPT ![th] = tin[th]]
             /\ ustubs = [ustubs EXCEPT ![th] = ustubs[th]]
             /\ pc[th] # "stubs" => ustubs[th] = << >>
             /\ pc[th] \in {"handle", "stubs"} => tin[th] < TileCount
             /\ th \in Nat /\ Owns(th, th)
             /\ tin[th] + GroupSize \in Nat /\ Owns(th, tin[th] + GroupSize)
  <2>1. tin[th] \in Nat /\ th \in Nat /\ GroupSize \in Nat
    BY <1>a, GroupAssumption DEF Threads
  <2>2. Owns(th, th)
    BY OwnsFirst
  <2>3. Owns(th, tin[th] + GroupSize)
    BY OwnsNext DEF Base
  <2> QED
    BY <1>a, <2>1, <2>2, <2>3 DEF Base
<1>c. << >> \in Seq(Stubs)
  OBVIOUS
<1>d. ASSUME NEW th \in Threads, waiting' = waiting
      PROVE  \A other \in waiting' : other = th \/ other \in waiting
  BY <1>d
<1>1. ASSUME NEW th \in Threads, EnterRound(th) PROVE Base'
  <2>1. Goto(th, "reset") /\ \A other \in waiting' : other = th \/ other \in waiting
    BY <1>1, WhoWaits DEF EnterRound
  <2> QED
    BY <1>0, <1>1, <1>a, <2>1, BaseOfLabels DEF EnterRound, Runs
<1>2. ASSUME NEW th \in Threads, Reset(th) PROVE Base'
  <2>1. Goto(th, "cleared") /\ \A other \in waiting' : other = th \/ other \in waiting
    BY <1>2 DEF Reset
  <2> QED
    BY <1>0, <1>2, <1>a, <2>1, BaseOfLabels DEF Reset, Runs
<1>3. ASSUME NEW th \in Threads, StartMoving(th) PROVE Base'
  <2>1. /\ Goto(th, "move") /\ tin' = [tin EXCEPT ![th] = th]
        /\ ustubs' = [ustubs EXCEPT ![th] = << >>]
        /\ \A other \in waiting' : other = th \/ other \in waiting
        /\ unhandled' = unhandled /\ handling' = handling
        /\ tile_path' = tile_path /\ current_distance' = current_distance
    BY <1>3, <1>b, WhoWaits DEF StartMoving, Runs
  <2>2. stubs_to_handle' \in Nat
    BY <1>3, <1>a DEF StartMoving
  <2>3. /\ unhandled' \in [Tiles -> Seq(Stubs)] /\ handling' \in [Tiles -> Seq(Stubs)]
        /\ tile_path' \in [Stubs -> Seq(Tiles) \ {<< >>}]
        /\ current_distance' \in [Stubs -> Nat]
    BY <1>a, <2>1
  <2>4. /\ tin[th] \in Nat /\ Owns(th, tin[th]) /\ th \in Nat /\ Owns(th, th)
    BY <1>b
  <2> QED
    BY <1>0, <1>c, <2>1, <2>2, <2>3, <2>4, BaseOfThreads
<1>4. ASSUME NEW th \in Threads, CountStubs(th) PROVE Base'
  <2>0. /\ pc[th] = "move" /\ th \notin waiting /\ waiting' = waiting
        /\ tin[th] < TileCount /\ ustubs' = ustubs
        /\ unhandled' = unhandled /\ handling' = handling
        /\ tile_path' = tile_path /\ current_distance' = current_distance
    BY <1>4 DEF CountStubs, Runs
  <2>1. stubs_to_handle' \in Nat
    <3>1. tin[th] \in Tiles
      BY <1>b, <2>0, GroupAssumption DEF Tiles
    <3>2. Len(unhandled[tin[th]]) \in Nat
      BY <1>a, <3>1
    <3> QED
      BY <1>4, <1>a, <3>2 DEF CountStubs
  <2>2. CASE unhandled[tin[th]] # << >>
    <3>1. Goto(th, "handle") /\ tin' = tin
      BY <1>4, <2>2 DEF CountStubs
    <3> QED
      BY <1>0, <1>a, <1>b, <1>d, <2>0, <2>1, <3>1, BaseOfThreads
  <2>3. CASE unhandled[tin[th]] = << >>
    <3>1. Goto(th, "move") /\ tin' = [tin EXCEPT ![th] = tin[th] + GroupSize]
      BY <1>0, <1>4, <2>0, <2>3 DEF CountStubs, Goto, Barrier
    <3> QED
      BY <1>0, <1>a, <1>b, <1>d, <2>0, <2>1, <3>1, BaseOfThreads
  <2> QED
    BY <2>2, <2>3
<1>5. ASSUME NEW th \in Threads, HandleOutNets(th) PROVE Base'
  <2>0. /\ pc[th] = "handle" /\ th \notin waiting /\ waiting' = waiting
        /\ ustubs' = [ustubs EXCEPT ![th] = << >>] /\ stubs_to_handle' = stubs_to_handle
        /\ tin' = [tin EXCEPT ![th] = tin[th] + GroupSize] /\ Goto(th, "move")
        /\ tile_path' = tile_path /\ current_distance' = current_distance
    BY <1>5, <1>b DEF HandleOutNets, Runs
  <2>1. tin[th] \in Tiles
    BY <1>b, <2>0, GroupAssumption DEF Tiles
  <2>2. unhandled' \in [Tiles -> Seq(Stubs)] /\ handling' \in [Tiles -> Seq(Stubs)]
    BY <1>5, <1>a, <1>c, <2>1 DEF HandleOutNets
  <2> QED
    <3>1. tile_path' \in [Stubs -> Seq(Tiles) \ {<< >>}] /\ current_distance' \in [Stubs -> Nat]
          /\ stubs_to_handle' \in Nat
      BY <1>a, <2>0
    <3>2. PICK t \in Nat : t = tin[th] + GroupSize /\ Owns(th, t)
      BY <1>b
    <3>3. /\ tin' = [tin EXCEPT ![th] = t] /\ th \notin waiting'
          /\ \A other \in waiting' : other = th \/ other \in waiting
      BY <2>0, <3>2
    <3>4. Goto(th, "move") /\ ustubs' = [ustubs EXCEPT ![th] = << >>]
      BY <2>0
    <3> QED
      BY <1>0, <1>c, <2>2, <3>1, <3>2, <3>3, <3>4, BaseOfThreads
<1>6. ASSUME NEW th \in Threads, StartRouting(th) PROVE Base'
  <2>1. /\ Goto(th, "route") /\ tin' = [tin EXCEPT ![th] = th]
        /\ ustubs' = [ustubs EXCEPT ![th] = << >>]
        /\ \A other \in waiting' : other = th \/ other \in waiting
        /\ unhandled' = unhandled /\ handling' = handling
        /\ tile_path' = tile_path /\ current_distance' = current_distance
    BY <1>6, <1>b, WhoWaits DEF StartRouting, Runs
  <2>2. stubs_to_handle' \in Nat
    BY <1>6, <1>a DEF StartRouting
  <2>3. /\ unhandled' \in [Tiles -> Seq(Stubs)] /\ handling' \in [Tiles -> Seq(Stubs)]
        /\ tile_path' \in [Stubs -> Seq(Tiles) \ {<< >>}]
        /\ current_distance' \in [Stubs -> Nat]
    BY <1>a, <2>1
  <2>4. /\ tin[th] \in Nat /\ Owns(th, tin[th]) /\ th \in Nat /\ Owns(th, th)
    BY <1>b
  <2> QED
    BY <1>0, <1>c, <2>1, <2>2, <2>3, <2>4, BaseOfThreads
<1>7. ASSUME NEW th \in Threads, TakeStubs(th) PROVE Base'
  <2>0. /\ pc[th] = "route" /\ th \notin waiting /\ waiting' = waiting /\ tin' = tin
        /\ tin[th] < TileCount /\ Goto(th, "stubs")
        /\ ustubs' = [ustubs EXCEPT ![th] = handling[tin[th]]]
        /\ unhandled' = unhandled /\ stubs_to_handle' = stubs_to_handle
        /\ tile_path' = tile_path /\ current_distance' = current_distance
    BY <1>7 DEF TakeStubs, Runs
  <2>1. tin[th] \in Tiles
    BY <1>b, <2>0, GroupAssumption DEF Tiles
  <2>2. handling[tin[th]] \in Seq(Stubs) /\ handling' \in [Tiles -> Seq(Stubs)]
    BY <1>7, <1>a, <1>c, <2>1 DEF TakeStubs
  <2> QED
    BY <1>0, <1>a, <1>b, <1>d, <2>0, <2>2, BaseOfThreads
<1>8. ASSUME NEW th \in Threads, RouteStub(th) PROVE Base'
  <2> DEFINE s == Head(ustubs[th])
             u == BestTile(s, tin[th])
  <2>0. /\ pc[th] = "stubs" /\ th \notin waiting /\ waiting' = waiting /\ tin' = tin
        /\ pc' = pc /\ ustubs[th] # << >>
        /\ ustubs' = [ustubs EXCEPT ![th] = Tail(ustubs[th])]
        /\ handling' = handling /\ stubs_to_handle' = stubs_to_handle
    BY <1>8 DEF RouteStub, Runs
  <2>1. Goto(th, "stubs")
    BY <1>0, <2>0 DEF Goto, Barrier
  <2>2. s \in Stubs /\ Tail(ustubs[th]) \in Seq(Stubs) /\ tin[th] \in Tiles
    BY <1>b, <2>0, GroupAssumption DEF Tiles
  <2>3. \/ unhandled' = unhandled /\ tile_path' = tile_path /\ current_distance' = current_distance
        \/ u \in Tiles /\ Walk(s, u) /\ unhandled' = unhandled
        \/ u \in Tiles /\ Walk(s, u) /\ unhandled' = [unhandled EXCEPT ![u] = Append(@, s)]
    <3>1. Choices(s, tin[th]) # {} => u \in Tiles
      BY <2>2, BestIsTile
    <3> QED
      BY <1>8, <3>1 DEF RouteStub, Stop, Hop, Finish
  <2> HIDE DEF s, u
  <2>4. ASSUME Walk(s, u), u \in Tiles
        PROVE  /\ tile_path' \in [Stubs -> Seq(Tiles) \ {<< >>}]
               /\ current_distance' \in [Stubs -> Nat]
    <3>1. Append(tile_path[s], u) \in Seq(Tiles) \ {<< >>}
      <4>1. tile_path[s] \in Seq(Tiles)
        BY <1>a, <2>2
      <4>2. ASSUME NEW q \in Seq(Tiles), NEW x \in Tiles PROVE Append(q, x) \in Seq(Tiles) \ {<< >>}
        <5>1. Append(q, x) \in Seq(Tiles) /\ Len(Append(q, x)) = Len(q) + 1 /\ Len(q) \in Nat
          OBVIOUS
        <5> QED
          BY <5>1
      <4> QED
        BY <2>4, <4>1, <4>2
    <3>2. Distance[Source[s]][u] \in Nat
      BY <2>2, <2>4, StubAssumption, DistanceAssumption
    <3> QED
      BY <1>a, <2>4, <3>1, <3>2 DEF Walk
  <2>5. ASSUME u \in Tiles, unhandled' = [unhandled EXCEPT ![u] = Append(@, s)]
        PROVE  unhandled' \in [Tiles -> Seq(Stubs)]
    <3>1. Append(unhandled[u], s) \in Seq(Stubs)
      BY <1>a, <2>2, <2>5
    <3> QED
      BY <1>a, <2>5, <3>1
  <2>6. /\ unhandled' \in [Tiles -> Seq(Stubs)]
        /\ tile_path' \in [Stubs -> Seq(Tiles) \ {<< >>}]
        /\ current_distance' \in [Stubs -> Nat]
    BY <1>a, <2>3, <2>4, <2>5
  <2>7. handling' \in [Tiles -> Seq(Stubs)] /\ stubs_to_handle' \in Nat
    BY <1>a, <2>0
  <2> QED
    BY <1>0, <1>b, <1>d, <2>0, <2>1, <2>2, <2>6, <2>7, BaseOfThreads
<1>9. ASSUME NEW th \in Threads, NextTile(th) PROVE Base'
  BY <1>0, <1>9, <1>a, <1>b, <1>d, BaseOfThreads DEF NextTile, Runs
<1>10. ASSUME NEW th \in Threads, EndRound(th) PROVE Base'
  <2>1. Goto(th, "check") /\ \A other \in waiting' : other = th \/ other \in waiting
    BY <1>10, WhoWaits DEF EndRound
  <2> QED
    BY <1>0, <1>10, <1>a, <2>1, BaseOfLabels DEF EndRound, Runs
<1>11. ASSUME NEW th \in Threads, Check(th) PROVE Base'
  <2>1. PICK label \in {"exit", "again"} : Goto(th, label)
    BY <1>11 DEF Check
  <2> QED
    BY <1>0, <1>11, <1>a, <1>d, <2>1, BaseOfLabels DEF Check, Runs
<1>12. CASE Joined \/ UNCHANGED vars
  BY <1>12 DEF Joined, vars, Base
<1> QED
  BY <1>1, <1>2, <1>3, <1>4, <1>5, <1>6, <1>7, <1>8, <1>9, <1>10, <1>11,
     <1>12 DEF Next, Thread

(* A thread changes what it handles only at its own tiles. *)
LEMMA SweptOfThread ==
  ASSUME Barrier, Base, Swept, NEW th \in Threads,
         NEW label, pc' = [pc EXCEPT ![th] = label],
         NEW n, tin' = [tin EXCEPT ![th] = n],
         \A t \in Tiles : ~Owns(th, t) => handling'[t] = handling[t],
         \A t \in Tiles : Owns(th, t) /\ handling'[t] # << >> =>
           \/ label \in {"move", "handle"} /\ t < n
           \/ label = "route" /\ t >= n
           \/ label = "stubs" /\ t > n
  PROVE  Swept'
<1>1. /\ pc'[th] = label /\ tin'[th] = n
      /\ \A other \in Threads \ {th} : pc'[other] = pc[other] /\ tin'[other] = tin[other]
  BY DEF Base, Barrier
<1>2. SUFFICES ASSUME NEW other \in Threads, NEW t \in Tiles,
                      Owns(other, t), handling'[t] # << >>
               PROVE  \/ pc'[other] \in {"move", "handle"} /\ t < tin'[other]
                      \/ pc'[other] = "route" /\ t >= tin'[other]
                      \/ pc'[other] = "stubs" /\ t > tin'[other]
  BY DEF Swept
<1>3. CASE other = th
  BY <1>1, <1>2, <1>3
<1>4. CASE other # th
  <2>1. ~Owns(th, t)
    BY <1>2, <1>4, OneOwner
  <2>2. handling[t] # << >>
    BY <1>2, <2>1
  <2> QED
    BY <1>1, <1>2, <1>4, <2>2 DEF Swept
<1> QED
  BY <1>3, <1>4

LEMMA SweptNext == ThreadInv /\ Base /\ Swept /\ [Next]_vars => Swept'
<1> SUFFICES ASSUME ThreadInv, Base, Swept, [Next]_vars PROVE Swept'
  OBVIOUS
<1> USE DEF shared, routers
<1>0. Barrier
  BY DEF ThreadInv
<1>a. /\ pc \in [Threads -> Labels] /\ tin \in [Threads -> Nat]
      /\ handling \in [Tiles -> Seq(Stubs)]
  BY DEF Base, ThreadInv, Barrier
<1>b. GroupSize \in Nat \ {0} /\ TileCount \in Nat /\ Tiles = 0..(TileCount - 1)
  BY GroupAssumption DEF Tiles
<1>c. ASSUME NEW th \in Threads, NEW t \in Tiles, Owns(th, t)
      PROVE  /\ t \in Nat /\ t < TileCount /\ t >= th /\ tin[th] \in Nat
             /\ t < tin[th] => t < tin[th] + GroupSize
             /\ t > tin[th] => t >= tin[th] + GroupSize
             /\ tin[th] < tin[th] + GroupSize
  <2>1. t \in Nat /\ t < TileCount /\ t >= th /\ tin[th] \in Nat /\ Owns(th, tin[th])
    BY <1>a, <1>b, <1>c, OwnsFirst DEF Base
  <2>2. t > tin[th] => tin[th] + GroupSize <= t
    BY <1>c, <2>1, OwnsApart
  <2> QED
    BY <1>b, <2>1, <2>2
<1>d. ASSUME NEW th \in Threads, NEW t \in Tiles, Owns(th, t), handling[t] # << >>
      PROVE  \/ pc[th] \in {"move", "handle"} /\ t < tin[th]
             \/ pc[th] = "route" /\ t >= tin[th]
             \/ pc[th] = "stubs" /\ t > tin[th]
  BY <1>d DEF Swept
<1>e. ASSUME NEW th \in Threads, tin' = tin PROVE tin' = [tin EXCEPT ![th] = tin[th]]
  BY <1>a, <1>e
<1>f. ASSUME NEW th \in Threads, pc' = pc PROVE pc' = [pc EXCEPT ![th] = pc[th]]
  BY <1>a, <1>f
<1>1. ASSUME NEW th \in Threads, EnterRound(th) PROVE Swept'
  <2>1. pc[th] = "again" /\ pc' = [pc EXCEPT ![th] = "reset"] /\ tin' = tin /\ handling' = handling
    BY <1>1 DEF EnterRound, Runs, Goto
  <2>2. \A t \in Tiles : Owns(th, t) => handling'[t] = << >>
    BY <1>d, <2>1
  <2> QED
    BY <1>0, <1>e, <2>1, <2>2, SweptOfThread
<1>2. ASSUME NEW th \in Threads, Reset(th) PROVE Swept'
  <2>1. pc[th] = "reset" /\ pc' = [pc EXCEPT ![th] = "cleared"] /\ tin' = tin /\ handling' = handling
    BY <1>2 DEF Reset, Runs, Goto
  <2>2. \A t \in Tiles : Owns(th, t) => handling'[t] = << >>
    BY <1>d, <2>1
  <2> QED
    BY <1>0, <1>e, <2>1, <2>2, SweptOfThread
<1>3. ASSUME NEW th \in Threads, StartMoving(th) PROVE Swept'
  <2>1. /\ pc[th] = "cleared" /\ pc' = [pc EXCEPT ![th] = "move"]
        /\ tin' = [tin EXCEPT ![th] = th] /\ handling' = handling
    BY <1>3 DEF StartMoving, Runs, Goto
  <2>2. \A t \in Tiles : Owns(th, t) => handling'[t] = << >>
    BY <1>d, <2>1
  <2> QED
    BY <1>0, <2>1, <2>2, SweptOfThread
<1>4. ASSUME NEW th \in Threads, CountStubs(th) PROVE Swept'
  <2>1. pc[th] = "move" /\ handling' = handling
    BY <1>4 DEF CountStubs, Runs
  <2>2. \A t \in Tiles : Owns(th, t) /\ handling'[t] # << >> => t < tin[th]
    BY <1>d, <2>1
  <2>3. CASE unhandled[tin[th]] # << >>
    <3>1. pc' = [pc EXCEPT ![th] = "handle"] /\ tin' = tin
      BY <1>4, <2>3 DEF CountStubs, Goto
    <3> QED
      BY <1>0, <1>e, <2>1, <2>2, <3>1, SweptOfThread
  <2>4. CASE unhandled[tin[th]] = << >>
    <3>1. PICK n : n = tin[th] + GroupSize
      OBVIOUS
    <3>2. pc' = [pc EXCEPT ![th] = "move"] /\ tin' = [tin EXCEPT ![th] = n]
      BY <1>4, <1>f, <2>1, <2>4, <3>1 DEF CountStubs
    <3>3. \A t \in Tiles : Owns(th, t) /\ handling'[t] # << >> => t < n
      BY <1>c, <2>2, <3>1
    <3> QED
      BY <1>0, <2>1, <3>2, <3>3, SweptOfThread
  <2> QED
    BY <2>3, <2>4
<1>5. ASSUME NEW th \in Threads, HandleOutNets(th) PROVE Swept'
  <2>0. PICK n : n = tin[th] + GroupSize
    OBVIOUS
  <2>1. /\ pc[th] = "handle" /\ pc' = [pc EXCEPT ![th] = "move"]
        /\ tin' = [tin EXCEPT ![th] = n]
        /\ handling' = [handling EXCEPT ![tin[th]] = unhandled[tin[th]]]
    BY <1>5, <2>0 DEF HandleOutNets, Runs, Goto
  <2>2. Owns(th, tin[th])
    BY DEF Base
  <2>3. \A t \in Tiles \ {tin[th]} : handling'[t] = handling[t]
    BY <1>a, <2>1
  <2>4. \A t \in Tiles : Owns(th, t) /\ handling'[t] # << >> => t < n
    BY <1>c, <1>d, <2>0, <2>1, <2>3
  <2>5. \A t \in Tiles : ~Owns(th, t) => handling'[t] = handling[t]
    BY <2>2, <2>3
  <2> QED
    BY <1>0, <2>1, <2>4, <2>5, SweptOfThread
<1>6. ASSUME NEW th \in Threads, StartRouting(th) PROVE Swept'
  <2>1. /\ pc[th] = "move" /\ pc' = [pc EXCEPT ![th] = "route"]
        /\ tin' = [tin EXCEPT ![th] = th] /\ handling' = handling
    BY <1>6 DEF StartRouting, Runs, Goto
  <2>2. \A t \in Tiles : Owns(th, t) => t >= th
    BY <1>c
  <2> QED
    BY <1>0, <2>1, <2>2, SweptOfThread
<1>7. ASSUME NEW th \in Threads, TakeStubs(th) PROVE Swept'
  <2>1. /\ pc[th] = "route" /\ pc' = [pc EXCEPT ![th] = "stubs"] /\ tin' = tin
        /\ handling' = [handling EXCEPT ![tin[th]] = << >>]
    BY <1>7 DEF TakeStubs, Runs, Goto
  <2>2. Owns(th, tin[th])
    BY DEF Base
  <2>3. /\ \A t \in Tiles \ {tin[th]} : handling'[t] = handling[t]
        /\ tin[th] \in Tiles => handling'[tin[th]] = << >>
    BY <1>a, <2>1
  <2>4. \A t \in Tiles : Owns(th, t) /\ handling'[t] # << >> => t > tin[th]
    BY <1>c, <1>d, <2>1, <2>3
  <2>5. \A t \in Tiles : ~Owns(th, t) => handling'[t] = handling[t]
    BY <2>2, <2>3
  <2> QED
    BY <1>0, <1>e, <2>1, <2>4, <2>5, SweptOfThread
<1>8. ASSUME NEW th \in Threads, RouteStub(th) PROVE Swept'
  BY <1>8 DEF RouteStub, Swept
<1>9. ASSUME NEW th \in Threads, NextTile(th) PROVE Swept'
  <2>0. PICK n : n = tin[th] + GroupSize
    OBVIOUS
  <2>1. /\ pc[th] = "stubs" /\ pc' = [pc EXCEPT ![th] = "route"]
        /\ tin' = [tin EXCEPT ![th] = n] /\ handling' = handling
    BY <1>9, <2>0 DEF NextTile, Runs, Goto
  <2>2. \A t \in Tiles : Owns(th, t) /\ handling'[t] # << >> => t >= n
    BY <1>c, <1>d, <2>0, <2>1
  <2> QED
    BY <1>0, <2>1, <2>2, SweptOfThread
<1>10. ASSUME NEW th \in Threads, EndRound(th) PROVE Swept'
  <2>1. /\ pc[th] = "route" /\ pc' = [pc EXCEPT ![th] = "check"] /\ tin' = tin
        /\ handling' = handling /\ tin[th] >= TileCount
    BY <1>10 DEF EndRound, Runs, Goto
  <2>2. \A t \in Tiles : Owns(th, t) => handling'[t] = << >>
    BY <1>b, <1>c, <1>d, <2>1
  <2> QED
    BY <1>0, <1>e, <2>1, <2>2, SweptOfThread
<1>11. ASSUME NEW th \in Threads, Check(th) PROVE Swept'
  <2>1. PICK label : pc' = [pc EXCEPT ![th] = label]
    BY <1>11 DEF Check, Goto
  <2>2. pc[th] = "check" /\ tin' = tin /\ handling' = handling
    BY <1>11 DEF Check, Runs
  <2>3. \A t \in Tiles : Owns(th, t) => handling'[t] = << >>
    BY <1>d, <2>2
  <2> QED
    BY <1>0, <1>e, <2>1, <2>2, <2>3, SweptOfThread
<1>12. CASE Joined \/ UNCHANGED vars
  BY <1>12 DEF Joined, vars, Swept
<1> QED
  BY <1>1, <1>2, <1>3, <1>4, <1>5, <1>6, <1>7, <1>8, <1>9, <1>10, <1>11,
     <1>12 DEF Next, Thread

(* Where the other threads are while a thread runs. *)
LEMMA Together ==
  ASSUME Barrier, NEW th \in Threads, th \notin waiting, NEW other \in Threads
  PROVE  /\ other \notin waiting => Phase(pc[other]) = Phase(pc[th])
         /\ other \in waiting /\ pc[th] = "cleared" => pc[other] = "move"
         /\ other \in waiting /\ pc[th] = "move" => pc[other] = "route"
         /\ other \in waiting /\ pc[th] \in {"route", "stubs"} => pc[other] = "check"
<1>1. PICK phase \in 0..3 : InPhase(phase)
  BY DEF Barrier
<1>2. Phase(pc[th]) = phase
  BY <1>1 DEF InPhase
<1>3. other \in waiting => pc[other] = Entry(Following(phase))
  BY <1>1 DEF InPhase
<1>4. other \notin waiting => Phase(pc[other]) = phase
  BY <1>1 DEF InPhase
<1>5. /\ Phase("cleared") = 1 /\ Phase("move") = 2
      /\ Phase("route") = 3 /\ Phase("stubs") = 3
      /\ Following(1) = 2 /\ Following(2) = 3 /\ Following(3) = 0
      /\ Entry(0) = "check" /\ Entry(2) = "move" /\ Entry(3) = "route"
  BY DEF Phase, Following, Entry
<1> QED
  BY <1>2, <1>3, <1>4, <1>5

LEMMA PhaseOfLabels ==
  /\ Phase("again") = 0 /\ Phase("check") = 0 /\ Phase("exit") = 0
  /\ Phase("reset") = 1 /\ Phase("cleared") = 1
  /\ Phase("move") = 2 /\ Phase("handle") = 2
  /\ Phase("route") = 3 /\ Phase("stubs") = 3
BY DEF Phase

(* A thread does not touch the label and the tile of another one. *)
LEMMA OthersStay ==
  ASSUME pc \in [Threads -> Labels], tin \in [Threads -> Nat],
         NEW th \in Threads, Thread(th)
  PROVE  /\ \A other \in Threads \ {th} : pc'[other] = pc[other] /\ tin'[other] = tin[other]
         /\ \A other \in waiting' : other = th \/ other \in waiting
<1> USE DEF shared, routers, Goto
<1>1. CASE EnterRound(th)
  BY <1>1, WhoWaits DEF EnterRound
<1>2. CASE Reset(th)
  BY <1>2 DEF Reset
<1>3. CASE StartMoving(th)
  BY <1>3, WhoWaits DEF StartMoving
<1>4. CASE CountStubs(th)
  BY <1>4 DEF CountStubs
<1>5. CASE HandleOutNets(th)
  BY <1>5 DEF HandleOutNets
<1>6. CASE StartRouting(th)
  BY <1>6, WhoWaits DEF StartRouting
<1>7. CASE TakeStubs(th)
  BY <1>7 DEF TakeStubs
<1>8. CASE RouteStub(th)
  BY <1>8 DEF RouteStub
<1>9. CASE NextTile(th)
  BY <1>9 DEF NextTile
<1>10. CASE EndRound(th)
  BY <1>10, WhoWaits DEF EndRound
<1>11. CASE Check(th)
  BY <1>11 DEF Check
<1> QED
  BY <1>1, <1>2, <1>3, <1>4, <1>5, <1>6, <1>7, <1>8, <1>9, <1>10, <1>11 DEF Thread

(* A thread changes what waits only at its own tiles, when it moves it. *)
LEMMA MovedOfThread ==
  ASSUME Moved, NEW th \in Threads,
         \A other \in Threads \ {th} : pc'[other] = pc[other] /\ tin'[other] = tin[other],
         \A other \in waiting' : other = th \/ other \in waiting,
         \A t \in Tiles : ~Owns(th, t) => unhandled'[t] = unhandled[t],
         \A t \in Tiles : Owns(th, t) /\ unhandled'[t] # << >> =>
           /\ ~(pc'[th] \in {"move", "handle"} /\ t < tin'[th])
           /\ ~(pc'[th] = "route" /\ th \in waiting')
  PROVE  Moved'
<1>1. SUFFICES ASSUME NEW other \in Threads, NEW t \in Tiles,
                      Owns(other, t), unhandled'[t] # << >>
               PROVE  /\ ~(pc'[other] \in {"move", "handle"} /\ t < tin'[other])
                      /\ ~(pc'[other] = "route" /\ other \in waiting')
  BY DEF Moved
<1>2. CASE other = th
  BY <1>1, <1>2
<1>3. CASE other # th
  <2>1. ~Owns(th, t)
    BY <1>1, <1>3, OneOwner
  <2>2. unhandled[t] # << >>
    BY <1>1, <2>1
  <2> QED
    BY <1>1, <1>3, <2>2 DEF Moved
<1> QED
  BY <1>2, <1>3

LEMMA MovedNext == ThreadInv /\ Base /\ Moved /\ [Next]_vars => Moved'
<1> SUFFICES ASSUME ThreadInv, Base, Moved, [Next]_vars PROVE Moved'
  OBVIOUS
<1> USE DEF shared, routers
<1>0. Barrier
  BY DEF ThreadInv
<1>a. /\ pc \in [Threads -> Labels] /\ tin \in [Threads -> Nat]
      /\ unhandled \in [Tiles -> Seq(Stubs)]
  BY DEF Base, ThreadInv, Barrier
<1>b. GroupSize \in Nat \ {0} /\ TileCount \in Nat /\ Tiles = 0..(TileCount - 1)
  BY GroupAssumption DEF Tiles
<1>c. ASSUME NEW th \in Threads, NEW t \in Tiles, Owns(th, t)
      PROVE  /\ t \in Nat /\ t < TileCount /\ t >= th /\ ~(t < th) /\ tin[th] \in Nat
             /\ t < tin[th] + GroupSize => t <= tin[th]
  <2>1. /\ t \in Nat /\ t < TileCount /\ t >= th /\ tin[th] \in Nat /\ Owns(th, tin[th])
        /\ th \in Nat
    BY <1>a, <1>b, <1>c, OwnsFirst DEF Base, Threads
  <2>2. t > tin[th] => tin[th] + GroupSize <= t
    BY <1>c, <2>1, OwnsApart
  <2> QED
    BY <1>b, <2>1, <2>2
<1>d. ASSUME NEW th \in Threads, NEW t \in Tiles, Owns(th, t), unhandled[t] # << >>
      PROVE  ~(pc[th] \in {"move", "handle"} /\ t < tin[th])
  BY <1>d DEF Moved
<1>e. ASSUME NEW th \in Threads, Thread(th)
      PROVE  /\ \A other \in Threads \ {th} : pc'[other] = pc[other] /\ tin'[other] = tin[other]
             /\ \A other \in waiting' : other = th \/ other \in waiting
  BY <1>a, <1>e, OthersStay
<1>1. ASSUME NEW th \in Threads, EnterRound(th) PROVE Moved'
  <2>e. /\ \A other \in Threads \ {th} : pc'[other] = pc[other] /\ tin'[other] = tin[other]
        /\ \A other \in waiting' : other = th \/ other \in waiting
    BY <1>1, <1>e DEF Thread
  <2>1. /\ pc'[th] = "reset" /\ tin' = tin /\ unhandled' = unhandled
    BY <1>1, <1>a DEF EnterRound, Runs, Goto
  <2> QED
    BY <2>e, <2>1, MovedOfThread
<1>2. ASSUME NEW th \in Threads, Reset(th) PROVE Moved'
  <2>e. /\ \A other \in Threads \ {th} : pc'[other] = pc[other] /\ tin'[other] = tin[other]
        /\ \A other \in waiting' : other = th \/ other \in waiting
    BY <1>2, <1>e DEF Thread
  <2>1. /\ pc'[th] = "cleared" /\ tin' = tin /\ unhandled' = unhandled
        /\ waiting' = waiting
    BY <1>2, <1>a DEF Reset, Goto
  <2> QED
    BY <2>e, <2>1, MovedOfThread
<1>3. ASSUME NEW th \in Threads, StartMoving(th) PROVE Moved'
  <2>e. /\ \A other \in Threads \ {th} : pc'[other] = pc[other] /\ tin'[other] = tin[other]
        /\ \A other \in waiting' : other = th \/ other \in waiting
    BY <1>3, <1>e DEF Thread
  <2>1. /\ pc'[th] = "move" /\ tin'[th] = th
        /\ unhandled' = unhandled
    BY <1>3, <1>a DEF StartMoving, Goto
  <2>2. \A t \in Tiles : Owns(th, t) => ~(t < th)
    BY <1>c
  <2> QED
    BY <2>e, <2>1, <2>2, MovedOfThread
<1>4. ASSUME NEW th \in Threads, CountStubs(th) PROVE Moved'
  <2>e. /\ \A other \in Threads \ {th} : pc'[other] = pc[other] /\ tin'[other] = tin[other]
        /\ \A other \in waiting' : other = th \/ other \in waiting
    BY <1>4, <1>e DEF Thread
  <2>1. pc[th] = "move" /\ unhandled' = unhandled /\ waiting' = waiting
    BY <1>4 DEF CountStubs, Runs
  <2>2. \A t \in Tiles : Owns(th, t) /\ unhandled'[t] # << >> => ~(t < tin[th])
    BY <1>d, <2>1
  <2>3. CASE unhandled[tin[th]] # << >>
    <3>1. pc'[th] = "handle" /\ tin' = tin
      BY <1>4, <1>a, <2>3 DEF CountStubs, Goto
    <3> QED
      BY <2>e, <2>1, <2>2, <3>1, MovedOfThread
  <2>4. CASE unhandled[tin[th]] = << >>
    <3>1. PICK n : n = tin[th] + GroupSize
      OBVIOUS
    <3>2. pc'[th] = "move" /\ tin'[th] = n
      BY <1>4, <1>a, <2>1, <2>4, <3>1 DEF CountStubs
    <3>3. \A t \in Tiles : Owns(th, t) /\ unhandled'[t] # << >> => ~(t < n)
      BY <1>c, <2>1, <2>2, <2>4, <3>1
    <3> QED
      BY <2>e, <2>1, <3>2, <3>3, MovedOfThread
  <2> QED
    BY <2>3, <2>4
<1>5. ASSUME NEW th \in Threads, HandleOutNets(th) PROVE Moved'
  <2>e. /\ \A other \in Threads \ {th} : pc'[other] = pc[other] /\ tin'[other] = tin[other]
        /\ \A other \in waiting' : other = th \/ other \in waiting
    BY <1>5, <1>e DEF Thread
  <2>0. PICK n : n = tin[th] + GroupSize
    OBVIOUS
  <2>1. /\ pc[th] = "handle" /\ pc'[th] = "move"
        /\ tin'[th] = n /\ waiting' = waiting
        /\ unhandled' = [unhandled EXCEPT ![tin[th]] = << >>]
    BY <1>5, <1>a, <2>0 DEF HandleOutNets, Runs, Goto
  <2>2. Owns(th, tin[th])
    BY DEF Base
  <2>3. /\ \A t \in Tiles \ {tin[th]} : unhandled'[t] = unhandled[t]
        /\ tin[th] \in Tiles => unhandled'[tin[th]] = << >>
    BY <1>a, <2>1
  <2>4. \A t \in Tiles : Owns(th, t) /\ unhandled'[t] # << >> => ~(t < n)
    BY <1>c, <1>d, <2>0, <2>1, <2>3
  <2>5. \A t \in Tiles : ~Owns(th, t) => unhandled'[t] = unhandled[t]
    BY <2>2, <2>3
  <2> QED
    BY <2>e, <2>1, <2>4, <2>5, MovedOfThread
<1>6. ASSUME NEW th \in Threads, StartRouting(th) PROVE Moved'
  <2>e. /\ \A other \in Threads \ {th} : pc'[other] = pc[other] /\ tin'[other] = tin[other]
        /\ \A other \in waiting' : other = th \/ other \in waiting
    BY <1>6, <1>e DEF Thread
  <2>1. /\ pc[th] = "move" /\ pc'[th] = "route" /\ tin[th] >= TileCount
        /\ tin'[th] = th /\ unhandled' = unhandled
    BY <1>6, <1>a DEF StartRouting, Runs, Goto
  <2>2. \A t \in Tiles : Owns(th, t) => unhandled'[t] = << >>
    BY <1>b, <1>c, <1>d, <2>1
  <2> QED
    BY <2>e, <2>1, <2>2, MovedOfThread
<1>7. ASSUME NEW th \in Threads, TakeStubs(th) PROVE Moved'
  <2>e. /\ \A other \in Threads \ {th} : pc'[other] = pc[other] /\ tin'[other] = tin[other]
        /\ \A other \in waiting' : other = th \/ other \in waiting
    BY <1>7, <1>e DEF Thread
  <2>1. /\ pc'[th] = "stubs" /\ tin' = tin /\ unhandled' = unhandled
        /\ waiting' = waiting
    BY <1>7, <1>a DEF TakeStubs, Goto
  <2> QED
    BY <2>e, <2>1, MovedOfThread
<1>8. ASSUME NEW th \in Threads, RouteStub(th) PROVE Moved'
  <2>1. /\ pc[th] = "stubs" /\ th \notin waiting
        /\ pc' = pc /\ tin' = tin /\ waiting' = waiting
    BY <1>8 DEF RouteStub, Runs
  <2>2. ASSUME NEW other \in Threads
        PROVE  /\ pc[other] \notin {"move", "handle"}
               /\ ~(pc[other] = "route" /\ other \in waiting)
    <3>1. CASE other \in waiting
      BY <1>0, <2>1, <3>1, Together
    <3>2. CASE other \notin waiting
      <4>1. Phase(pc[other]) = 3
        BY <1>0, <2>1, <3>2, Together, PhaseOfLabels
      <4> QED
        BY <3>2, <4>1, PhaseOfLabels
    <3> QED
      BY <3>1, <3>2
  <2> QED
    BY <2>1, <2>2 DEF Moved
<1>9. ASSUME NEW th \in Threads, NextTile(th) PROVE Moved'
  <2>e. /\ \A other \in Threads \ {th} : pc'[other] = pc[other] /\ tin'[other] = tin[other]
        /\ \A other \in waiting' : other = th \/ other \in waiting
    BY <1>9, <1>e DEF Thread
  <2>0. PICK n : n = tin[th] + GroupSize
    OBVIOUS
  <2>1. /\ th \notin waiting /\ pc'[th] = "route" /\ waiting' = waiting
        /\ tin'[th] = n /\ unhandled' = unhandled
    BY <1>9, <1>a, <2>0 DEF NextTile, Runs, Goto
  <2> QED
    BY <2>e, <2>1, MovedOfThread
<1>10. ASSUME NEW th \in Threads, EndRound(th) PROVE Moved'
  <2>e. /\ \A other \in Threads \ {th} : pc'[other] = pc[other] /\ tin'[other] = tin[other]
        /\ \A other \in waiting' : other = th \/ other \in waiting
    BY <1>10, <1>e DEF Thread
  <2>1. /\ pc'[th] = "check" /\ tin' = tin /\ unhandled' = unhandled
    BY <1>10, <1>a DEF EndRound, Goto
  <2> QED
    BY <2>e, <2>1, MovedOfThread
<1>11. ASSUME NEW th \in Threads, Check(th) PROVE Moved'
  <2>e. /\ \A other \in Threads \ {th} : pc'[other] = pc[other] /\ tin'[other] = tin[other]
        /\ \A other \in waiting' : other = th \/ other \in waiting
    BY <1>11, <1>e DEF Thread
  <2>1. PICK label \in {"exit", "again"} : pc'[th] = label
    BY <1>11, <1>a DEF Check, Goto
  <2>2. tin' = tin /\ unhandled' = unhandled /\ waiting' = waiting
    BY <1>11, <1>a DEF Check
  <2> QED
    BY <2>e, <2>1, <2>2, MovedOfThread
<1>12. CASE Joined \/ UNCHANGED vars
  BY <1>12 DEF Joined, vars, Moved
<1> QED
  BY <1>1, <1>2, <1>3, <1>4, <1>5, <1>6, <1>7, <1>8, <1>9, <1>10, <1>11,
     <1>12 DEF Next, Thread

LEMMA RunnersAgree ==
  ASSUME Barrier', NEW th \in Threads, th \notin waiting',
         NEW other \in Threads, other \notin waiting'
  PROVE  Phase(pc'[other]) = Phase(pc'[th])
BY DEF Barrier, InPhase

(* No claim is made of a phase no thread is in. *)
LEMMA NoMovers ==
  ASSUME Barrier', NEW th \in Threads, th \notin waiting', Phase(pc'[th]) # 2
  PROVE  QuietMove'
<1>1. ASSUME NEW other \in Threads, other \notin waiting',
             pc'[other] \in {"move", "handle"}
      PROVE  FALSE
  <2>1. Phase(pc'[other]) = 2
    BY <1>1, PhaseOfLabels
  <2> QED
    BY <1>1, <2>1, RunnersAgree
<1> QED
  BY <1>1 DEF QuietMove

LEMMA NoRouters ==
  ASSUME Barrier', NEW th \in Threads, th \notin waiting', Phase(pc'[th]) \in {1, 2}
  PROVE  QuietEnd'
<1>1. ASSUME NEW other \in Threads, other \notin waiting',
             pc'[other] \in {"route", "stubs", "check", "exit"}
      PROVE  FALSE
  <2>1. Phase(pc'[other]) \in {0, 3}
    BY <1>1, PhaseOfLabels
  <2>2. Phase(pc'[other]) = Phase(pc'[th])
    BY <1>1, RunnersAgree
  <2> QED
    BY <2>1, <2>2
<1> QED
  BY <1>1 DEF QuietEnd

(* The last thread to arrive opens the next phase; with any other one the  *)
(* phase goes on, and somebody else runs in it. *)
LEMMA ArriveOrOpen ==
  ASSUME ThreadInv, ThreadInv', NEW th \in Threads, th \notin waiting, Arrive(th),
         \A other \in Threads \ {th} : pc'[other] = pc[other]
  PROVE  \/ waiting' = {} /\ waiting \cup {th} = Threads
         \/ /\ waiting' = waiting \cup {th}
            /\ \E other \in Threads \ {th} :
                 other \notin waiting' /\ Phase(pc'[other]) = Phase(pc[th])
<1>1. CASE waiting \cup {th} = Threads
  BY <1>1 DEF Arrive
<1>2. CASE waiting \cup {th} # Threads
  <2>1. waiting' = waiting \cup {th}
    BY <1>2 DEF Arrive
  <2>2. PICK other \in Threads : other \notin waiting'
    BY DEF ThreadInv, Barrier
  <2>3. other # th /\ other \notin waiting
    BY <2>1, <2>2
  <2>4. Phase(pc[other]) = Phase(pc[th])
    BY <2>3, Together DEF ThreadInv
  <2> QED
    BY <2>1, <2>2, <2>3, <2>4
<1> QED
  BY <1>1, <1>2

LEMMA QuietMoveNext ==
  ThreadInv /\ Base /\ Swept /\ QuietMove /\ [Next]_vars /\ ThreadInv' => QuietMove'
<1> SUFFICES ASSUME ThreadInv, Base, Swept, QuietMove, [Next]_vars, ThreadInv'
             PROVE  QuietMove'
  OBVIOUS
<1> USE DEF shared, routers
<1>0. Barrier /\ Barrier'
  BY DEF ThreadInv
<1>a. /\ pc \in [Threads -> Labels] /\ tin \in [Threads -> Nat]
      /\ handling \in [Tiles -> Seq(Stubs)] /\ unhandled \in [Tiles -> Seq(Stubs)]
      /\ stubs_to_handle \in Nat
  BY DEF Base, ThreadInv, Barrier
<1>e. ASSUME NEW th \in Threads, Thread(th)
      PROVE  \A other \in Threads \ {th} : pc'[other] = pc[other]
  BY <1>a, <1>e, OthersStay
<1>f. ASSUME NEW th \in Threads, th \notin waiting', pc'[th] \notin {"move", "handle"},
             pc'[th] \in Labels
      PROVE  QuietMove'
  <2>1. Phase(pc'[th]) # 2
    BY <1>f, PhaseOfLabels DEF Labels
  <2> QED
    BY <1>0, <1>f, <2>1, NoMovers
<1>g. ASSUME NEW th \in Threads, th \notin waiting, pc[th] \in {"move", "handle"},
             stubs_to_handle = 0
      PROVE  /\ \A t \in Tiles : handling[t] = << >>
             /\ \A other \in Threads : pc[other] # "handle"
  BY <1>g DEF QuietMove
<1>1. ASSUME NEW th \in Threads, EnterRound(th) PROVE QuietMove'
  <2>1. pc[th] = "again" /\ pc'[th] = "reset" /\ th \notin waiting /\ Arrive(th)
    BY <1>1, <1>a DEF EnterRound, Runs, Goto
  <2>2. \A other \in Threads \ {th} : pc'[other] = pc[other]
    BY <1>1, <1>e DEF Thread
  <2>3. CASE waiting' = {}
    BY <2>1, <2>3, <1>f DEF Labels
  <2>4. CASE \E other \in Threads \ {th} :
               other \notin waiting' /\ Phase(pc'[other]) = Phase(pc[th])
    BY <1>0, <2>1, <2>4, PhaseOfLabels, NoMovers
  <2> QED
    BY <2>1, <2>2, <2>3, <2>4, ArriveOrOpen
<1>2. ASSUME NEW th \in Threads, Reset(th) PROVE QuietMove'
  <2>1. pc'[th] = "cleared" /\ th \notin waiting'
    BY <1>2, <1>a DEF Reset, Runs, Goto
  <2> QED
    BY <2>1, <1>f DEF Labels
<1>3. ASSUME NEW th \in Threads, StartMoving(th) PROVE QuietMove'
  <2>1. /\ pc[th] = "cleared" /\ pc'[th] = "move" /\ th \notin waiting /\ Arrive(th)
        /\ handling' = handling
    BY <1>3, <1>a DEF StartMoving, Runs, Goto
  <2>2. \A other \in Threads \ {th} : pc'[other] = pc[other]
    BY <1>3, <1>e DEF Thread
  <2>3. CASE waiting \cup {th} = Threads
    <3>1. ASSUME NEW other \in Threads \ {th}
          PROVE  other \in waiting /\ pc[other] = "move" /\ tin[other] = other
      <4>1. other \in waiting
        BY <2>3
      <4>2. pc[other] = "move"
        BY <1>0, <2>1, <4>1, Together
      <4> QED
        BY <4>1, <4>2 DEF Base
    <3>2. \A other \in Threads : pc'[other] # "handle"
      BY <2>1, <2>2, <3>1
    <3>3. ASSUME NEW t \in Tiles, handling[t] # << >> PROVE FALSE
      <4>1. PICK owner \in Threads : Owns(owner, t)
        BY SomeOwner
      <4>2. /\ \/ pc[owner] \in {"move", "handle"} /\ t < tin[owner]
               \/ pc[owner] = "route" /\ t >= tin[owner]
               \/ pc[owner] = "stubs" /\ t > tin[owner]
      BY <3>3, <4>1 DEF Swept
      <4>3. t >= owner /\ t \in Nat /\ owner \in Nat
        BY <4>1, OwnsFirst, GroupAssumption DEF Threads
      <4>4. owner # th
        BY <2>1, <4>2
      <4> QED
        BY <3>1, <4>2, <4>3, <4>4
    <3> QED
      BY <2>1, <3>2, <3>3 DEF QuietMove
  <2>4. CASE \E other \in Threads \ {th} :
               other \notin waiting' /\ Phase(pc'[other]) = Phase(pc[th])
    BY <1>0, <2>1, <2>4, PhaseOfLabels, NoMovers
  <2> QED
    BY <2>1, <2>2, <2>3, <2>4, ArriveOrOpen
<1>4. ASSUME NEW th \in Threads, CountStubs(th) PROVE QuietMove'
  <2>1. /\ pc[th] = "move" /\ th \notin waiting /\ handling' = handling
        /\ stubs_to_handle' = stubs_to_handle + Len(unhandled[tin[th]])
        /\ tin[th] < TileCount
    BY <1>4 DEF CountStubs, Runs
  <2>2. \A other \in Threads \ {th} : pc'[other] = pc[other]
    BY <1>4, <1>e DEF Thread
  <2>3. SUFFICES ASSUME stubs_to_handle' = 0
                 PROVE  /\ \A t \in Tiles : handling'[t] = << >>
                        /\ \A other \in Threads : pc'[other] # "handle"
    BY DEF QuietMove
  <2>4. stubs_to_handle = 0 /\ unhandled[tin[th]] = << >>
    <3>1. tin[th] \in Tiles
      BY <1>a, <2>1, GroupAssumption DEF Tiles
    <3>2. PICK q \in Seq(Stubs) : q = unhandled[tin[th]]
      BY <1>a, <3>1
    <3>3. Len(q) \in Nat /\ (Len(q) = 0 => q = << >>)
      OBVIOUS
    <3> QED
      BY <1>a, <2>1, <2>3, <3>2, <3>3
  <2>5. pc' = pc
    BY <1>4, <2>4 DEF CountStubs
  <2> QED
    BY <1>g, <2>1, <2>4, <2>5
<1>5. ASSUME NEW th \in Threads, HandleOutNets(th) PROVE QuietMove'
  <2>1. pc[th] = "handle" /\ th \notin waiting /\ stubs_to_handle' = stubs_to_handle
    BY <1>5 DEF HandleOutNets, Runs
  <2>2. stubs_to_handle # 0
    BY <1>g, <2>1
  <2> QED
    BY <2>1, <2>2 DEF QuietMove
<1>6. ASSUME NEW th \in Threads, StartRouting(th) PROVE QuietMove'
  <2>1. /\ pc[th] = "move" /\ pc'[th] = "route" /\ th \notin waiting /\ Arrive(th)
        /\ handling' = handling /\ stubs_to_handle' = stubs_to_handle
    BY <1>6, <1>a DEF StartRouting, Runs, Goto
  <2>2. \A other \in Threads \ {th} : pc'[other] = pc[other]
    BY <1>6, <1>e DEF Thread
  <2>3. CASE waiting' = {}
    BY <2>1, <2>3, <1>f DEF Labels
  <2>4. CASE waiting' = waiting \cup {th}
    <3>1. stubs_to_handle' = 0 =>
            /\ \A t \in Tiles : handling'[t] = << >>
            /\ \A other \in Threads : pc'[other] # "handle"
      BY <1>g, <2>1, <2>2
    <3> QED
      BY <3>1 DEF QuietMove
  <2> QED
    BY <2>1, <2>2, <2>3, <2>4, ArriveOrOpen
<1>7. ASSUME NEW th \in Threads, TakeStubs(th) PROVE QuietMove'
  <2>1. pc'[th] = "stubs" /\ th \notin waiting'
    BY <1>7, <1>a DEF TakeStubs, Runs, Goto
  <2> QED
    BY <2>1, <1>f DEF Labels
<1>8. ASSUME NEW th \in Threads, RouteStub(th) PROVE QuietMove'
  <2>1. pc'[th] = "stubs" /\ th \notin waiting'
    BY <1>8, <1>a DEF RouteStub, Runs
  <2> QED
    BY <2>1, <1>f DEF Labels
<1>9. ASSUME NEW th \in Threads, NextTile(th) PROVE QuietMove'
  <2>1. pc'[th] = "route" /\ th \notin waiting'
    BY <1>9, <1>a DEF NextTile, Runs, Goto
  <2> QED
    BY <2>1, <1>f DEF Labels
<1>10. ASSUME NEW th \in Threads, EndRound(th) PROVE QuietMove'
  <2>1. pc[th] = "route" /\ pc'[th] = "check" /\ th \notin waiting /\ Arrive(th)
    BY <1>10, <1>a DEF EndRound, Runs, Goto
  <2>2. \A other \in Threads \ {th} : pc'[other] = pc[other]
    BY <1>10, <1>e DEF Thread
  <2>3. CASE waiting' = {}
    BY <2>1, <2>3, <1>f DEF Labels
  <2>4. CASE \E other \in Threads \ {th} :
               other \notin waiting' /\ Phase(pc'[other]) = Phase(pc[th])
    BY <1>0, <2>1, <2>4, PhaseOfLabels, NoMovers
  <2> QED
    BY <2>1, <2>2, <2>3, <2>4, ArriveOrOpen
<1>11. ASSUME NEW th \in Threads, Check(th) PROVE QuietMove'
  <2>1. pc'[th] \in {"exit", "again"} /\ th \notin waiting'
    BY <1>11, <1>a DEF Check, Runs, Goto
  <2> QED
    BY <2>1, <1>f DEF Labels
<1>12. CASE Joined \/ UNCHANGED vars
  BY <1>12 DEF Joined, vars, QuietMove
<1> QED
  BY <1>1, <1>2, <1>3, <1>4, <1>5, <1>6, <1>7, <1>8, <1>9, <1>10, <1>11,
     <1>12 DEF Next, Thread

LEMMA QuietEndNext ==
  ThreadInv /\ Base /\ Moved /\ QuietMove /\ QuietEnd /\ [Next]_vars /\ ThreadInv'
    => QuietEnd'
<1> SUFFICES ASSUME ThreadInv, Base, Moved, QuietMove, QuietEnd, [Next]_vars, ThreadInv'
             PROVE  QuietEnd'
  OBVIOUS
<1> USE DEF shared, routers
<1>0. Barrier /\ Barrier'
  BY DEF ThreadInv
<1>a. /\ pc \in [Threads -> Labels] /\ tin \in [Threads -> Nat]
      /\ handling \in [Tiles -> Seq(Stubs)] /\ unhandled \in [Tiles -> Seq(Stubs)]
      /\ ustubs \in [Threads -> Seq(Stubs)]
  BY DEF Base, ThreadInv, Barrier
<1>e. ASSUME NEW th \in Threads, Thread(th)
      PROVE  \A other \in Threads \ {th} : pc'[other] = pc[other]
  BY <1>a, <1>e, OthersStay
<1>f. ASSUME NEW th \in Threads, th \notin waiting',
             pc'[th] \in {"reset", "cleared", "move", "handle"}
      PROVE  QuietEnd'
  <2>1. Phase(pc'[th]) \in {1, 2}
    BY <1>f, PhaseOfLabels
  <2> QED
    BY <1>0, <1>f, <2>1, NoRouters
<1>g. ASSUME NEW th \in Threads, th \notin waiting,
             pc[th] \in {"route", "stubs", "check", "exit"}, stubs_to_handle = 0
      PROVE  Nothing
  BY <1>g DEF QuietEnd
<1>h. ASSUME Nothing, UNCHANGED <<unhandled, handling, ustubs>> PROVE Nothing'
  BY <1>h DEF Nothing
<1>1. ASSUME NEW th \in Threads, EnterRound(th) PROVE QuietEnd'
  <2>1. /\ pc[th] = "again" /\ pc'[th] = "reset" /\ th \notin waiting /\ Arrive(th)
        /\ UNCHANGED <<unhandled, handling, ustubs, stubs_to_handle>>
    BY <1>1, <1>a DEF EnterRound, Runs, Goto
  <2>2. \A other \in Threads \ {th} : pc'[other] = pc[other]
    BY <1>1, <1>e DEF Thread
  <2>3. CASE waiting' = {}
    BY <2>1, <2>3, <1>f
  <2>4. CASE waiting' = waiting \cup {th}
    <3>1. SUFFICES ASSUME NEW other \in Threads, other \notin waiting', stubs_to_handle' = 0,
                          pc'[other] \in {"route", "stubs", "check", "exit"}
                   PROVE  Nothing'
      BY DEF QuietEnd
    <3>2. Nothing
      BY <1>g, <2>1, <2>2, <2>4, <3>1
    <3> QED
      BY <1>h, <2>1, <3>2
  <2> QED
    BY <2>1, <2>2, <2>3, <2>4, ArriveOrOpen
<1>2. ASSUME NEW th \in Threads, Reset(th) PROVE QuietEnd'
  <2>1. pc'[th] = "cleared" /\ th \notin waiting'
    BY <1>2, <1>a DEF Reset, Runs, Goto
  <2> QED
    BY <2>1, <1>f
<1>3. ASSUME NEW th \in Threads, StartMoving(th) PROVE QuietEnd'
  <2>1. pc[th] = "cleared" /\ pc'[th] = "move" /\ th \notin waiting /\ Arrive(th)
    BY <1>3, <1>a DEF StartMoving, Runs, Goto
  <2>2. \A other \in Threads \ {th} : pc'[other] = pc[other]
    BY <1>3, <1>e DEF Thread
  <2>3. CASE waiting' = {}
    BY <2>1, <2>3, <1>f
  <2>4. CASE \E other \in Threads \ {th} :
               other \notin waiting' /\ Phase(pc'[other]) = Phase(pc[th])
    BY <1>0, <2>1, <2>4, PhaseOfLabels, NoRouters
  <2> QED
    BY <2>1, <2>2, <2>3, <2>4, ArriveOrOpen
<1>4. ASSUME NEW th \in Threads, CountStubs(th) PROVE QuietEnd'
  <2>1. pc'[th] \in {"move", "handle"} /\ th \notin waiting'
    BY <1>4, <1>a DEF CountStubs, Runs, Goto
  <2> QED
    BY <2>1, <1>f
<1>5. ASSUME NEW th \in Threads, HandleOutNets(th) PROVE QuietEnd'
  <2>1. pc'[th] = "move" /\ th \notin waiting'
    BY <1>5, <1>a DEF HandleOutNets, Runs, Goto
  <2> QED
    BY <2>1, <1>f
<1>6. ASSUME NEW th \in Threads, StartRouting(th) PROVE QuietEnd'
  <2>1. /\ pc[th] = "move" /\ pc'[th] = "route" /\ th \notin waiting /\ Arrive(th)
        /\ tin[th] >= TileCount
        /\ UNCHANGED <<unhandled, handling, ustubs, stubs_to_handle>>
    BY <1>6, <1>a DEF StartRouting, Runs, Goto
  <2>2. \A other \in Threads \ {th} : pc'[other] = pc[other]
    BY <1>6, <1>e DEF Thread
  <2>3. CASE waiting \cup {th} = Threads
    <3>1. SUFFICES ASSUME stubs_to_handle = 0 PROVE Nothing'
      BY <2>1 DEF QuietEnd
    <3>2. \A t \in Tiles : handling[t] = << >>
      BY <1>g, <2>1, <3>1 DEF QuietMove
    <3>3. ASSUME NEW other \in Threads \ {th}
          PROVE  other \in waiting /\ pc[other] = "route"
      <4>1. other \in waiting
        BY <2>3
      <4> QED
        BY <1>0, <2>1, <4>1, Together
    <3>4. ASSUME NEW t \in Tiles PROVE unhandled[t] = << >>
      <4>1. PICK owner \in Threads : Owns(owner, t)
        BY SomeOwner
      <4>2. CASE owner = th
        <5>1. t < tin[th]
          BY <1>a, <2>1, GroupAssumption DEF Tiles
        <5> QED
          BY <2>1, <4>1, <4>2, <5>1 DEF Moved
      <4>3. CASE owner # th
        BY <3>3, <4>1, <4>3 DEF Moved
      <4> QED
        BY <4>2, <4>3
    <3>5. \A other \in Threads : ustubs[other] = << >>
      <4>1. \A other \in Threads : pc[other] # "stubs"
        BY <2>1, <3>3
      <4> QED
        BY <4>1 DEF Base
    <3>6. Nothing
      BY <3>2, <3>4, <3>5 DEF Nothing
    <3> QED
      BY <1>h, <2>1, <3>6
  <2>4. CASE \E other \in Threads \ {th} :
               other \notin waiting' /\ Phase(pc'[other]) = Phase(pc[th])
    BY <1>0, <2>1, <2>4, PhaseOfLabels, NoRouters
  <2> QED
    BY <2>1, <2>2, <2>3, <2>4, ArriveOrOpen
<1>7. ASSUME NEW th \in Threads, TakeStubs(th) PROVE QuietEnd'
  <2>1. /\ pc[th] = "route" /\ th \notin waiting /\ tin[th] < TileCount
        /\ ustubs' = [ustubs EXCEPT ![th] = handling[tin[th]]]
        /\ handling' = [handling EXCEPT ![tin[th]] = << >>]
        /\ unhandled' = unhandled /\ stubs_to_handle' = stubs_to_handle
    BY <1>7 DEF TakeStubs, Runs
  <2>2. SUFFICES ASSUME stubs_to_handle = 0 PROVE Nothing'
    BY <2>1 DEF QuietEnd
  <2>3. Nothing
    BY <1>g, <2>1, <2>2
  <2>4. tin[th] \in Tiles
    BY <1>a, <2>1, GroupAssumption DEF Tiles
  <2> QED
    BY <1>a, <2>1, <2>3, <2>4 DEF Nothing
<1>8. ASSUME NEW th \in Threads, RouteStub(th) PROVE QuietEnd'
  <2>1. /\ pc[th] = "stubs" /\ th \notin waiting /\ ustubs[th] # << >>
        /\ stubs_to_handle' = stubs_to_handle
    BY <1>8 DEF RouteStub, Runs
  <2>2. stubs_to_handle # 0
    BY <1>g, <2>1 DEF Nothing
  <2> QED
    BY <2>1, <2>2 DEF QuietEnd
<1>9. ASSUME NEW th \in Threads, NextTile(th) PROVE QuietEnd'
  <2>1. /\ pc[th] = "stubs" /\ th \notin waiting
        /\ UNCHANGED <<unhandled, handling, ustubs, stubs_to_handle>>
    BY <1>9 DEF NextTile, Runs
  <2> QED
    BY <1>g, <1>h, <2>1 DEF QuietEnd
<1>10. ASSUME NEW th \in Threads, EndRound(th) PROVE QuietEnd'
  <2>1. /\ pc[th] = "route" /\ th \notin waiting
        /\ UNCHANGED <<unhandled, handling, ustubs, stubs_to_handle>>
    BY <1>10 DEF EndRound, Runs
  <2> QED
    BY <1>g, <1>h, <2>1 DEF QuietEnd
<1>11. ASSUME NEW th \in Threads, Check(th) PROVE QuietEnd'
  <2>1. /\ pc[th] = "check" /\ th \notin waiting
        /\ UNCHANGED <<unhandled, handling, ustubs, stubs_to_handle>>
    BY <1>11 DEF Check, Runs
  <2> QED
    BY <1>g, <1>h, <2>1 DEF QuietEnd
<1>12. CASE Joined \/ UNCHANGED vars
  BY <1>12 DEF Joined, vars, QuietEnd, Nothing
<1> QED
  BY <1>1, <1>2, <1>3, <1>4, <1>5, <1>6, <1>7, <1>8, <1>9, <1>10, <1>11,
     <1>12 DEF Next, Thread

LEMMA RoundInvariant == Spec => []RoundInv
<1>1. Init => RoundInv
  BY InitInv, RoundInit DEF RoundInv
<1>2. RoundInv /\ [Next]_vars => RoundInv'
  <2> SUFFICES ASSUME RoundInv, [Next]_vars PROVE RoundInv'
    OBVIOUS
  <2>1. ThreadInv /\ Base /\ Swept /\ Moved /\ QuietMove /\ QuietEnd
    BY DEF RoundInv
  <2>2. ThreadInv'
    BY <2>1, ThreadInvNext
  <2>3. Base'
    BY <2>1, BaseNext
  <2>4. Swept'
    BY <2>1, SweptNext
  <2>5. Moved'
    BY <2>1, MovedNext
  <2>6. QuietMove'
    BY <2>1, <2>2, QuietMoveNext
  <2>7. QuietEnd'
    BY <2>1, <2>2, QuietEndNext
  <2> QED
    BY <2>2, <2>3, <2>4, <2>5, <2>6, <2>7 DEF RoundInv
<1> QED
  BY <1>1, <1>2, PTL DEF Spec

-----------------------------------------------------------------------------
(* No stub is lost, and none is in two places.                             *)

LEMMA NoMembers ==
  ASSUME NEW A, NEW f, DOMAIN f = A, \A t \in A : f[t] = << >>
  PROVE  Distinct(f) /\ Members(f) = {}
<1>1. \A t \in A : DOMAIN f[t] = {}
  OBVIOUS
<1> QED
  BY <1>1 DEF Distinct, Members

LEMMA MembersAreStubs ==
  ASSUME NEW A, NEW f \in [A -> Seq(Stubs)]
  PROVE  Members(f) \subseteq Stubs
<1>1. SUFFICES ASSUME NEW s \in Members(f) PROVE s \in Stubs
  OBVIOUS
<1>2. PICK t \in A : \E i \in DOMAIN f[t] : s = f[t][i]
  BY PlaceOf
<1>3. PICK i \in DOMAIN f[t] : s = f[t][i]
  BY <1>2
<1>4. f[t] \in Seq(Stubs)
  OBVIOUS
<1> QED
  BY <1>3, <1>4

(* A stub less, or all of them again, in the counter. *)
LEMMA LiveIsFinite == Base => Live \subseteq Stubs /\ IsFiniteSet(Live)
<1> SUFFICES ASSUME Base PROVE Live \subseteq Stubs /\ IsFiniteSet(Live)
  OBVIOUS
<1>1. /\ unhandled \in [Tiles -> Seq(Stubs)] /\ handling \in [Tiles -> Seq(Stubs)]
      /\ ustubs \in [Threads -> Seq(Stubs)]
  BY DEF Base
<1>2. Members(unhandled) \subseteq Stubs
  BY <1>1, MembersAreStubs
<1>3. Members(handling) \subseteq Stubs
  BY <1>1, MembersAreStubs
<1>4. Members(ustubs) \subseteq Stubs
  BY <1>1, MembersAreStubs
<1>5. Live \subseteq Stubs
  BY <1>2, <1>3, <1>4 DEF Live
<1> QED
  BY <1>5, StubAssumption, FS_Subset

LEMMA OnceInit == Init => OncePlaced /\ StubsAreHere
<1> SUFFICES ASSUME Init PROVE OncePlaced /\ StubsAreHere
  OBVIOUS
<1>1. /\ unhandled \in [Tiles -> Seq(Stubs)]
      /\ \A t \in Tiles :
           /\ \A i, j \in DOMAIN unhandled[t] : unhandled[t][i] = unhandled[t][j] => i = j
           /\ {unhandled[t][i] : i \in DOMAIN unhandled[t]} = {s \in Stubs : StartTile[s] = t}
  BY StubAssumption DEF Init
<1>2. ASSUME NEW t \in Tiles, NEW i \in DOMAIN unhandled[t]
      PROVE  unhandled[t][i] \in Stubs /\ StartTile[unhandled[t][i]] = t
  <2>1. unhandled[t][i] \in {unhandled[t][j] : j \in DOMAIN unhandled[t]}
    OBVIOUS
  <2> QED
    BY <1>1, <2>1
<1>3. Distinct(unhandled)
  <2>1. SUFFICES ASSUME NEW t \in Tiles, NEW u \in Tiles, NEW i \in DOMAIN unhandled[t],
                        NEW j \in DOMAIN unhandled[u], unhandled[t][i] = unhandled[u][j]
                 PROVE  t = u /\ i = j
    BY <1>1 DEF Distinct
  <2>2. t = u
    BY <1>2, <2>1
  <2> QED
    BY <1>1, <2>1, <2>2
<1>4. Members(unhandled) = Stubs
  <2>1. ASSUME NEW s \in Stubs PROVE s \in Members(unhandled)
    <3>1. PICK t \in Tiles : t = StartTile[s]
      BY StubAssumption
    <3>2. s \in {unhandled[t][i] : i \in DOMAIN unhandled[t]}
      BY <1>1, <3>1
    <3>3. PICK i \in DOMAIN unhandled[t] : s = unhandled[t][i]
      BY <3>2
    <3> QED
      BY <1>1, <3>3, Placed
  <2>2. Members(unhandled) \subseteq Stubs
    BY <1>1, MembersAreStubs
  <2> QED
    BY <2>1, <2>2
<1>5. Distinct(handling) /\ Members(handling) = {}
  <2>1. DOMAIN handling = Tiles /\ \A t \in Tiles : handling[t] = << >>
    BY DEF Init
  <2> QED
    BY <2>1, NoMembers
<1>6. Distinct(ustubs) /\ Members(ustubs) = {}
  <2>1. DOMAIN ustubs = Threads /\ \A th \in Threads : ustubs[th] = << >>
    BY DEF Init
  <2> QED
    BY <2>1, NoMembers
<1>7. OncePlaced
  <2>1. Live = Stubs
    BY <1>4, <1>5, <1>6 DEF Live
  <2> QED
    BY <1>3, <1>5, <1>6, <2>1 DEF OncePlaced, Init
<1>8. StubsAreHere
  <2>1. ASSUME NEW t \in Tiles, NEW i \in DOMAIN unhandled[t]
        PROVE  tile_path[unhandled[t][i]][Len(tile_path[unhandled[t][i]])] = t
    <3>1. PICK s \in Stubs : s = unhandled[t][i]
      BY <1>2
    <3>2. StartTile[s] = t /\ tile_path[s] = << StartTile[s] >>
      BY <1>2, <3>1 DEF Init
    <3>3. Len(<< StartTile[s] >>) = 1 /\ << StartTile[s] >>[1] = StartTile[s]
      OBVIOUS
    <3> QED
      BY <3>1, <3>2, <3>3
  <2>2. \A t \in Tiles : DOMAIN handling[t] = {}
    BY DEF Init
  <2>3. \A th \in Threads : DOMAIN ustubs[th] = {}
    BY DEF Init
  <2> QED
    BY <2>1, <2>2, <2>3 DEF StubsAreHere
<1> QED
  BY <1>7, <1>8

(* Where a stub is decides nothing but its own place. *)
LEMMA OnceUnchanged ==
  ASSUME OncePlaced,
         UNCHANGED <<unhandled, handling, ustubs, stub_router_count>>
  PROVE  OncePlaced'
BY DEF OncePlaced, Live

(* A thread that has taken no stubs may go on to another tile. *)
LEMMA HereUnchanged ==
  ASSUME StubsAreHere, NEW th \in Threads, ustubs[th] = << >>,
         UNCHANGED <<unhandled, handling, ustubs, tile_path>>,
         \A other \in Threads \ {th} : tin'[other] = tin[other]
  PROVE  StubsAreHere'
<1>1. DOMAIN ustubs[th] = {}
  OBVIOUS
<1> QED
  BY <1>1 DEF StubsAreHere

LEMMA OnceOfHandle ==
  ASSUME RoundInv, OncePlaced, StubsAreHere, NEW th \in Threads, HandleOutNets(th), Base'
  PROVE  OncePlaced' /\ StubsAreHere' /\ Live' = Live
<1> USE DEF shared, routers
<1>0. Base /\ Barrier /\ Swept
  BY DEF RoundInv, ThreadInv
<1>a. /\ tin \in [Threads -> Nat] /\ ustubs \in [Threads -> Seq(Stubs)]
      /\ unhandled \in [Tiles -> Seq(Stubs)] /\ handling \in [Tiles -> Seq(Stubs)]
      /\ unhandled' \in [Tiles -> Seq(Stubs)] /\ handling' \in [Tiles -> Seq(Stubs)]
  BY <1>0 DEF Base
<1>1. /\ pc[th] = "handle" /\ tin' = [tin EXCEPT ![th] = tin[th] + GroupSize]
      /\ UNCHANGED <<ustubs, stub_router_count, tile_path>>
  BY DEF HandleOutNets, Runs
<1>2. tin[th] < TileCount /\ Owns(th, tin[th]) /\ ustubs[th] = << >>
  BY <1>0, <1>1 DEF Base
<1>3. PICK t \in Tiles : t = tin[th]
  BY <1>a, <1>2, GroupAssumption DEF Tiles
<1>4. /\ handling'[t] = unhandled[t] /\ unhandled'[t] = << >>
      /\ \A u \in Tiles \ {t} : handling'[u] = handling[u] /\ unhandled'[u] = unhandled[u]
  BY <1>a, <1>3 DEF HandleOutNets
<1>5. handling[t] = << >>
  <2>1. t \in Nat /\ ~(t < t)
    BY DEF Tiles
  <2>2. pc[th] \notin {"route", "stubs"} /\ Owns(th, t) /\ ~(t < tin[th])
    BY <1>1, <1>2, <1>3, <2>1
  <2> QED
    BY <1>0, <2>2 DEF Swept
<1>6. /\ Distinct(unhandled) /\ Distinct(handling) /\ Distinct(ustubs)
      /\ Members(unhandled) \cap Members(handling) = {}
      /\ Members(unhandled) \cap Members(ustubs) = {}
      /\ Members(handling) \cap Members(ustubs) = {}
      /\ stub_router_count = Cardinality(Live)
  BY DEF OncePlaced
<1>7. /\ Distinct(unhandled') /\ Distinct(handling')
      /\ Members(unhandled') \cap Members(handling') = {}
      /\ Members(unhandled') \cup Members(handling') = Members(unhandled) \cup Members(handling)
  <2>1. PICK f2 : f2 = unhandled'
    OBVIOUS
  <2>2. PICK g2 : g2 = handling'
    OBVIOUS
  <2>3. Changed(f2, unhandled, t, << >>) /\ Changed(g2, handling, t, unhandled[t])
    BY <1>a, <1>4, <2>1, <2>2 DEF Changed
  <2>4. /\ Vectors(unhandled, Tiles) /\ Vectors(handling, Tiles) /\ Vectors(f2, Tiles) /\ Vectors(g2, Tiles)
    BY <1>a, <2>1, <2>2 DEF Vectors
  <2>5. /\ Distinct(f2) /\ Distinct(g2)
        /\ Members(f2) \cap Members(g2) = {}
        /\ Members(f2) \cup Members(g2) = Members(unhandled) \cup Members(handling)
    BY <1>5, <1>6, <2>3, <2>4, MoveAll
  <2> QED
    BY <2>1, <2>2, <2>5
<1>b. Live' = Live
  BY <1>1, <1>7 DEF Live
<1>8. OncePlaced'
  BY <1>1, <1>6, <1>7, <1>b DEF OncePlaced
<1>9. StubsAreHere'
  <2> DEFINE end(s) == tile_path[s][Len(tile_path[s])]
  <2>0. tile_path' = tile_path
    BY <1>1
  <2>1. ASSUME NEW u \in Tiles, NEW i \in DOMAIN unhandled'[u] PROVE end(unhandled'[u][i]) = u
    <3>1. u # t
      BY <1>4
    <3> QED
      BY <1>4, <3>1 DEF StubsAreHere
  <2>2. ASSUME NEW u \in Tiles, NEW i \in DOMAIN handling'[u] PROVE end(handling'[u][i]) = u
    <3>1. CASE u = t
      BY <1>4, <3>1 DEF StubsAreHere
    <3>2. CASE u # t
      BY <1>4, <3>2 DEF StubsAreHere
    <3> QED
      BY <3>1, <3>2
  <2>3. ASSUME NEW other \in Threads, NEW i \in DOMAIN ustubs'[other]
        PROVE  end(ustubs'[other][i]) = tin'[other]
    <3>1. other # th
      BY <1>1, <1>2
    <3>2. tin'[other] = tin[other]
      BY <1>1, <1>a, <3>1
    <3> QED
      BY <1>1, <3>2 DEF StubsAreHere
  <2> QED
    BY <2>0, <2>1, <2>2, <2>3 DEF StubsAreHere
<1> QED
  BY <1>8, <1>9, <1>b

LEMMA OnceOfTake ==
  ASSUME RoundInv, OncePlaced, StubsAreHere, NEW th \in Threads, TakeStubs(th), Base'
  PROVE  OncePlaced' /\ StubsAreHere' /\ Live' = Live
<1> USE DEF shared, routers
<1>0. Base
  BY DEF RoundInv
<1>a. /\ tin \in [Threads -> Nat]
      /\ ustubs \in [Threads -> Seq(Stubs)] /\ handling \in [Tiles -> Seq(Stubs)]
      /\ ustubs' \in [Threads -> Seq(Stubs)] /\ handling' \in [Tiles -> Seq(Stubs)]
  BY <1>0 DEF Base
<1>1. /\ pc[th] = "route" /\ tin[th] < TileCount
      /\ UNCHANGED <<tin, unhandled, stub_router_count, tile_path>>
  BY DEF TakeStubs, Runs
<1>2. ustubs[th] = << >>
  BY <1>0, <1>1 DEF Base
<1>3. PICK t \in Tiles : t = tin[th]
  BY <1>a, <1>1, GroupAssumption DEF Tiles
<1>4. /\ ustubs'[th] = handling[t] /\ handling'[t] = << >>
      /\ \A u \in Tiles \ {t} : handling'[u] = handling[u]
      /\ \A other \in Threads \ {th} : ustubs'[other] = ustubs[other]
  BY <1>a, <1>3 DEF TakeStubs
<1>6. /\ Distinct(unhandled) /\ Distinct(handling) /\ Distinct(ustubs)
      /\ Members(unhandled) \cap Members(handling) = {}
      /\ Members(unhandled) \cap Members(ustubs) = {}
      /\ Members(handling) \cap Members(ustubs) = {}
      /\ stub_router_count = Cardinality(Live)
  BY DEF OncePlaced
<1>7. /\ Distinct(handling') /\ Distinct(ustubs')
      /\ Members(handling') \cap Members(ustubs') = {}
      /\ Members(handling') \cup Members(ustubs') = Members(handling) \cup Members(ustubs)
  <2>1. PICK f2 : f2 = handling'
    OBVIOUS
  <2>2. PICK g2 : g2 = ustubs'
    OBVIOUS
  <2>3. Changed(f2, handling, t, << >>) /\ Changed(g2, ustubs, th, handling[t])
    BY <1>a, <1>4, <2>1, <2>2 DEF Changed
  <2>4. /\ Vectors(handling, Tiles) /\ Vectors(ustubs, Threads) /\ Vectors(f2, Tiles) /\ Vectors(g2, Threads)
    BY <1>a, <2>1, <2>2 DEF Vectors
  <2>5. /\ Distinct(f2) /\ Distinct(g2)
        /\ Members(f2) \cap Members(g2) = {}
        /\ Members(f2) \cup Members(g2) = Members(handling) \cup Members(ustubs)
    BY <1>2, <1>6, <2>3, <2>4, MoveAll
  <2> QED
    BY <2>1, <2>2, <2>5
<1>b. Live' = Live
  BY <1>1, <1>7 DEF Live
<1>8. OncePlaced'
  BY <1>1, <1>6, <1>7, <1>b DEF OncePlaced
<1>9. StubsAreHere'
  <2> DEFINE end(s) == tile_path[s][Len(tile_path[s])]
  <2>1. ASSUME NEW u \in Tiles, NEW i \in DOMAIN handling'[u] PROVE end(handling'[u][i]) = u
    <3>1. u # t
      BY <1>4
    <3> QED
      BY <1>4, <3>1 DEF StubsAreHere
  <2>2. ASSUME NEW other \in Threads, NEW i \in DOMAIN ustubs'[other]
        PROVE  end(ustubs'[other][i]) = tin[other]
    <3>1. CASE other = th
      BY <1>3, <1>4, <3>1 DEF StubsAreHere
    <3>2. CASE other # th
      BY <1>4, <3>2 DEF StubsAreHere
    <3> QED
      BY <3>1, <3>2
  <2> QED
    BY <1>1, <2>1, <2>2 DEF StubsAreHere
<1> QED
  BY <1>8, <1>9, <1>b

LEMMA OnceOfRoute ==
  ASSUME RoundInv, OncePlaced, StubsAreHere, NEW th \in Threads, RouteStub(th), Base'
  PROVE  /\ OncePlaced' /\ StubsAreHere'
         /\ Head(ustubs[th]) \in Stubs /\ Head(ustubs[th]) \in Live
         /\ Live' \in {Live, Live \ {Head(ustubs[th])}}
         /\ stub_router_count' = stub_router_count => Live' = Live
         /\ stub_router_count' = stub_router_count - 1 => Live' = Live \ {Head(ustubs[th])}
<1>0. Base
  BY DEF RoundInv
<1>a. /\ tin \in [Threads -> Nat] /\ ustubs \in [Threads -> Seq(Stubs)]
      /\ unhandled \in [Tiles -> Seq(Stubs)] /\ handling \in [Tiles -> Seq(Stubs)]
      /\ tile_path \in [Stubs -> Seq(Tiles) \ {<< >>}]
      /\ ustubs' \in [Threads -> Seq(Stubs)] /\ unhandled' \in [Tiles -> Seq(Stubs)]
  BY <1>0 DEF Base
<1>1. /\ pc[th] = "stubs" /\ ustubs[th] # << >>
      /\ ustubs' = [ustubs EXCEPT ![th] = Tail(ustubs[th])]
      /\ tin' = tin /\ handling' = handling
  BY DEF RouteStub, Runs
<1>2. tin[th] \in Tiles
  <2>1. tin[th] < TileCount /\ tin[th] \in Nat
    BY <1>0, <1>a, <1>1 DEF Base
  <2> QED
    BY <2>1, GroupAssumption DEF Tiles
<1>3. PICK s : s = Head(ustubs[th])
  OBVIOUS
<1>4. PICK u : u = BestTile(s, tin[th])
  OBVIOUS
<1>6. /\ Distinct(unhandled) /\ Distinct(handling) /\ Distinct(ustubs)
      /\ Members(unhandled) \cap Members(handling) = {}
      /\ Members(unhandled) \cap Members(ustubs) = {}
      /\ Members(handling) \cap Members(ustubs) = {}
      /\ stub_router_count = Cardinality(Live)
  BY DEF OncePlaced
<1>7. /\ s \in Stubs /\ s \in Members(ustubs)
      /\ Distinct(ustubs') /\ Members(ustubs') = Members(ustubs) \ {s}
  <2>1. PICK f2 : f2 = ustubs'
    OBVIOUS
  <2>2. Changed(f2, ustubs, th, Tail(ustubs[th]))
    BY <1>a, <1>1, <2>1 DEF Changed
  <2>3. Vectors(ustubs, Threads) /\ Vectors(f2, Threads)
    BY <1>a, <2>1 DEF Vectors
  <2>4. /\ s \in Stubs /\ s \in Members(ustubs)
        /\ Distinct(f2) /\ Members(f2) = Members(ustubs) \ {s}
    BY <1>1, <1>3, <1>6, <2>2, <2>3, TakeFirst
  <2> QED
    BY <2>1, <2>4
<1>8. s \notin Members(unhandled) /\ s \notin Members(handling)
  BY <1>6, <1>7
(* The stub goes on, or it is finished or stopped. *)
<1>9. \/ /\ u \in Tiles /\ Walk(s, u) /\ unhandled' = [unhandled EXCEPT ![u] = Append(@, s)]
         /\ stub_router_count' = stub_router_count
      \/ /\ unhandled' = unhandled /\ stub_router_count' = stub_router_count - 1
         /\ Walk(s, u) \/ tile_path' = tile_path
  <2>1. Choices(s, tin[th]) # {} => u \in Tiles
    BY <1>2, <1>4, <1>7, BestIsTile
  <2> QED
    BY <1>3, <1>4, <2>1 DEF RouteStub, Stop, Hop, Finish
<1>10. ASSUME NEW x \in Stubs, x # s PROVE tile_path'[x] = tile_path[x]
  BY <1>a, <1>9, <1>10 DEF Walk
<1>b. Members(unhandled) \subseteq Stubs
  BY <1>a, MembersAreStubs
<1>c. Members(handling) \subseteq Stubs
  BY <1>a, MembersAreStubs
<1>d. Members(ustubs) \subseteq Stubs
  BY <1>a, MembersAreStubs
<1>11. ASSUME NEW t \in Tiles, NEW i \in DOMAIN handling[t]
       PROVE  tile_path'[handling[t][i]][Len(tile_path'[handling[t][i]])] = t
  <2>1. PICK x : x = handling[t][i]
    OBVIOUS
  <2>2. x \in Members(handling)
    BY <1>a, <2>1, Placed
  <2>3. tile_path'[x] = tile_path[x]
    BY <1>8, <1>10, <1>c, <2>2
  <2> QED
    BY <2>1, <2>3 DEF StubsAreHere
<1>12. ASSUME NEW t \in Tiles, NEW i \in DOMAIN unhandled[t]
       PROVE  tile_path'[unhandled[t][i]][Len(tile_path'[unhandled[t][i]])] = t
  <2>1. PICK x : x = unhandled[t][i]
    OBVIOUS
  <2>2. x \in Members(unhandled)
    BY <1>a, <2>1, Placed
  <2>3. tile_path'[x] = tile_path[x]
    BY <1>8, <1>10, <1>b, <2>2
  <2> QED
    BY <2>1, <2>3 DEF StubsAreHere
<1>13. ASSUME NEW other \in Threads, NEW i \in DOMAIN ustubs'[other]
       PROVE  tile_path'[ustubs'[other][i]][Len(tile_path'[ustubs'[other][i]])] = tin'[other]
  <2>1. PICK x : x = ustubs'[other][i]
    OBVIOUS
  <2>2. x \in Members(ustubs')
    <3>1. PICK f2 : f2 = ustubs'
      OBVIOUS
    <3>2. DOMAIN f2 = Threads /\ i \in DOMAIN f2[other] /\ x = f2[other][i]
      BY <1>a, <2>1, <3>1
    <3>3. x \in Members(f2)
      BY <3>2, Placed
    <3> QED
      BY <3>1, <3>3
  <2>3. tile_path'[x] = tile_path[x]
    BY <1>7, <1>10, <1>d, <2>2
  <2>4. PICK j \in DOMAIN ustubs[other] : x = ustubs[other][j]
    <3>1. CASE other = th
      <4>1. PICK q \in Seq(Stubs) : q = ustubs[th]
        BY <1>a
      <4>2. q # << >> /\ i \in DOMAIN Tail(q) /\ x = Tail(q)[i]
        BY <1>a, <1>1, <2>1, <3>1, <4>1
      <4>3. i + 1 \in DOMAIN q /\ x = q[i + 1]
        BY <4>2
      <4> QED
        BY <3>1, <4>1, <4>3
    <3>2. CASE other # th
      BY <1>a, <1>1, <2>1, <3>2
    <3> QED
      BY <3>1, <3>2
  <2> QED
    BY <1>1, <2>1, <2>3, <2>4 DEF StubsAreHere
<1>14. CASE /\ u \in Tiles /\ Walk(s, u)
            /\ unhandled' = [unhandled EXCEPT ![u] = Append(@, s)]
            /\ stub_router_count' = stub_router_count
  <2>0. unhandled'[u] = Append(unhandled[u], s) /\ \A t \in Tiles \ {u} : unhandled'[t] = unhandled[t]
    BY <1>a, <1>14
  <2>1. Distinct(unhandled') /\ Members(unhandled') = Members(unhandled) \cup {s}
    <3>1. PICK f2 : f2 = unhandled'
      OBVIOUS
    <3>2. Changed(f2, unhandled, u, Append(unhandled[u], s))
      BY <1>a, <2>0, <3>1 DEF Changed
    <3>3. Vectors(unhandled, Tiles) /\ Vectors(f2, Tiles)
      BY <1>a, <3>1 DEF Vectors
    <3>4. Distinct(f2) /\ Members(f2) = Members(unhandled) \cup {s}
      BY <1>6, <1>7, <1>8, <1>14, <3>2, <3>3, AppendNew
    <3> QED
      BY <3>1, <3>4
  <2>2. Live' = Live
    BY <1>1, <1>7, <2>1 DEF Live
  <2>3. OncePlaced'
    <3>1. Members(handling)' = Members(handling) /\ Distinct(handling)'
      BY <1>1, <1>6
    <3>2. stub_router_count' = Cardinality(Live')
      BY <1>6, <1>14, <2>2
    <3>3. /\ Members(unhandled') \cap Members(handling) = {}
          /\ Members(unhandled') \cap Members(ustubs') = {}
          /\ Members(handling) \cap Members(ustubs') = {}
      BY <1>6, <1>7, <1>8, <2>1
    <3> QED
      BY <1>7, <2>1, <3>1, <3>2, <3>3 DEF OncePlaced
  <2>4. ASSUME NEW t \in Tiles, NEW i \in DOMAIN unhandled'[t]
        PROVE  tile_path'[unhandled'[t][i]][Len(tile_path'[unhandled'[t][i]])] = t
    <3>1. CASE t = u
      <4>1. PICK q \in Seq(Stubs) : q = unhandled[u]
        BY <1>a, <1>14
      <4>2. i \in 1..(Len(q) + 1) /\ unhandled'[t][i] = Append(q, s)[i]
        BY <1>7, <2>0, <3>1, <4>1
      <4>3. CASE i = Len(q) + 1
        <5>1. unhandled'[t][i] = s
          BY <4>2, <4>3
        <5>2. PICK p \in Seq(Tiles) : p = tile_path[s]
          BY <1>a, <1>7
        <5>3. tile_path'[s] = Append(p, u)
          BY <1>a, <1>7, <1>14, <5>2 DEF Walk
        <5>4. Append(p, u)[Len(Append(p, u))] = u
          BY <1>14, <5>2
        <5> QED
          BY <3>1, <5>1, <5>3, <5>4
      <4>4. CASE i \in 1..Len(q)
        <5>1. i \in DOMAIN q /\ unhandled'[t][i] = q[i]
          BY <4>2, <4>4
        <5> QED
          BY <1>12, <3>1, <4>1, <5>1
      <4> QED
        BY <4>1, <4>2, <4>3, <4>4
    <3>2. CASE t # u
      BY <1>12, <2>0, <3>2
    <3> QED
      BY <3>1, <3>2
  <2>5. StubsAreHere'
    BY <1>1, <1>11, <1>13, <2>4 DEF StubsAreHere
  <2>6. stub_router_count' # stub_router_count - 1
    <3>1. stub_router_count \in Nat
      BY <1>0, <1>6, LiveIsFinite, FS_CardinalityType
    <3> QED
      BY <1>14, <3>1
  <2>7. s \in Live
    BY <1>7 DEF Live
  <2> QED
    BY <1>3, <1>7, <1>14, <2>2, <2>3, <2>5, <2>6, <2>7
<1>15. CASE unhandled' = unhandled /\ stub_router_count' = stub_router_count - 1
  <2>1. Live' = Live \ {s} /\ s \in Live
    BY <1>1, <1>7, <1>8, <1>15 DEF Live
  <2>2. Cardinality(Live \ {s}) = Cardinality(Live) - 1
    BY <1>0, <2>1, LiveIsFinite, FS_RemoveElement
  <2>3. OncePlaced'
    <3>1. /\ Members(handling)' = Members(handling) /\ Distinct(handling)'
          /\ Members(unhandled)' = Members(unhandled) /\ Distinct(unhandled)'
      BY <1>1, <1>6, <1>15
    <3>2. stub_router_count' = Cardinality(Live')
      BY <1>6, <1>15, <2>1, <2>2
    <3>3. /\ Members(unhandled) \cap Members(ustubs') = {}
          /\ Members(handling) \cap Members(ustubs') = {}
      BY <1>6, <1>7
    <3> QED
      BY <1>6, <1>7, <3>1, <3>2, <3>3 DEF OncePlaced
  <2>4. StubsAreHere'
    BY <1>1, <1>11, <1>12, <1>13, <1>15 DEF StubsAreHere
  <2>5. stub_router_count' # stub_router_count
    <3>1. stub_router_count \in Nat
      BY <1>0, <1>6, LiveIsFinite, FS_CardinalityType
    <3> QED
      BY <1>15, <3>1
  <2> QED
    BY <1>3, <1>7, <2>1, <2>3, <2>4, <2>5
<1> QED
  BY <1>9, <1>14, <1>15

LEMMA OnceNext ==
  ASSUME RoundInv, RoundInv', OncePlaced, StubsAreHere, [Next]_vars
  PROVE  OncePlaced' /\ StubsAreHere'
<1> USE DEF shared, routers
<1>0. Base /\ Base' /\ pc \in [Threads -> Labels] /\ tin \in [Threads -> Nat]
  BY DEF RoundInv, Base, ThreadInv, Barrier
<1>e. ASSUME NEW th \in Threads, Thread(th)
      PROVE  \A other \in Threads \ {th} : tin'[other] = tin[other]
  BY <1>0, <1>e, OthersStay
<1>f. ASSUME NEW th \in Threads, Thread(th), pc[th] # "stubs" \/ ustubs[th] = << >>,
             UNCHANGED <<unhandled, handling, ustubs, stub_router_count, tile_path>>
      PROVE  OncePlaced' /\ StubsAreHere'
  <2>1. ustubs[th] = << >>
    BY <1>0, <1>f DEF Base
  <2>2. \A other \in Threads \ {th} : tin'[other] = tin[other]
    BY <1>e, <1>f
  <2>3. OncePlaced'
    BY <1>f, OnceUnchanged
  <2>4. StubsAreHere'
    BY <1>f, <2>1, <2>2, HereUnchanged
  <2> QED
    BY <2>3, <2>4
<1>1. ASSUME NEW th \in Threads, EnterRound(th) PROVE OncePlaced' /\ StubsAreHere'
  BY <1>1, <1>f DEF EnterRound, Runs, Thread
<1>2. ASSUME NEW th \in Threads, Reset(th) PROVE OncePlaced' /\ StubsAreHere'
  BY <1>2, <1>f DEF Reset, Runs, Thread
<1>3. ASSUME NEW th \in Threads, StartMoving(th) PROVE OncePlaced' /\ StubsAreHere'
  BY <1>3, <1>f DEF StartMoving, Runs, Thread
<1>4. ASSUME NEW th \in Threads, CountStubs(th) PROVE OncePlaced' /\ StubsAreHere'
  BY <1>4, <1>f DEF CountStubs, Runs, Thread
<1>5. ASSUME NEW th \in Threads, HandleOutNets(th) PROVE OncePlaced' /\ StubsAreHere'
  BY <1>0, <1>5, OnceOfHandle
<1>6. ASSUME NEW th \in Threads, StartRouting(th) PROVE OncePlaced' /\ StubsAreHere'
  BY <1>6, <1>f DEF StartRouting, Runs, Thread
<1>7. ASSUME NEW th \in Threads, TakeStubs(th) PROVE OncePlaced' /\ StubsAreHere'
  BY <1>0, <1>7, OnceOfTake
<1>8. ASSUME NEW th \in Threads, RouteStub(th) PROVE OncePlaced' /\ StubsAreHere'
  BY <1>0, <1>8, OnceOfRoute
<1>9. ASSUME NEW th \in Threads, NextTile(th) PROVE OncePlaced' /\ StubsAreHere'
  BY <1>9, <1>f DEF NextTile, Runs, Thread
<1>10. ASSUME NEW th \in Threads, EndRound(th) PROVE OncePlaced' /\ StubsAreHere'
  BY <1>10, <1>f DEF EndRound, Runs, Thread
<1>11. ASSUME NEW th \in Threads, Check(th) PROVE OncePlaced' /\ StubsAreHere'
  BY <1>11, <1>f DEF Check, Runs, Thread
<1>12. CASE Joined \/ UNCHANGED vars
  BY <1>12 DEF Joined, vars, OncePlaced, Live, StubsAreHere
<1> QED
  BY <1>1, <1>2, <1>3, <1>4, <1>5, <1>6, <1>7, <1>8, <1>9, <1>10, <1>11,
     <1>12 DEF Next, Thread

ConservationInv == RoundInv /\ OncePlaced /\ StubsAreHere

LEMMA ConservationInvariant == Spec => []ConservationInv
<1>1. Init => ConservationInv
  BY InitInv, RoundInit, OnceInit DEF ConservationInv, RoundInv
<1>2. ConservationInv /\ [Next]_vars /\ RoundInv' => ConservationInv'
  BY OnceNext DEF ConservationInv
<1> QED
  BY <1>1, <1>2, RoundInvariant, PTL DEF Spec

(* Every variable has its type; the counter of the stubs that are not      *)
(* finished never wraps below 0. *)
THEOREM TypeCorrect == Spec => []TypeOK
<1>1. ConservationInv => TypeOK
  <2> SUFFICES ASSUME ConservationInv PROVE TypeOK
    OBVIOUS
  <2>1. Base /\ Barrier /\ stub_router_count = Cardinality(Live)
    BY DEF ConservationInv, RoundInv, ThreadInv, OncePlaced
  <2>2. stub_router_count \in Nat
    BY <2>1, LiveIsFinite, FS_CardinalityType
  <2>3. tile_path \in [Stubs -> Seq(Tiles)]
    BY <2>1 DEF Base
  <2> QED
    BY <2>1, <2>2, <2>3 DEF TypeOK, Base, Barrier
<1> QED
  BY <1>1, ConservationInvariant, PTL

(* No stub is lost, handled twice, or handled at a tile its path does not  *)
(* end at, and the threads end only when none is left. *)
THEOREM StubsAreConserved == Spec => []EachStubOnce
<1>1. ConservationInv => EachStubOnce
  <2> SUFFICES ASSUME ConservationInv PROVE EachStubOnce
    OBVIOUS
  <2>0. /\ ThreadInv /\ Barrier /\ Base /\ QuietEnd
        /\ OncePlaced /\ StubsAreHere
    BY DEF ConservationInv, RoundInv, ThreadInv
  <2>1. ASSUME NEW th \in Threads, pc[th] = "exit" PROVE stub_router_count = 0
    <3>1. th \notin waiting
      BY <2>0, <2>1, Phases DEF Barrier, InPhase, Entry
    <3>2. stubs_to_handle = 0
      BY <2>0, <2>1 DEF ThreadInv, Seen
    <3>3. Nothing
      BY <2>0, <2>1, <3>1, <3>2 DEF QuietEnd
    <3>4. DOMAIN unhandled = Tiles /\ DOMAIN handling = Tiles /\ DOMAIN ustubs = Threads
      BY <2>0 DEF Base
    <3>5. Members(unhandled) = {}
      BY <3>3, <3>4, NoMembers DEF Nothing
    <3>6. Members(handling) = {}
      BY <3>3, <3>4, NoMembers DEF Nothing
    <3>7. Members(ustubs) = {}
      BY <3>3, <3>4, NoMembers DEF Nothing
    <3>8. Live = {}
      BY <3>5, <3>6, <3>7 DEF Live
    <3> QED
      BY <2>0, <3>8, FS_EmptySet DEF OncePlaced
  <2> QED
    BY <2>0, <2>1 DEF EachStubOnce, NothingLeft
<1> QED
  BY <1>1, ConservationInvariant, PTL

-----------------------------------------------------------------------------
(* What a stub walks is what it walks alone. *)

Last(path) == path[Len(path)]

\* The most steps a stub makes
Steps == TileCount + 3

\* The paths of stub s, alone, after each number of steps
IsRun(s, run) ==
  run = [n \in 0..Steps |-> IF n = 0 THEN << StartTile[s] >> ELSE Onward(s, run[n - 1])]

LEMMA RunExists ==
  ASSUME NEW s \in Stubs
  PROVE  \E run : IsRun(s, run)
<1> DEFINE Good(n, run) ==
             run = [k \in 0..n |-> IF k = 0 THEN << StartTile[s] >> ELSE Onward(s, run[k - 1])]
           Bad == {n \in Nat : ~\E run : Good(n, run)}
<1>0. Steps \in Nat
  BY GroupAssumption DEF Steps
<1>1. SUFFICES Bad = {}
  <2>1. Steps \notin Bad
    BY <1>1
  <2>2. \E run : Good(Steps, run)
    BY <1>0, <2>1
  <2> QED
    BY <2>2 DEF IsRun
<1>2. SUFFICES ASSUME Bad # {} PROVE FALSE
  OBVIOUS
<1>3. PICK n \in Bad : \A m \in Bad : n <= m
  <2>1. Bad \subseteq Nat
    OBVIOUS
  <2> HIDE DEF Bad
  <2> QED
    BY <1>2, <2>1, LeastNat
<1>4. CASE n = 0
  <2>1. Good(0, [k \in 0..0 |-> << StartTile[s] >>])
    OBVIOUS
  <2> QED
    BY <1>4, <2>1
<1>5. CASE n # 0
  <2>1. n - 1 \in Nat /\ n - 1 \notin Bad
    <3> HIDE DEF Good
    <3> QED
      BY <1>3, <1>5
  <2>2. PICK run : Good(n - 1, run)
    BY <2>1
  <2> DEFINE next == [k \in 0..n |-> IF k = n THEN Onward(s, run[n - 1]) ELSE run[k]]
  <2>3. ASSUME NEW k \in 0..n
        PROVE  next[k] = IF k = 0 THEN << StartTile[s] >> ELSE Onward(s, next[k - 1])
    <3>1. CASE k = n
      BY <3>1, <1>5, <2>1
    <3>2. CASE k # n
      <4>1. k \in 0..(n - 1)
        BY <3>2, <2>1
      <4>2. run[k] = IF k = 0 THEN << StartTile[s] >> ELSE Onward(s, run[k - 1])
        BY <4>1, <2>2
      <4>3. CASE k = 0
        BY <4>3, <4>2, <3>2
      <4>4. CASE k # 0
        <5>1. next[k] = run[k] /\ next[k - 1] = run[k - 1]
          BY <4>1, <4>4, <3>2
        <5> QED
          BY <5>1, <4>2, <4>4
      <4> QED
        BY <4>3, <4>4
    <3> QED
      BY <3>1, <3>2
  <2>4. next = [k \in 0..n |-> next[k]]
    OBVIOUS
  <2> HIDE DEF next
  <2>5. Good(n, next)
    BY <2>3, <2>4
  <2> QED
    BY <2>5
<1> QED
  BY <1>4, <1>5

LEMMA AloneIs ==
  ASSUME NEW s \in Stubs
  PROVE  \E run : IsRun(s, run) /\ Alone(s) = run[Steps]
<1>1. IsRun(s, CHOOSE run : IsRun(s, run))
  BY RunExists
<1>2. Alone(s) = (CHOOSE run : IsRun(s, run))[Steps]
  BY DEF Alone, IsRun, Steps
<1> QED
  BY <1>1, <1>2

(* The step that route_tile_stub makes is the one it makes alone. *)
LEMMA StepIsOnward ==
  ASSUME NEW s \in Stubs, NEW t \in Tiles, tile_path[s] \in Seq(Tiles) \ {<< >>},
         Last(tile_path[s]) = t,
         Len(tile_path[s]) > 1 => t # Source[s] /\ current_distance[s] = Distance[Source[s]][t]
  PROVE  Onward(s, tile_path[s]) =
           IF Choices(s, t) = {} \/ Further(s, BestTile(s, t))
           THEN tile_path[s] ELSE Append(tile_path[s], BestTile(s, t))
<1> DEFINE path == tile_path[s]
           ways == (IF Len(path) = 1 THEN FirstTiles[s] ELSE << >>) \o PipTiles[t]
           far(u) == Distance[Source[s]][u]
           open == {i \in DOMAIN ways : /\ ways[i] # t
                                        /\ ways[i] = Source[s] \/ ways[i] \notin Closed}
           nearest == {i \in open : \A j \in open : far(ways[i]) <= far(ways[j])}
           best == CHOOSE i \in nearest : \A j \in nearest : i <= j
<1>1. Onward(s, path) = IF \/ open = {}
                           \/ Len(path) > 1 /\ t = Source[s]
                           \/ Len(path) > 3 /\ far(ways[best]) >= far(t)
                        THEN path ELSE Append(path, ways[best])
  BY DEF Onward, Last
<1>2. ways = Scanned(s, t)
  BY DEF Scanned
<1>3. open = Choices(s, t)
  BY <1>2 DEF Choices
<1>4. CASE open = {}
  BY <1>1, <1>3, <1>4
<1>5. CASE open # {}
  <2>1. PICK i \in open : /\ BestTile(s, t) = ways[i]
                          /\ \A j \in open : \/ far(ways[i]) < far(ways[j])
                                             \/ far(ways[i]) = far(ways[j]) /\ i <= j
    <3>1. Choices(s, t) # {}
      BY <1>3, <1>5
    <3>2. \E i \in Choices(s, t) :
            /\ BestTile(s, t) = Scanned(s, t)[i]
            /\ \A j \in Choices(s, t) :
                 \/ far(Scanned(s, t)[i]) < far(Scanned(s, t)[j])
                 \/ far(Scanned(s, t)[i]) = far(Scanned(s, t)[j]) /\ i <= j
      BY <3>1, BestIsTile
    <3> HIDE DEF ways, far, open
    <3> QED
      BY <1>2, <1>3, <3>2
  <2>2. \A j \in open : j \in Nat /\ far(ways[j]) \in Nat
    <3>1. ways \in Seq(Tiles)
      <4>1. FirstTiles[s] \in Seq(Tiles) /\ PipTiles[t] \in Seq(Tiles) /\ << >> \in Seq(Tiles)
        BY StubAssumption
      <4>2. ASSUME NEW a \in Seq(Tiles), NEW b \in Seq(Tiles) PROVE a \o b \in Seq(Tiles)
        OBVIOUS
      <4> QED
        BY <4>1, <4>2
    <3>2. Source[s] \in Tiles
      BY StubAssumption
    <3> HIDE DEF ways
    <3>3. \A j \in DOMAIN ways : j \in Nat /\ ways[j] \in Tiles
      BY <3>1
    <3>4. \A u \in Tiles : Distance[Source[s]][u] \in Nat
      BY <3>2, DistanceAssumption
    <3>5. \A j \in open : j \in DOMAIN ways
      BY DEF open
    <3>6. \A u : far(u) = Distance[Source[s]][u]
      BY DEF far
    <3> QED
      BY <3>3, <3>4, <3>5, <3>6
  <2> HIDE DEF ways, far, open
  <2>3. i \in nearest /\ \A j \in nearest : i <= j
    BY <2>1, <2>2
  <2>4. \A j \in nearest : (\A k \in nearest : j <= k) => j = i
    BY <2>2, <2>3
  <2>5. best = i
    <3> HIDE DEF nearest
    <3> QED
      BY <2>3, <2>4
  <2> HIDE DEF best, nearest
  <2>6. far(ways[best]) = Distance[Source[s]][BestTile(s, t)]
    BY <2>1, <2>5 DEF far
  <2>7. Len(path) > 3 => current_distance[s] = far(t)
    <3>1. Len(path) \in Nat
      OBVIOUS
    <3> QED
      BY <3>1 DEF far
  <2>8. Further(s, BestTile(s, t)) <=> Len(path) > 3 /\ far(ways[best]) >= far(t)
    BY <2>6, <2>7 DEF Further
  <2> QED
    BY <1>1, <1>3, <1>5, <2>1, <2>5, <2>8
<1> QED
  BY <1>4, <1>5

(* From its fourth tile on a stub comes closer with every step. *)
Nears(s, path) ==
  \A i, j \in 4..Len(path) :
    i < j => Distance[Source[s]][path[j]] < Distance[Source[s]][path[i]]

(* So it meets no tile twice then, and its path is short. *)
LEMMA NearingIsShort ==
  ASSUME NEW s \in Stubs, NEW path \in Seq(Tiles), Nears(s, path)
  PROVE  Len(path) <= Steps
<1> DEFINE I == 4..Len(path)
           tile == [i \in I |-> path[i]]
<1>1. Len(path) \in Nat /\ TileCount \in Nat
  BY GroupAssumption
<1>2. CASE Len(path) < 4
  BY <1>1, <1>2 DEF Steps
<1>3. CASE Len(path) >= 4
  <2>1. \A i \in I : path[i] \in Tiles /\ Distance[Source[s]][path[i]] \in Nat
    <3>1. \A i \in I : path[i] \in Tiles
      BY <1>1
    <3>2. Source[s] \in Tiles
      BY StubAssumption
    <3>3. \A t \in Tiles : Distance[Source[s]][t] \in Nat
      BY <3>2, DistanceAssumption
    <3> HIDE DEF I, tile
    <3> QED
      BY <3>1, <3>3
  <2>2. tile \in Injection(I, Tiles)
    <3>1. tile \in [I -> Tiles]
      BY <2>1
    <3>2. ASSUME NEW i \in I, NEW j \in I, tile[i] = tile[j] PROVE i = j
      <4>1. ~(i < j) /\ ~(j < i)
        BY <2>1, <3>2 DEF Nears
      <4> QED
        BY <1>1, <4>1
    <3> QED
      BY <3>1, <3>2 DEF Injection, IsInjective
  <2>3. IsFiniteSet(I) /\ Cardinality(I) = Len(path) - 3
    BY <1>1, <1>3, FS_Interval
  <2>4. IsFiniteSet(Tiles) /\ Cardinality(Tiles) = TileCount
    BY <1>1, FS_Interval DEF Tiles
  <2>5. Cardinality(I) <= Cardinality(Tiles)
    <3> HIDE DEF I, tile
    <3> QED
      BY <2>2, <2>3, <2>4, FS_Injection
  <2> QED
    BY <1>1, <2>3, <2>4, <2>5 DEF Steps
<1> QED
  BY <1>1, <1>2, <1>3

-----------------------------------------------------------------------------
(* The invariant of a stub: it is as far on its way alone as its path is   *)
(* long, and if it is nowhere, it has come to the end. *)

Way(s) == CHOOSE run : IsRun(s, run)

LEMMA WayIs ==
  ASSUME NEW s \in Stubs
  PROVE  /\ Way(s)[0] = << StartTile[s] >>
         /\ \A n \in 1..Steps : Way(s)[n] = Onward(s, Way(s)[n - 1])
<1>1. IsRun(s, Way(s))
  BY RunExists DEF Way
<1>2. Steps \in Nat
  BY GroupAssumption DEF Steps
<1>3. PICK run : run = Way(s)
  OBVIOUS
<1>4. run = [n \in 0..Steps |-> IF n = 0 THEN << StartTile[s] >> ELSE Onward(s, run[n - 1])]
  BY <1>1, <1>3 DEF IsRun
<1>5. \A n \in 0..Steps : run[n] = IF n = 0 THEN << StartTile[s] >> ELSE Onward(s, run[n - 1])
  BY <1>4
<1>6. run[0] = << StartTile[s] >>
  BY <1>2, <1>5
<1>7. ASSUME NEW n \in 1..Steps PROVE run[n] = Onward(s, run[n - 1])
  BY <1>2, <1>5
<1> QED
  BY <1>3, <1>6, <1>7

OnItsWay(s) ==
  /\ tile_path[s] = Way(s)[Len(tile_path[s]) - 1]
  /\ Len(tile_path[s]) > 1 => current_distance[s] = Distance[Source[s]][Last(tile_path[s])]
  /\ s \in Live /\ Len(tile_path[s]) > 1 => Last(tile_path[s]) # Source[s]
  /\ s \in Live \/ Onward(s, tile_path[s]) = tile_path[s]
  /\ Nears(s, tile_path[s])

PathInv == \A s \in Stubs : OnItsWay(s)

LEMMA PathUnchanged ==
  ASSUME NEW s \in Stubs, OnItsWay(s), tile_path'[s] = tile_path[s],
         current_distance'[s] = current_distance[s],
         s \in Live' <=> s \in Live
  PROVE  OnItsWay(s)'
BY DEF OnItsWay

LEMMA PathOfRoute ==
  ASSUME RoundInv, OncePlaced, StubsAreHere, PathInv,
         NEW th \in Threads, RouteStub(th), Base'
  PROVE  PathInv'
<1> USE DEF shared, routers
<1>0. Base
  BY DEF RoundInv
<1>a. /\ tin \in [Threads -> Nat] /\ ustubs \in [Threads -> Seq(Stubs)]
      /\ tile_path \in [Stubs -> Seq(Tiles) \ {<< >>}] /\ current_distance \in [Stubs -> Nat]
  BY <1>0 DEF Base
<1>1. pc[th] = "stubs" /\ ustubs[th] # << >>
  BY DEF RouteStub, Runs
<1>2. tin[th] \in Tiles
  <2>1. tin[th] < TileCount /\ tin[th] \in Nat
    BY <1>0, <1>a, <1>1 DEF Base
  <2> QED
    BY <2>1, GroupAssumption DEF Tiles
<1>3. PICK s : s = Head(ustubs[th])
  OBVIOUS
<1>4. PICK u : u = BestTile(s, tin[th])
  OBVIOUS
<1>5. /\ s \in Stubs /\ s \in Live /\ Live' \in {Live, Live \ {s}}
      /\ stub_router_count' = stub_router_count => Live' = Live
      /\ stub_router_count' = stub_router_count - 1 => Live' = Live \ {s}
  BY <1>3, OnceOfRoute
<1>6. PICK path \in Seq(Tiles) \ {<< >>} : path = tile_path[s]
  BY <1>a, <1>5
<1>7. Last(path) = tin[th]
  <2>1. 1 \in DOMAIN ustubs[th] /\ s = ustubs[th][1]
    BY <1>a, <1>1, <1>3
  <2> QED
    BY <1>6, <2>1 DEF StubsAreHere, Last
<1>8. /\ path = Way(s)[Len(path) - 1] /\ Nears(s, path)
      /\ Len(path) > 1 => tin[th] # Source[s]
      /\ Len(path) > 1 => current_distance[s] = Distance[Source[s]][tin[th]]
  BY <1>5, <1>6, <1>7 DEF PathInv, OnItsWay
<1>9. Onward(s, path) = IF Choices(s, tin[th]) = {} \/ Further(s, u)
                        THEN path ELSE Append(path, u)
  BY <1>2, <1>4, <1>5, <1>6, <1>7, <1>8, StepIsOnward
<1>10. ASSUME NEW x \in Stubs, x # s,
              \A y \in Stubs \ {s} : /\ tile_path'[y] = tile_path[y]
                                     /\ current_distance'[y] = current_distance[y]
       PROVE  OnItsWay(x)'
  BY <1>5, <1>10, PathUnchanged DEF PathInv
<1>11. CASE Onward(s, path) = path /\ Stop(s, tin[th])
  <2>1. tile_path' = tile_path /\ current_distance' = current_distance
    BY <1>11 DEF Stop
  <2>2. OnItsWay(s)'
    BY <1>5, <1>6, <1>11, <2>1 DEF PathInv, OnItsWay
  <2> QED
    BY <1>10, <2>1, <2>2 DEF PathInv
<1>12. CASE /\ Choices(s, tin[th]) # {} /\ ~Further(s, u)
            /\ Walk(s, u)
            /\ (u # Source[s] /\ Live' = Live) \/ (u = Source[s] /\ Live' = Live \ {s})
  <2>1. u \in Tiles
    BY <1>2, <1>4, <1>5, <1>12, BestIsTile
  <2>2. PICK next \in Seq(Tiles) \ {<< >>} : next = Append(path, u)
    <3>1. Append(path, u) \in Seq(Tiles)
      BY <1>6, <2>1
    <3>2. Len(Append(path, u)) = Len(path) + 1 /\ Len(path) \in Nat
      BY <1>6, <2>1
    <3>3. Append(path, u) # << >>
      BY <3>2
    <3> QED
      BY <3>1, <3>3
  <2>3. /\ Len(path) \in Nat \ {0} /\ Len(next) = Len(path) + 1 /\ Last(next) = u
        /\ \A i \in 1..Len(path) : next[i] = path[i]
    BY <1>6, <2>1, <2>2 DEF Last
  <2>4. /\ tile_path'[s] = next /\ current_distance'[s] = Distance[Source[s]][u]
        /\ \A y \in Stubs \ {s} : /\ tile_path'[y] = tile_path[y]
                                  /\ current_distance'[y] = current_distance[y]
    BY <1>a, <1>5, <1>6, <1>12, <2>2 DEF Walk
  <2>5. Onward(s, path) = next
    BY <1>9, <1>12, <2>2
  <2>6. next = Way(s)[Len(next) - 1]
    <3>1. Len(path) <= Steps /\ Steps \in Nat
      BY <1>6, <1>5, <1>8, NearingIsShort, GroupAssumption DEF Steps
    <3>2. Way(s)[Len(path)] = Onward(s, Way(s)[Len(path) - 1])
      BY <1>5, <2>3, <3>1, WayIs
    <3> QED
      BY <1>8, <2>3, <2>5, <3>2
  <2>7. Nears(s, next)
    <3> DEFINE far(t) == Distance[Source[s]][t]
    <3>1. \A t \in Tiles : far(t) \in Nat
      BY <1>5, StubAssumption, DistanceAssumption
    <3>2. \A i \in 1..Len(next) : next[i] \in Tiles
      BY <2>2
    <3>3. Len(path) > 3 => far(u) < far(Last(path))
      BY <1>6, <1>7, <1>8, <1>12, <1>2, <2>1, <3>1 DEF Further
    <3>4. ASSUME NEW i \in 4..Len(next), NEW j \in 4..Len(next), i < j
          PROVE  far(next[j]) < far(next[i])
      <4>1. i \in 4..Len(path) /\ next[i] = path[i]
        BY <2>3, <3>4
      <4>2. CASE j \in 4..Len(path)
        <5>1. next[j] = path[j]
          BY <2>3, <4>2
        <5> QED
          BY <1>8, <3>4, <4>1, <4>2, <5>1 DEF Nears
      <4>3. CASE j = Len(next)
        <5>1. next[j] = u /\ Len(path) > 3
          BY <2>3, <4>1, <4>3 DEF Last
        <5>2. CASE i = Len(path)
          BY <3>3, <4>1, <5>1, <5>2 DEF Last
        <5>3. CASE i # Len(path)
          <6>1. far(path[Len(path)]) < far(path[i])
            BY <1>8, <2>3, <4>1, <5>1, <5>3 DEF Nears
          <6>2. path[Len(path)] \in Tiles /\ path[i] \in Tiles
            BY <1>6, <2>3, <4>1
          <6>3. far(u) < far(path[Len(path)])
            BY <3>3, <5>1 DEF Last
          <6>4. far(u) \in Nat /\ far(path[Len(path)]) \in Nat /\ far(path[i]) \in Nat
            BY <2>1, <3>1, <6>2
          <6> HIDE DEF far
          <6> QED
            BY <4>1, <5>1, <6>1, <6>3, <6>4
        <5> QED
          BY <5>2, <5>3
      <4> QED
        BY <2>3, <4>2, <4>3
    <3> QED
      BY <3>4 DEF Nears
  <2>8. s \in Live' \/ Onward(s, next) = next
    <3>1. CASE u # Source[s] /\ Live' = Live
      BY <1>5, <3>1
    <3>2. CASE u = Source[s]
      <4>1. Len(next) > 1 /\ next[Len(next)] = Source[s]
        BY <2>3, <3>2 DEF Last
      <4> QED
        BY <4>1 DEF Onward
    <3> QED
      BY <1>12, <3>1, <3>2
  <2>9. s \in Live' /\ Len(next) > 1 => Last(next) # Source[s]
    BY <1>12, <2>3
  <2>10. OnItsWay(s)'
    BY <2>3, <2>4, <2>6, <2>7, <2>8, <2>9 DEF OnItsWay
  <2> QED
    BY <1>10, <2>4, <2>10 DEF PathInv
<1> QED
  BY <1>3, <1>4, <1>5, <1>6, <1>9, <1>11, <1>12 DEF RouteStub, Stop, Hop, Finish

LEMMA PathInit == Init => PathInv
<1> SUFFICES ASSUME Init, NEW s \in Stubs PROVE OnItsWay(s)
  BY DEF PathInv
<1>1. /\ unhandled \in Placements /\ tile_path[s] = << StartTile[s] >>
  BY DEF Init
<1>2. /\ Len(tile_path[s]) = 1 /\ ~(Len(tile_path[s]) > 1)
      /\ Len(tile_path[s]) - 1 = 0 /\ 4..Len(tile_path[s]) = {}
  BY <1>1
<1>3. Way(s)[0] = tile_path[s]
  BY <1>1, WayIs
<1>4. s \in Live
  <2>1. PICK t \in Tiles : t = StartTile[s]
    BY StubAssumption
  <2>2. /\ unhandled \in [Tiles -> Seq(Stubs)]
        /\ {unhandled[t][i] : i \in DOMAIN unhandled[t]} = {x \in Stubs : StartTile[x] = t}
    BY <1>1, <2>1, StubAssumption
  <2>3. PICK i \in DOMAIN unhandled[t] : unhandled[t][i] = s
    BY <2>1, <2>2
  <2>4. s \in Members(unhandled)
    BY <2>2, <2>3, Placed
  <2> QED
    BY <2>4 DEF Live
<1>5. Nears(s, tile_path[s])
  BY <1>2 DEF Nears
<1>6. tile_path[s] = Way(s)[Len(tile_path[s]) - 1]
  BY <1>2, <1>3
<1> QED
  BY <1>2, <1>4, <1>5, <1>6 DEF OnItsWay

LEMMA PathNext ==
  ASSUME RoundInv, RoundInv', OncePlaced, StubsAreHere, PathInv, [Next]_vars
  PROVE  PathInv'
<1> USE DEF shared, routers
<1>0. Base'
  BY DEF RoundInv
<1>a. ASSUME UNCHANGED <<tile_path, current_distance>>, Live' = Live PROVE PathInv'
  BY <1>a, PathUnchanged DEF PathInv
<1>b. ASSUME UNCHANGED <<unhandled, handling, ustubs, tile_path, current_distance>>
      PROVE  PathInv'
  <2>1. Live' = Live
    BY <1>b DEF Live
  <2> QED
    BY <1>a, <1>b, <2>1
<1>1. ASSUME NEW th \in Threads, EnterRound(th) PROVE PathInv'
  BY <1>1, <1>b DEF EnterRound
<1>2. ASSUME NEW th \in Threads, Reset(th) PROVE PathInv'
  BY <1>2, <1>b DEF Reset
<1>3. ASSUME NEW th \in Threads, StartMoving(th) PROVE PathInv'
  BY <1>3, <1>b DEF StartMoving
<1>4. ASSUME NEW th \in Threads, CountStubs(th) PROVE PathInv'
  BY <1>4, <1>b DEF CountStubs
<1>5. ASSUME NEW th \in Threads, HandleOutNets(th) PROVE PathInv'
  <2>1. Live' = Live
    BY <1>0, <1>5, OnceOfHandle
  <2> QED
    BY <1>5, <1>a, <2>1 DEF HandleOutNets
<1>6. ASSUME NEW th \in Threads, StartRouting(th) PROVE PathInv'
  BY <1>6, <1>b DEF StartRouting
<1>7. ASSUME NEW th \in Threads, TakeStubs(th) PROVE PathInv'
  <2>1. Live' = Live
    BY <1>0, <1>7, OnceOfTake
  <2> QED
    BY <1>7, <1>a, <2>1 DEF TakeStubs
<1>8. ASSUME NEW th \in Threads, RouteStub(th) PROVE PathInv'
  BY <1>0, <1>8, PathOfRoute
<1>9. ASSUME NEW th \in Threads, NextTile(th) PROVE PathInv'
  BY <1>9, <1>b DEF NextTile
<1>10. ASSUME NEW th \in Threads, EndRound(th) PROVE PathInv'
  BY <1>10, <1>b DEF EndRound
<1>11. ASSUME NEW th \in Threads, Check(th) PROVE PathInv'
  BY <1>11, <1>b DEF Check
<1>12. CASE Joined \/ UNCHANGED vars
  BY <1>12, <1>b DEF Joined, vars
<1> QED
  BY <1>1, <1>2, <1>3, <1>4, <1>5, <1>6, <1>7, <1>8, <1>9, <1>10, <1>11,
     <1>12 DEF Next, Thread

(* Once a stub makes no step alone, it makes none later. *)
LEMMA WayEnds ==
  ASSUME NEW s \in Stubs, NEW path \in Seq(Tiles) \ {<< >>}, Nears(s, path),
         path = Way(s)[Len(path) - 1], Onward(s, path) = path
  PROVE  path = Alone(s)
<1> DEFINE Bad == {n \in (Len(path) - 1)..Steps : Way(s)[n] # path}
<1>1. Len(path) \in Nat \ {0} /\ Steps \in Nat /\ Len(path) <= Steps
  <2>1. Len(path) \in Nat \ {0}
    OBVIOUS
  <2> QED
    BY <2>1, NearingIsShort, GroupAssumption DEF Steps
<1>2. ASSUME Bad # {} PROVE FALSE
  <2>1. Bad \subseteq Nat
    BY <1>1
  <2>2. PICK n \in Bad : \A m \in Bad : n <= m
    <3> HIDE DEF Bad
    <3> QED
      BY <1>2, <2>1, LeastNat
  <2>3. n \in (Len(path) - 1)..Steps /\ Way(s)[n] # path
    BY <2>2
  <2>4. n # Len(path) - 1
    BY <2>3
  <2>5. n - 1 \in (Len(path) - 1)..Steps /\ n \in 1..Steps /\ n - 1 \notin Bad
    <3>1. n - 1 \in (Len(path) - 1)..Steps /\ n \in 1..Steps /\ ~(n <= n - 1)
      BY <1>1, <2>3, <2>4
    <3> HIDE DEF Bad
    <3> QED
      BY <2>2, <3>1
  <2>6. Way(s)[n - 1] = path
    BY <2>5
  <2>7. Way(s)[n] = Onward(s, Way(s)[n - 1])
    BY <2>5, WayIs
  <2> QED
    BY <2>3, <2>6, <2>7
<1>3. Way(s)[Steps] = path
  <2>1. Steps \in (Len(path) - 1)..Steps
    BY <1>1
  <2> QED
    BY <1>2, <2>1
<1>4. Alone(s) = Way(s)[Steps]
  BY DEF Alone, Way, IsRun, Steps
<1> QED
  BY <1>3, <1>4

(* In the end every stub has the path it has alone, in whatever order the  *)
(* threads ran. *)
THEOREM PathsAreAlone == Spec => []PathsAreSequential
<1>1. Init => PathInv
  BY PathInit
<1>2. ConservationInv /\ ConservationInv' /\ PathInv /\ [Next]_vars => PathInv'
  BY PathNext DEF ConservationInv
<1>3. ConservationInv /\ EachStubOnce /\ PathInv => PathsAreSequential
  <2> SUFFICES ASSUME ConservationInv, EachStubOnce, PathInv,
                      \A th \in Threads : pc[th] = "exit",
                      NEW s \in Stubs
               PROVE  tile_path[s] = Alone(s)
    BY DEF PathsAreSequential
  <2>1. 0 \in Threads
    BY GroupAssumption DEF Threads
  <2>2. Cardinality(Live) = 0
    BY <2>1 DEF EachStubOnce, NothingLeft, OncePlaced
  <2>3. Live = {}
    <3>1. IsFiniteSet(Live)
      BY LiveIsFinite DEF ConservationInv, RoundInv
    <3> QED
      BY <2>2, <3>1, FS_EmptySet
  <2>4. OnItsWay(s) /\ Onward(s, tile_path[s]) = tile_path[s]
    BY <2>3 DEF PathInv, OnItsWay
  <2>5. tile_path[s] \in Seq(Tiles) \ {<< >>}
    BY DEF ConservationInv, RoundInv, Base
  <2> QED
    BY <2>4, <2>5, WayEnds DEF OnItsWay
<1> QED
  BY <1>1, <1>2, <1>3, ConservationInvariant, StubsAreConserved, PTL DEF Spec
=============================================================================
