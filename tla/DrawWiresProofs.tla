--------------------------- MODULE DrawWiresProofs ---------------------------
(***************************************************************************)
(* What DrawWires.tla promises, for every graph of tiles, list of stubs,   *)
(* width of the beam, size of a work group, number of steps and of series. *)
(*                                                                         *)
(* ReportInv: the count the host reads is of what the series left          *)
(* undecided, and what a line shows is of one series.  SearchInv: a front  *)
(* is in order and of walks from the stub, and as long as no entry was     *)
(* dropped one of its tiles leads to the source if the stub does.          *)
(***************************************************************************)
EXTENDS DrawWires, FiniteSetTheorems, WellFoundedInduction, TLAPS

USE DEF pairs, graph, vars

-----------------------------------------------------------------------------
(* The items, and those the queue runs. *)

(* The whole groups are no more than the items. *)
LEMMA GroupsFit ==
  ASSUME NEW n \in Nat, NEW group \in Nat \ {0}
  PROVE  group * (n \div group) \in 0..n
<1> DEFINE count == n \div group
<1>1. count \in Nat /\ count * group <= n
  BY SMTT(30)
<1> HIDE DEF count
<1>2. count * group \in Nat /\ group * count = count * group
  BY <1>1, SMTT(30)
<1> QED
  BY <1>1, <1>2 DEF count

(* Only items are run, and there are finitely many. *)
LEMMA RanItems ==
  ASSUME job \in Jobs
  PROVE  IsFiniteSet(Items) /\ Ran \subseteq Items /\ IsFiniteSet(Ran)
<1>1. Len(pairs) \in Nat /\ job.padding \in Nat /\ job.group \in Nat \ {0}
  <2> DEFINE cell == [source : DOMAIN graph, stub : DOMAIN graph] \cup {NoSites}
  <2>1. job.padding \in Nat /\ job.group \in Nat \ {0} /\ pairs \in Seq(cell)
    BY JobsAssumption
  <2> HIDE DEF cell
  <2> QED
    BY <2>1
<1> DEFINE n == Len(pairs) + job.padding
<1>2. n \in Nat /\ Items = 0..(n - 1)
  BY <1>1 DEF Items
<1> HIDE DEF n
<1>3. IsFiniteSet(Items) /\ Cardinality(Items) = n
  BY <1>2, FS_Interval
<1>4. Ran \subseteq Items
  <2> DEFINE run == job.group * (n \div job.group)
  <2>1. run \in 0..n
    BY <1>1, <1>2, GroupsFit
  <2>2. Ran = 0..(run - 1)
    BY <1>3 DEF Ran
  <2> HIDE DEF run
  <2> QED
    BY <1>2, <2>1, <2>2
<1> QED
  BY <1>3, <1>4, FS_Subset
-----------------------------------------------------------------------------
(* The invariants. *)

Undecided == {i \in Ran : drawIndirect[i].state = 0}

\* What a series has finished and left undecided
Left == {i \in Undecided : item[i] = "idle"}

IsLine(line) == Len(line) \in Nat /\ line = [k \in 1..Len(line) |-> line[k]]

Types ==
  /\ job \in Jobs
  /\ host \in {"step", "finish", "drain", "ended", "failed"} /\ series \in Nat
  /\ item \in [Items -> {"idle", "ready", "run"}]
  /\ count_index \in [Items -> 0..CounterMax]
  /\ drawIndirect \in [Items -> [count : Nat, state : 0..2]]
  /\ routed = [i \in Items |-> routed[i]] /\ \A i \in Items : IsLine(routed[i])
  /\ dirty \in Nat /\ filling \in BOOLEAN

\* Nothing runs outside a series, and what runs is not decided yet.
SeriesInv ==
  /\ \A i \in Items : item[i] # "idle" => i \in Ran /\ host = "finish"
  /\ \A i \in Items : item[i] = "run" => drawIndirect[i].state = 0

\* dirty counts the items of this series that were saved, once it was filled; until
\* then all items of the series wait.
DirtyInv == /\ host = "finish" /\ ~filling => dirty = Cardinality(Left)
            /\ host = "finish" /\ filling => \A i \in Ran : item[i] = "ready"
            /\ host # "finish" /\ ~filling => dirty = 0
            /\ EndsDecided

OneSeries(line, shown) == \A k, l \in 1..shown : line[k].series = line[l].series

Shown(i) == drawIndirect[i].count - IF drawIndirect[i].state = 1 THEN 1 ELSE 0

\* The points of an item that runs are of this series, and there is one for each
\* step it made; those of any other are of the series it was last in.
LineInv ==
  \A i \in Items :
    /\ item[i] = "run" =>
         /\ count_index[i] <= Len(routed[i])
         /\ \A k \in 1..count_index[i] : routed[i][k].series = series
         /\ count_index[i] > 0 => drawIndirect[i].count = count_index[i]
    /\ item[i] # "run" =>
         Shown(i) <= Len(routed[i]) /\ OneSeries(routed[i], Shown(i))

ReportInv == Types /\ SeriesInv /\ DirtyInv /\ LineInv

(* The fields of the kernel's writes. *)
LEMMA StepsOfAnItem ==
  ASSUME Types, SeriesInv, NEW i \in Items, Item(i)
  PROVE  /\ UNCHANGED <<job, host, series, host_dirty, filling>>
         /\ \A j \in Items \ {i} : /\ item'[j] = item[j]
                                   /\ count_index'[j] = count_index[j]
                                   /\ drawIndirect'[j] = drawIndirect[j]
                                   /\ routed'[j] = routed[j]
         /\ host = "finish" /\ item[i] # "idle" /\ i \in Ran
BY DEF Types, SeriesInv, Item, Begin, Succeed, RunEmpty, Search, Save, Running, Draw, Route

(* A point set at or before the end of a line leaves it a line. *)
LEMMA SetPointKeepsLines ==
  ASSUME NEW line, IsLine(line), NEW k \in 0..Len(line), NEW tile
  PROVE  /\ IsLine(SetPoint(line, k, tile))
         /\ k + 1 <= Len(SetPoint(line, k, tile)) /\ Len(line) <= Len(SetPoint(line, k, tile))
         /\ SetPoint(line, k, tile)[k + 1].series = series
         /\ \A l \in 1..k : SetPoint(line, k, tile)[l] = line[l]
<1> DEFINE point == [tile |-> tile, series |-> series]
           S == {line[l] : l \in 1..Len(line)} \cup {point}
<1>1. line \in Seq(S) /\ point \in S
  BY DEF IsLine
<1>2. \A m \in Seq(S) : IsLine(m)
  BY DEF IsLine
<1> HIDE DEF S
<1>3. CASE k < Len(line)
  <2>1. SetPoint(line, k, tile) = [line EXCEPT ![k + 1] = point]
    BY <1>3 DEF SetPoint
  <2> HIDE DEF point
  <2>2. [line EXCEPT ![k + 1] = point] \in Seq(S)
    BY <1>1, <1>3
  <2>3. Len([line EXCEPT ![k + 1] = point]) = Len(line)
    BY <1>1, <1>3
  <2>4. [line EXCEPT ![k + 1] = point][k + 1] = point
    BY <1>1, <1>3
  <2>5. \A l \in 1..k : [line EXCEPT ![k + 1] = point][l] = line[l]
    BY <1>1, <1>3
  <2>6. point.series = series
    BY DEF point
  <2>7. IsLine(SetPoint(line, k, tile))
    BY <1>2, <2>1, <2>2
  <2>8. Len(SetPoint(line, k, tile)) = Len(line) /\ k + 1 <= Len(line)
    BY <1>3, <2>1, <2>3 DEF IsLine
  <2>9. SetPoint(line, k, tile)[k + 1].series = series
    BY <2>1, <2>4, <2>6
  <2>10. \A l \in 1..k : SetPoint(line, k, tile)[l] = line[l]
    BY <2>1, <2>5
  <2> QED
    BY <2>7, <2>8, <2>9, <2>10 DEF IsLine
<1>4. CASE k = Len(line)
  <2>1. SetPoint(line, k, tile) = Append(line, point)
    BY <1>1, <1>4 DEF SetPoint
  <2> HIDE DEF point
  <2>2. Append(line, point) \in Seq(S) /\ Len(Append(line, point)) = Len(line) + 1
    BY <1>1
  <2>3. Append(line, point)[k + 1] = point
    BY <1>1, <1>4
  <2>4. \A l \in 1..k : Append(line, point)[l] = line[l]
    BY <1>1, <1>4
  <2>5. point.series = series
    BY DEF point
  <2>6. IsLine(SetPoint(line, k, tile))
    BY <1>2, <2>1, <2>2
  <2>7. Len(SetPoint(line, k, tile)) = k + 1
    BY <1>4, <2>1, <2>2
  <2>8. SetPoint(line, k, tile)[k + 1].series = series
    BY <2>1, <2>3, <2>5
  <2>9. \A l \in 1..k : SetPoint(line, k, tile)[l] = line[l]
    BY <2>1, <2>4
  <2> QED
    BY <1>4, <2>6, <2>7, <2>8, <2>9 DEF IsLine
<1> QED
  BY <1>3, <1>4 DEF IsLine

-----------------------------------------------------------------------------
(* Types. *)

(* What is run does not change. *)
LEMMA SameItems ==
  ASSUME UNCHANGED job
  PROVE  Items' = Items /\ Ran' = Ran /\ pairs' = pairs
BY DEF Items, Ran

(* One write of a point to the line of an item that runs. *)
LEMMA RouteTypes ==
  ASSUME Types, LineInv, NEW i \in Items, item[i] = "run", NEW tile, Route(i, tile)
  PROVE  /\ routed' = [j \in Items |-> routed'[j]]
         /\ routed'[i] = SetPoint(routed[i], count_index[i], tile)
         /\ \A j \in Items : IsLine(routed'[j])
         /\ count_index[i] \in 0..Len(routed[i])
<1>1. /\ routed' = [routed EXCEPT ![i] = SetPoint(routed[i], count_index[i], tile)]
      /\ routed = [j \in Items |-> routed[j]]
      /\ IsLine(routed[i])
  BY DEF Route, Types
<1>2. count_index[i] \in 0..Len(routed[i])
  BY DEF Types, LineInv, IsLine
<1>3. IsLine(SetPoint(routed[i], count_index[i], tile))
  BY <1>1, <1>2, SetPointKeepsLines
<1>4. /\ routed' = [j \in Items |-> routed'[j]]
      /\ routed'[i] = SetPoint(routed[i], count_index[i], tile)
      /\ \A j \in Items \ {i} : routed'[j] = routed[j]
  BY <1>1
<1> QED
  BY <1>2, <1>3, <1>4 DEF Types

(* The fields of one write to drawIndirect. *)
LEMMA DrawTypes ==
  ASSUME Types, NEW i \in Items, NEW state \in 0..2, Draw(i, state)
  PROVE  /\ drawIndirect' \in [Items -> [count : Nat, state : 0..2]]
         /\ drawIndirect'[i] = [count |-> count_index[i] + 1, state |-> state]
         /\ \A j \in Items \ {i} : drawIndirect'[j] = drawIndirect[j]
BY DEF Types, Draw

LEMMA TypesInit == Init => Types
<1> SUFFICES ASSUME Init PROVE Types
  OBVIOUS
<1>1. 0 \in 0..CounterMax
  BY DrawWiresAssumption
<1>2. IsLine(<<>>)
  BY DEF IsLine
<1>3. filling \in BOOLEAN
  BY DEF Init
<1> QED
  BY <1>1, <1>2, <1>3 DEF Init, Types

LEMMA TypesNext ==
  ASSUME Types, SeriesInv, LineInv, [Next]_vars
  PROVE  Types'
<1>1. CASE step_all
  BY <1>1, SameItems DEF step_all, Types
<1>2. CASE Finish
  BY <1>2, SameItems DEF Finish, Types
<1>5. CASE Refuse \/ FinishAll \/ Fill
  <2>1. /\ UNCHANGED <<job, series, item, count_index, drawIndirect, routed>>
        /\ dirty' \in Nat
        /\ host' \in {"step", "finish", "drain", "ended", "failed"}
    BY <1>5 DEF Refuse, FinishAll, Fill, Types
  <2>2. filling' = filling \/ filling' = FALSE
    BY <1>5 DEF Refuse, FinishAll, Fill
  <2>3. filling' \in BOOLEAN
    BY <2>2 DEF Types
  <2> QED
    BY <2>1, <2>3, SameItems DEF Types
<1>3. CASE Ended \/ UNCHANGED vars
  <2>1. UNCHANGED vars
    BY <1>3 DEF Ended
  <2> QED
    BY <2>1, SameItems DEF Types
<1>4. ASSUME NEW i \in Items, Item(i)
      PROVE  Types'
  <2>1. CASE Begin(i)
    <3>1. 0 \in 0..CounterMax
      BY DrawWiresAssumption
    <3> QED
      BY <2>1, <3>1, SameItems DEF Begin, Types
  <2>2. CASE Succeed(i)
    <3>1. /\ UNCHANGED <<job, host, series, count_index, routed, dirty, filling>>
          /\ item' = [item EXCEPT ![i] = "idle"] /\ Draw(i, 1)
      BY <2>2 DEF Succeed
    <3>2. \E state \in 0..2 : Draw(i, state)
      BY <3>1
    <3>3. drawIndirect' \in [Items -> [count : Nat, state : 0..2]]
      BY <3>2, DrawTypes
    <3> QED
      BY <3>1, <3>3, SameItems DEF Types
  <2>3. CASE RunEmpty(i)
    <3>1. /\ UNCHANGED <<job, host, series, count_index, dirty, filling>> /\ item[i] = "run"
          /\ item' = [item EXCEPT ![i] = "idle"] /\ Draw(i, 2) /\ Route(i, SourcePos(i))
      BY <2>3 DEF RunEmpty, Running
    <3>2. \E state \in 0..2 : Draw(i, state)
      BY <3>1
    <3>3. drawIndirect' \in [Items -> [count : Nat, state : 0..2]]
      BY <3>2, DrawTypes
    <3>4. routed' = [j \in Items |-> routed'[j]] /\ \A j \in Items : IsLine(routed'[j])
      BY <3>1, RouteTypes
    <3> QED
      BY <3>1, <3>3, <3>4, SameItems DEF Types
  <2>4. CASE Search(i)
    <3>1. /\ UNCHANGED <<job, host, series, dirty, filling>>
          /\ item[i] = "run" /\ count_index[i] < CounterMax
      BY <2>4 DEF Search, Running
    <3>2. \E tile : Route(i, tile)
      BY <2>4 DEF Search
    <3>3. \E state \in 0..2 : Draw(i, state)
      BY <2>4 DEF Search
    <3>4. item' \in [Items -> {"idle", "ready", "run"}]
      BY <2>4 DEF Search, Types
    <3>5. \/ UNCHANGED count_index
          \/ count_index' = [count_index EXCEPT ![i] = count_index[i] + 1]
      BY <2>4 DEF Search
    <3>6. count_index' \in [Items -> 0..CounterMax]
      BY <3>1, <3>5, DrawWiresAssumption DEF Types
    <3>7. drawIndirect' \in [Items -> [count : Nat, state : 0..2]]
      BY <3>3, DrawTypes
    <3>8. routed' = [j \in Items |-> routed'[j]] /\ \A j \in Items : IsLine(routed'[j])
      BY <3>1, <3>2, RouteTypes
    <3> QED
      BY <3>1, <3>4, <3>6, <3>7, <3>8, SameItems DEF Types
  <2>5. CASE Save(i)
    <3>1. /\ UNCHANGED <<job, host, series, count_index, drawIndirect, routed, filling>>
          /\ item' = [item EXCEPT ![i] = "idle"] /\ dirty' = dirty + 1
      BY <2>5 DEF Save
    <3>2. item' \in [Items -> {"idle", "ready", "run"}] /\ dirty' \in Nat
      BY <3>1 DEF Types
    <3> QED
      BY <3>1, <3>2, SameItems DEF Types
  <2> QED
    BY <1>4, <2>1, <2>2, <2>3, <2>4, <2>5 DEF Item
<1> QED
  BY <1>1, <1>2, <1>3, <1>4, <1>5 DEF Next, Host

-----------------------------------------------------------------------------
(* What runs, and the lines. *)

LEMMA SeriesInvNext ==
  ASSUME Types, SeriesInv, [Next]_vars
  PROVE  SeriesInv'
<1>0. Ran \subseteq Items
  BY RanItems DEF Types
<1>1. CASE step_all
  BY <1>0, <1>1, SameItems DEF step_all, SeriesInv, Types
<1>2. CASE Finish
  BY <1>2, SameItems DEF Finish, SeriesInv
<1>5. CASE Refuse \/ FinishAll \/ Fill
  <2>1. /\ UNCHANGED <<job, item, drawIndirect>>
        /\ host = "finish" => host' = "finish"
    BY <1>5 DEF Refuse, FinishAll, Fill
  <2> QED
    BY <2>1, SameItems DEF SeriesInv
<1>3. CASE Ended \/ UNCHANGED vars
  <2>1. UNCHANGED vars
    BY <1>3 DEF Ended
  <2> QED
    BY <2>1, SameItems DEF SeriesInv
<1>4. ASSUME NEW i \in Items, Item(i)
      PROVE  SeriesInv'
  <2>1. /\ UNCHANGED <<job, host, series, host_dirty>>
        /\ \A j \in Items \ {i} : /\ item'[j] = item[j]
                                  /\ drawIndirect'[j] = drawIndirect[j]
        /\ host = "finish" /\ i \in Ran
    BY <1>4, StepsOfAnItem
  <2>2. Items' = Items /\ Ran' = Ran
    BY <2>1, SameItems
  <2>3. item'[i] = "run" => drawIndirect'[i].state = 0
    BY <1>4 DEF Item, Begin, Succeed, RunEmpty, Search, Save, Running, Draw, Types, SeriesInv
  <2> QED
    BY <2>1, <2>2, <2>3 DEF SeriesInv
<1> QED
  BY <1>1, <1>2, <1>3, <1>4, <1>5 DEF Next, Host

(* An item of which nothing changes keeps its line. *)
LineOf(i) ==
  /\ item[i] = "run" =>
       /\ count_index[i] <= Len(routed[i])
       /\ \A k \in 1..count_index[i] : routed[i][k].series = series
       /\ count_index[i] > 0 => drawIndirect[i].count = count_index[i]
  /\ item[i] # "run" =>
       Shown(i) <= Len(routed[i]) /\ OneSeries(routed[i], Shown(i))

(* A new point makes a line of one series that is one longer. *)
LEMMA LineGrows ==
  ASSUME Types, LineInv, NEW i \in Items, item[i] = "run", NEW tile, Route(i, tile),
         series' = series
  PROVE  LET n == count_index[i] + 1
         IN  /\ n <= Len(routed'[i])
             /\ \A k \in 1..n : routed'[i][k].series = series
<1> DEFINE n == count_index[i]
           new == SetPoint(routed[i], n, tile)
<1>1. routed'[i] = new /\ n \in 0..Len(routed[i]) /\ IsLine(routed[i])
  BY RouteTypes DEF Types
<1>2. \A k \in 1..n : routed[i][k].series = series
  BY DEF LineInv
<1> HIDE DEF new, n
<1>3. /\ n + 1 <= Len(new) /\ new[n + 1].series = series
      /\ \A l \in 1..n : new[l] = routed[i][l]
  BY <1>1, SetPointKeepsLines DEF new
<1>4. n \in Nat
  BY <1>1 DEF IsLine
<1>5. ASSUME NEW k \in 1..(n + 1) PROVE new[k].series = series
  BY <1>2, <1>3, <1>4
<1> QED
  BY <1>1, <1>3, <1>5 DEF n

LEMMA LineInvNext ==
  ASSUME Types, SeriesInv, LineInv, [Next]_vars
  PROVE  LineInv'
<1>0. \A i \in Items : LineOf(i)
  BY DEF LineInv, LineOf
<1>1. CASE step_all
  <2>1. UNCHANGED <<job, series, count_index, drawIndirect, routed>> /\ Items' = Items
    BY <1>1, SameItems DEF step_all
  <2>2. ASSUME NEW i \in Items PROVE item[i] # "run" /\ item'[i] # "run"
    BY <1>1 DEF step_all, SeriesInv
  <2> QED
    BY <1>0, <2>1, <2>2 DEF LineInv, LineOf, Shown, OneSeries
<1>2. CASE Finish
  <2>1. UNCHANGED <<job, item, count_index, drawIndirect, routed>> /\ Items' = Items
    BY <1>2, SameItems DEF Finish
  <2>2. ASSUME NEW i \in Items PROVE item[i] # "run"
    BY <1>2 DEF Finish
  <2> QED
    BY <1>0, <2>1, <2>2 DEF LineInv, LineOf, Shown, OneSeries
<1>3. CASE Refuse \/ FinishAll \/ Fill \/ Ended \/ UNCHANGED vars
  <2>1. UNCHANGED <<job, series, item, count_index, drawIndirect, routed>>
    BY <1>3 DEF Refuse, FinishAll, Fill, Ended
  <2> QED
    BY <1>0, <2>1, SameItems DEF LineInv, LineOf, Shown, OneSeries
<1>4. ASSUME NEW i \in Items, Item(i)
      PROVE  LineInv'
  <2>1. /\ UNCHANGED <<job, host, series, host_dirty>>
        /\ \A j \in Items \ {i} : /\ item'[j] = item[j]
                                  /\ count_index'[j] = count_index[j]
                                  /\ drawIndirect'[j] = drawIndirect[j]
                                  /\ routed'[j] = routed[j]
    BY <1>4, StepsOfAnItem
  <2>2. SUFFICES LineOf(i)'
    BY <1>0, <2>1, SameItems DEF LineInv, LineOf, Shown, OneSeries
  <2>3. LineOf(i) /\ IsLine(routed[i])
    BY <1>0 DEF Types
  <2> DEFINE n == count_index[i]
  <2>4. n \in 0..CounterMax /\ n \in Nat
    BY DrawWiresAssumption DEF Types
  <2>5. CASE Begin(i)
    BY <2>1, <2>3, <2>5 DEF Begin, LineOf, Shown, OneSeries, Types, IsLine
  <2>6. CASE Succeed(i)
    <3>1. /\ item[i] = "run" /\ item'[i] = "idle" /\ UNCHANGED <<count_index, routed>>
          /\ drawIndirect'[i].count = n + 1 /\ drawIndirect'[i].state = 1
      BY <2>6 DEF Succeed, Running, Draw, Types
    <3>2. Shown(i)' = n
      BY <2>4, <3>1 DEF Shown
    <3> QED
      BY <2>3, <2>4, <3>1, <3>2 DEF LineOf, OneSeries
  <2>7. ASSUME NEW tile, Route(i, tile), Draw(i, 2), item[i] = "run", item'[i] = "idle"
        PROVE  LineOf(i)'
    <3>1. n + 1 <= Len(routed'[i]) /\ \A k \in 1..(n + 1) : routed'[i][k].series = series
      BY <2>1, <2>7, LineGrows
    <3>2. drawIndirect'[i].count = n + 1 /\ drawIndirect'[i].state = 2
      BY <2>7 DEF Draw, Types
    <3>3. Shown(i)' = n + 1
      BY <2>4, <3>2 DEF Shown
    <3> QED
      BY <2>4, <2>7, <3>1, <3>3 DEF LineOf, OneSeries
  <2>8. CASE RunEmpty(i)
    <3>1. Route(i, SourcePos(i)) /\ Draw(i, 2) /\ item[i] = "run" /\ item'[i] = "idle"
      BY <2>8 DEF RunEmpty, Running, Types
    <3> QED
      BY <2>7, <3>1
  <2>9. CASE Search(i) /\ item'[i] = "idle"
    <3>1. \E tile : Route(i, tile) /\ Draw(i, 2)
      BY <2>9 DEF Search, Running
    <3>2. item[i] = "run"
      BY <2>9 DEF Search, Running
    <3> QED
      BY <2>7, <2>9, <3>1, <3>2
  <2>10. CASE Search(i) /\ item'[i] # "idle"
    <3>1. item[i] = "run"
      BY <2>10 DEF Search, Running
    <3>2. \E tile : Route(i, tile)
      BY <2>10 DEF Search
    <3>3. n + 1 <= Len(routed'[i]) /\ \A k \in 1..(n + 1) : routed'[i][k].series = series
      BY <2>1, <3>1, <3>2, LineGrows
    <3>4. /\ Draw(i, 0) /\ count_index' = [count_index EXCEPT ![i] = count_index[i] + 1]
          /\ UNCHANGED item
      BY <2>10 DEF Search, Types
    <3>5. count_index'[i] = n + 1 /\ drawIndirect'[i].count = n + 1
      BY <3>4 DEF Draw, Types
    <3> QED
      BY <2>1, <2>4, <3>1, <3>3, <3>4, <3>5 DEF LineOf
  <2>11. CASE Save(i)
    <3>1. /\ item[i] = "run" /\ item'[i] = "idle" /\ n = CounterMax
          /\ UNCHANGED <<drawIndirect, routed>>
      BY <2>11 DEF Save, Types
    <3>2. drawIndirect[i].state = 0 /\ drawIndirect[i].count = n
      BY <2>3, <2>4, <3>1, DrawWiresAssumption DEF LineOf, SeriesInv
    <3>3. Shown(i)' = n
      BY <2>4, <3>1, <3>2 DEF Shown
    <3> QED
      BY <2>3, <2>4, <3>1, <3>3 DEF LineOf, OneSeries
  <2> QED
    BY <1>4, <2>5, <2>6, <2>8, <2>9, <2>10, <2>11 DEF Item
<1> QED
  BY <1>1, <1>2, <1>3, <1>4 DEF Next, Host

-----------------------------------------------------------------------------
(* What the host counts. *)

LEMMA LeftIsFinite ==
  ASSUME Types
  PROVE  IsFiniteSet(Left) /\ IsFiniteSet(Undecided)
<1>1. IsFiniteSet(Ran) /\ Left \subseteq Undecided /\ Undecided \subseteq Ran
  BY RanItems DEF Types, Left, Undecided
<1> QED
  BY <1>1, FS_Subset

LEMMA DirtyInvInit == Init => DirtyInv
<1> SUFFICES ASSUME Init PROVE DirtyInv
  OBVIOUS
<1> QED
  BY DEF Init, DirtyInv, EndsDecided, DirtyIsUndecided

(* A step of an item counts it when it saves it, and else changes nothing. *)
LEMMA ItemCounts ==
  ASSUME Types, SeriesInv, LineInv, NEW i \in Items, Item(i)
  PROVE  /\ (host = "finish" /\ filling => \A j \in Ran : item[j] = "ready") => ~filling
         /\ \/ dirty' = dirty /\ Left' = Left
            \/ dirty' = dirty + 1 /\ i \notin Left /\ Left' = Left \cup {i}
<1>1. /\ UNCHANGED <<job, host>>
      /\ \A j \in Items \ {i} : item'[j] = item[j] /\ drawIndirect'[j] = drawIndirect[j]
      /\ i \in Ran /\ item[i] # "idle"
  BY StepsOfAnItem
<1>2. Ran' = Ran /\ Ran \subseteq Items
  BY <1>1, SameItems, RanItems DEF Types
<1>3. i \notin Left
  BY <1>1 DEF Left
<1>6. (host = "finish" /\ filling => \A j \in Ran : item[j] = "ready") => ~filling
  <2>1. host = "finish" /\ i \in Ran
    BY StepsOfAnItem
  <2>2. item[i] = "run" \/ ~filling
    BY DEF Item, Begin, InOrder, Succeed, RunEmpty, Search, Save, Running
  <2> QED
    BY <2>1, <2>2
<1>4. CASE Save(i)
  <2>1. /\ dirty' = dirty + 1 /\ item'[i] = "idle"
        /\ drawIndirect'[i].state = 0
    BY <1>4 DEF Save, Types, SeriesInv
  <2>2. Left' = Left \cup {i}
    BY <1>1, <1>2, <2>1 DEF Left, Undecided
  <2> QED
    BY <1>3, <1>6, <2>1, <2>2
<1>5. CASE ~Save(i)
  <2>1. dirty' = dirty
    BY <1>5 DEF Item, Begin, Succeed, RunEmpty, Search
  <2>2. ~(item'[i] = "idle" /\ drawIndirect'[i].state = 0)
    <3>1. CASE Begin(i)
      BY <3>1 DEF Begin, Types
    <3>2. CASE Succeed(i) \/ RunEmpty(i)
      BY <3>2 DEF Succeed, RunEmpty, Draw, Types
    <3>3. CASE Search(i)
      BY <3>3 DEF Search, Running, Draw, Types
    <3> QED
      BY <1>5, <3>1, <3>2, <3>3 DEF Item
  <2>3. Left' = Left
    BY <1>1, <1>2, <1>3, <2>2 DEF Left, Undecided
  <2> QED
    BY <1>6, <2>1, <2>3
<1> QED
  BY <1>4, <1>5

LEMMA DirtyInvNext ==
  ASSUME Types, SeriesInv, LineInv, DirtyInv, [Next]_vars
  PROVE  DirtyInv'
<1>1. CASE step_all
  <2>1. /\ host = "step" /\ host' = "finish" /\ UNCHANGED <<job, dirty, filling>>
        /\ filling \/ dirty = 0
    BY <1>1 DEF step_all, DirtyInv
  <2>2. Ran' = Ran /\ Ran \subseteq Items
    BY <2>1, SameItems, RanItems DEF Types
  <2>5. \A i \in Ran : item'[i] = "ready"
    BY <1>1, <2>2 DEF step_all
  <2>3. Left' = {}
    BY <1>1, <2>2 DEF step_all, Left, Undecided
  <2>4. Cardinality(Left') = 0
    BY <2>3, FS_EmptySet
  <2> QED
    BY <2>1, <2>2, <2>4, <2>5 DEF DirtyInv, EndsDecided, DirtyIsUndecided
<1>5. CASE Refuse \/ FinishAll
  <2>1. /\ UNCHANGED <<job, series, item, drawIndirect, dirty, host_dirty, filling>>
        /\ \/ host = "step" /\ host' = "failed"
           \/ host = "drain" /\ host' = "ended"
    BY <1>5 DEF Refuse, FinishAll
  <2>2. Items' = Items /\ Ran' = Ran
    BY <2>1, SameItems
  <2> QED
    BY <2>1, <2>2 DEF DirtyInv, EndsDecided, DirtyIsUndecided
<1>6. CASE Fill
  <2>1. /\ UNCHANGED <<job, host, series, item, drawIndirect, host_dirty>>
        /\ filling /\ dirty' = 0 /\ filling' = FALSE
    BY <1>6 DEF Fill
  <2>2. Items' = Items /\ Ran' = Ran
    BY <2>1, SameItems
  <2>3. host = "finish" => Left' = {}
    BY <2>1, <2>2 DEF DirtyInv, Left, Undecided
  <2>4. host = "finish" => dirty' = Cardinality(Left')
    BY <2>1, <2>3, FS_EmptySet
  <2> QED
    BY <2>1, <2>2, <2>4 DEF DirtyInv, EndsDecided, DirtyIsUndecided
<1>2. CASE Finish
  <2>1. /\ host = "finish" /\ ~filling /\ host_dirty' = dirty /\ filling' = TRUE
        /\ UNCHANGED <<job, item, drawIndirect>>
        /\ \A i \in Items : item[i] = "idle"
        /\ host' \in {"step", "drain"}
        /\ host' = "drain" => series' = series /\ ~GoesOn(dirty)
    BY <1>2 DEF Finish
  <2>2. Items' = Items /\ Ran' = Ran /\ Ran \subseteq Items
    BY <2>1, SameItems, RanItems DEF Types
  <2>3. Left = Undecided
    BY <2>1, <2>2 DEF Left, Undecided
  <2>4. dirty = Cardinality(Undecided)
    BY <2>1, <2>3 DEF DirtyInv
  <2>5. Undecided' = Undecided
    BY <2>1, <2>2 DEF Undecided
  <2>6. DirtyIsUndecided'
    BY <2>1, <2>4, <2>5 DEF DirtyIsUndecided, Undecided
  <2>7. host' = "drain" /\ series' + 1 < SeriesMax => Undecided = {}
    BY <2>1, <2>4, LeftIsFinite, FS_EmptySet DEF GoesOn
  <2> QED
    BY <2>1, <2>2, <2>5, <2>6, <2>7 DEF DirtyInv, EndsDecided, Undecided
<1>3. CASE Ended \/ UNCHANGED vars
  <2>1. UNCHANGED vars
    BY <1>3 DEF Ended
  <2>2. Items' = Items /\ Ran' = Ran
    BY <2>1, SameItems
  <2> QED
    BY <2>1, <2>2 DEF DirtyInv, EndsDecided, DirtyIsUndecided, Left, Undecided
<1>4. ASSUME NEW i \in Items, Item(i)
      PROVE  DirtyInv'
  <2>1. host = "finish" /\ host' = "finish" /\ filling' = filling
    BY <1>4, StepsOfAnItem
  <2>4. ~filling
    BY <1>4, ItemCounts DEF DirtyInv
  <2>2. dirty = Cardinality(Left) /\ dirty \in Nat
    BY <2>1, <2>4 DEF DirtyInv, Types
  <2>3. dirty' = Cardinality(Left')
    BY <1>4, <2>2, ItemCounts, LeftIsFinite, FS_AddElement
  <2> QED
    BY <2>1, <2>3, <2>4 DEF DirtyInv, EndsDecided, DirtyIsUndecided
<1> QED
  BY <1>1, <1>2, <1>3, <1>4, <1>5, <1>6 DEF Next, Host

-----------------------------------------------------------------------------

LEMMA ReportInvInit == Init => ReportInv
<1> SUFFICES ASSUME Init PROVE ReportInv
  OBVIOUS
<1>1. SeriesInv
  BY DEF Init, SeriesInv
<1>2. LineInv
  <2>1. ASSUME NEW i \in Items
        PROVE  item[i] # "run" /\ Shown(i) \in {0, -1} /\ Len(routed[i]) = 0
    BY DEF Init, Shown
  <2>2. ASSUME NEW i \in Items
        PROVE  Shown(i) <= Len(routed[i]) /\ OneSeries(routed[i], Shown(i))
    BY <2>1 DEF OneSeries
  <2> QED
    BY <2>1, <2>2 DEF LineInv
<1> QED
  BY <1>1, <1>2, TypesInit, DirtyInvInit DEF ReportInv

LEMMA ReportInvNext == ReportInv /\ [Next]_vars => ReportInv'
BY TypesNext, SeriesInvNext, LineInvNext, DirtyInvNext DEF ReportInv

THEOREM ReportInvariant == Spec => []ReportInv
BY ReportInvInit, ReportInvNext, PTL DEF Spec

(* For every graph, list of stubs and size of a group: what the host read   *)
(* is the number of searches the series left undecided, however late the    *)
(* fill it did not await is run, and the loop ends before its last series   *)
(* only when every item of a whole group is decided.                        *)
THEOREM CountsDecide == Spec => []EndsDecided
<1>1. ReportInv => EndsDecided
  BY DEF ReportInv, DirtyInv
<1> QED
  BY <1>1, ReportInvariant, PTL

-----------------------------------------------------------------------------
(* The beams and the searches. *)

Entries == ((0..(CostMod - 1)) \X Nat \X Nat \X Nat) \cup {Nothing}

\* A beam the insertion leaves and relies on
IsFront(beam) ==
  /\ beam \in [1..BeamWidth -> Entries]
  /\ \A j \in 1..(Slots - 1) :
       /\ ~Less(beam[j + 1], beam[j])
       /\ beam[j] # Nothing => ~SameTile(beam[j], beam[j + 1])
  /\ \A j \in (Slots + 1)..BeamWidth : beam[j] = Nothing

Sited(i) == i < Len(pairs) /\ pairs[i + 1] # NoSites
Stub(i) == pairs[i + 1].stub

Leads(from, to) == \E n \in Nat : to \in Walks(from, n)

OfWalks(i, beam, bound) ==
  \A j \in 1..Slots : beam[j] # Nothing =>
    \E n \in 0..bound : /\ n % PreviousMod = Previous(beam[j])
                        /\ tile_to_coords(beam[j]) \in Walks(Stub(i), n)

\* Some entry still leads to the source, if anything did
Open(i, beam) ==
  Leads(Stub(i), SourcePos(i)) =>
    \E j \in 1..Slots : beam[j] # Nothing /\ Leads(tile_to_coords(beam[j]), SourcePos(i))

\* What the next step of an item goes on from, and the steps made before
Front(i) == IF item[i] = "run" THEN curStubs[i] ELSE stubLocations[i]
Made(i) == series * CounterMax + IF item[i] = "ready" \/ host = "step" THEN 0 ELSE count_index[i]

-----------------------------------------------------------------------------
(* The order of the entries. *)

LEMMA LessFields ==
  ASSUME NEW a, NEW b
  PROVE  Less(a, b) <=> \/ a[1] < b[1]
                        \/ a[1] = b[1] /\ a[2] < b[2]
                        \/ a[1] = b[1] /\ a[2] = b[2] /\ a[3] < b[3]
                        \/ a[1] = b[1] /\ a[2] = b[2] /\ a[3] = b[3] /\ a[4] < b[4]
<1>1. 1..4 = {1, 2, 3, 4} /\ 1..(1 - 1) = {} /\ 1..(2 - 1) = {1}
      /\ 1..(3 - 1) = {1, 2} /\ 1..(4 - 1) = {1, 2, 3}
  OBVIOUS
<1> DEFINE Same(f) == \A g \in 1..(f - 1) : a[g] = b[g]
<1>2. Same(1) /\ (Same(2) <=> a[1] = b[1]) /\ (Same(3) <=> a[1] = b[1] /\ a[2] = b[2])
      /\ (Same(4) <=> a[1] = b[1] /\ a[2] = b[2] /\ a[3] = b[3])
  BY <1>1
<1>3. Less(a, b) <=> \E f \in 1..4 : a[f] < b[f] /\ Same(f)
  BY DEF Less
<1> HIDE DEF Same
<1> QED
  BY <1>1, <1>2, <1>3

(* Entries are tuples of naturals. *)
LEMMA EntryFields ==
  ASSUME NEW e \in Entries
  PROVE  /\ e[1] \in Nat /\ e[2] \in Nat /\ e[3] \in Nat /\ e[4] \in Nat
         /\ e = <<e[1], e[2], e[3], e[4]>>
         /\ e # Nothing => e[1] < CostMod
         /\ e = Nothing => e[1] = CostMod
BY DrawWiresAssumption DEF Entries, Nothing

LEMMA LessTotal ==
  ASSUME NEW a \in Entries, NEW b \in Entries
  PROVE  Less(a, b) \/ a = b \/ Less(b, a)
BY EntryFields, LessFields

LEMMA LessStrict ==
  ASSUME NEW a \in Entries, NEW b \in Entries, Less(a, b)
  PROVE  ~Less(b, a) /\ a # b
BY EntryFields, LessFields

LEMMA LessTransitive ==
  ASSUME NEW a \in Entries, NEW b \in Entries, NEW c \in Entries, Less(a, b), ~Less(c, b)
  PROVE  Less(a, c)
BY EntryFields, LessFields

LEMMA NothingIsLast ==
  ASSUME NEW a \in Entries
  PROVE  (a # Nothing => Less(a, Nothing)) /\ ~Less(Nothing, a)
<1>1. Nothing \in Entries
  BY DEF Entries
<1> QED
  BY <1>1, EntryFields, LessFields, DrawWiresAssumption DEF Nothing

(* Equal entries are of one tile. *)
LEMMA SameTileSame ==
  ASSUME NEW a
  PROVE  SameTile(a, a)
BY DEF SameTile

(* A front that is empty in one slot is empty in the next. *)
LEMMA FrontCloses ==
  ASSUME NEW beam, IsFront(beam), NEW j \in 1..(Slots - 1), beam[j] = Nothing
  PROVE  beam[j + 1] = Nothing
<1>1. beam[j + 1] \in Entries /\ ~Less(beam[j + 1], Nothing)
  BY DrawWiresAssumption DEF IsFront
<1> QED
  BY <1>1, NothingIsLast

-----------------------------------------------------------------------------
(* Loops. *)

(* A nonempty set of naturals has a least element. *)
LEMMA LeastNat ==
  ASSUME NEW T, T \subseteq Nat, T # {}
  PROVE  \E x \in T : \A y \in T : x <= y
<1>1. \E x \in T : \A y \in T : ~(<<y, x>> \in OpToRel(<, Nat))
  BY NatLessThanWellFounded, WFMin, Zenon
<1>2. PICK x \in T : \A y \in T : ~(<<y, x>> \in OpToRel(<, Nat))
  BY <1>1
<1>3. ASSUME NEW y \in T PROVE x <= y
  <2>1. <<y, x>> \in Nat \X Nat
    OBVIOUS
  <2>2. ~(y < x)
    BY <1>2, <2>1 DEF OpToRel
  <2> QED
    BY <2>2
<1> QED
  BY <1>3

(* What a loop makes of its start: the recursive definitions have a value. *)
Repeats(run, start, step, last) ==
  run[0] = start /\ \A k \in 1..last : run[k] = step[k][run[k - 1]]

LEMMA RepeatsExist ==
  ASSUME NEW S, NEW last \in Nat, NEW step, NEW start \in S,
         \A k \in 1..last : \A x \in S : step[k][x] \in S
  PROVE  \E run \in [0..last -> S] : Repeats(run, start, step, last)
<1> USE DEF Repeats
<1> DEFINE Good(n, run) == run \in [0..n -> S] /\ Repeats(run, start, step, n)
           Bad == {n \in 0..last : ~\E run : Good(n, run)}
<1>1. SUFFICES Bad = {}
  <2>1. last \notin Bad /\ last \in 0..last
    BY <1>1
  <2> QED
    BY <2>1
<1>2. SUFFICES ASSUME Bad # {} PROVE FALSE
  OBVIOUS
<1>3. PICK n \in Bad : \A m \in Bad : n <= m
  <2>1. Bad \subseteq Nat
    OBVIOUS
  <2> HIDE DEF Bad
  <2> QED
    BY <1>2, <2>1, LeastNat
<1>4. CASE n = 0
  <2>1. Good(0, [k \in 0..0 |-> start])
    OBVIOUS
  <2> QED
    BY <1>4, <2>1
<1>5. CASE n # 0
  <2>1. n - 1 \in 0..last /\ n \in 1..last /\ n - 1 \notin Bad
    <3> HIDE DEF Good
    <3> QED
      BY <1>3, <1>5
  <2>2. PICK run : Good(n - 1, run)
    BY <2>1
  <2> DEFINE next == [k \in 0..n |-> IF k = n THEN step[n][run[n - 1]] ELSE run[k]]
  <2>3. next \in [0..n -> S]
    <3>1. run[n - 1] \in S
      BY <2>1, <2>2
    <3>2. step[n][run[n - 1]] \in S
      BY <2>1, <3>1
    <3> QED
      BY <2>1, <2>2, <3>2
  <2>4. next[0] = start
    BY <2>1, <2>2
  <2>5. ASSUME NEW k \in 1..n PROVE next[k] = step[k][next[k - 1]]
    <3>1. CASE k = n
      BY <3>1, <2>1
    <3>2. CASE k # n
      <4>1. k \in 1..(n - 1)
        BY <3>2, <2>1
      <4>2. run[k] = step[k][run[k - 1]]
        BY <4>1, <2>2
      <4>3. next[k] = run[k] /\ next[k - 1] = run[k - 1]
        BY <4>1, <3>2, <2>1
      <4> QED
        BY <4>2, <4>3
    <3> QED
      BY <3>1, <3>2
  <2> HIDE DEF next
  <2>6. Good(n, next)
    BY <2>3, <2>4, <2>5
  <2> QED
    BY <2>6
<1> QED
  BY <1>4, <1>5

-----------------------------------------------------------------------------
(* The insertion. *)

Beams == [1..BeamWidth -> Entries]
Carry == [beam : Beams, item : Entries, placed : BOOLEAN]
Lossy == [beam : Beams, lost : BOOLEAN]

LEMMA SwapType ==
  ASSUME NEW c \in Carry, NEW j \in 1..Slots
  PROVE  Swap(c, j) \in Carry
<1>1. Nothing \in Entries /\ j \in 1..BeamWidth
  BY DrawWiresAssumption DEF Entries
<1> QED
  BY <1>1 DEF Swap, Carry, Beams

\* The carried entry after each slot
IsCarried(run, beam, entry) ==
  /\ run \in [0..Slots -> Carry]
  /\ run[0] = [beam |-> beam, item |-> entry, placed |-> FALSE]
  /\ \A j \in 1..Slots : run[j] = Swap(run[j - 1], j)

LEMMA InsertRuns ==
  ASSUME NEW front \in Lossy, NEW entry \in Entries
  PROVE  \E run : /\ IsCarried(run, front.beam, entry)
                  /\ Insert(front, entry) =
                       [beam |-> run[Slots].beam,
                        lost |-> front.lost \/ (~run[Slots].placed /\ run[Slots].item # Nothing)]
<1> DEFINE start == [beam |-> front.beam, item |-> entry, placed |-> FALSE]
           step == [j \in 1..Slots |-> [c \in Carry |-> Swap(c, j)]]
           IsRun(f) == f = [j \in 0..Slots |-> IF j = 0 THEN start ELSE Swap(f[j - 1], j)]
           carried == CHOOSE f : IsRun(f)
<1>1. Slots \in Nat /\ start \in Carry
  BY DrawWiresAssumption DEF Carry, Lossy
<1>2. ASSUME NEW j \in 1..Slots, NEW c \in Carry
      PROVE  step[j][c] = Swap(c, j) /\ step[j][c] \in Carry
  BY SwapType
<1>3. PICK run \in [0..Slots -> Carry] : Repeats(run, start, step, Slots)
  <2> HIDE DEF start, step
  <2> QED
    BY <1>1, <1>2, RepeatsExist
<1>4. IsRun(run)
  <2>1. ASSUME NEW j \in 1..Slots PROVE run[j] = Swap(run[j - 1], j)
    <3>1. j - 1 \in 0..Slots
      BY <1>1
    <3>2. run[j - 1] \in Carry
      BY <1>3, <3>1
    <3> HIDE DEF step, start
    <3> QED
      BY <1>2, <1>3, <3>2 DEF Repeats
  <2>2. run[0] = start
    BY <1>3 DEF Repeats
  <2> HIDE DEF start, step
  <2>3. run = [j \in 0..Slots |-> run[j]]
    BY <1>3
  <2>4. \A j \in 0..Slots : run[j] = IF j = 0 THEN start ELSE Swap(run[j - 1], j)
    BY <2>1, <2>2, <1>1
  <2> QED
    BY <2>3, <2>4
<1>5. IsRun(carried)
  <2> HIDE DEF IsRun
  <2> QED
    BY <1>4
<1>6. Insert(front, entry) =
        [beam |-> carried[Slots].beam,
         lost |-> front.lost \/ (~carried[Slots].placed /\ carried[Slots].item # Nothing)]
  BY DEF Insert
<1> HIDE DEF carried
<1>7. ASSUME NEW j \in 0..Slots PROVE carried[j] = run[j]
  <2> DEFINE Bad == {k \in 0..Slots : carried[k] # run[k]}
  <2>1. SUFFICES Bad = {}
    BY <2>1
  <2>2. SUFFICES ASSUME Bad # {} PROVE FALSE
    OBVIOUS
  <2>3. PICK k \in Bad : \A m \in Bad : k <= m
    <3>1. Bad \subseteq Nat
      OBVIOUS
    <3> HIDE DEF Bad
    <3> QED
      BY <2>2, <3>1, LeastNat
  <2>4. k # 0
    BY <1>4, <1>5
  <2>5. k - 1 \in 0..Slots /\ k - 1 \notin Bad
    <3>1. k \in 0..Slots
      OBVIOUS
    <3> HIDE DEF Bad
    <3> QED
      BY <1>1, <2>3, <2>4, <3>1
  <2>6. carried[k - 1] = run[k - 1]
    BY <2>5
  <2>7. carried[k] = Swap(carried[k - 1], k) /\ run[k] = Swap(run[k - 1], k)
    <3> HIDE DEF start
    <3> QED
      BY <1>4, <1>5, <2>4
  <2> QED
    BY <2>6, <2>7
<1>8. IsCarried(run, front.beam, entry)
  <2>1. ASSUME NEW j \in 1..Slots PROVE run[j] = Swap(run[j - 1], j)
    <3> HIDE DEF start
    <3> QED
      BY <1>1, <1>4
  <2> QED
    BY <1>3, <2>1 DEF IsCarried, Repeats
<1>9. carried[Slots] = run[Slots]
  BY <1>1, <1>7
<1> HIDE DEF IsRun
<1> QED
  BY <1>6, <1>8, <1>9

\* The first slot that ends or takes an entry
Stops(beam, entry, j) == SameTile(beam[j], entry) \/ Less(entry, beam[j])
FirstStop(beam, entry, p) ==
  /\ p \in 1..Slots /\ Stops(beam, entry, p)
  /\ \A j \in 1..(p - 1) : ~Stops(beam, entry, j)

\* The beam when the entry has gone in at p and those behind have moved up to m
Moved(beam, entry, p, m) ==
  [j \in 1..BeamWidth |-> IF j < p \/ j > m THEN beam[j]
                          ELSE IF j = p THEN entry ELSE beam[j - 1]]

(* Up to the first slot that stops it nothing happens. *)
LEMMA CarriedOn ==
  ASSUME NEW run, NEW beam, NEW entry, IsCarried(run, beam, entry),
         NEW m \in 0..Slots, \A j \in 1..m : ~Stops(beam, entry, j)
  PROVE  run[m] = [beam |-> beam, item |-> entry, placed |-> FALSE]
<1> DEFINE start == [beam |-> beam, item |-> entry, placed |-> FALSE]
           Bad == {k \in 0..m : run[k] # start}
<1>1. SUFFICES Bad = {}
  <2>1. m \in 0..m
    BY DrawWiresAssumption
  <2>2. m \notin Bad
    BY <1>1
  <2> QED
    BY <2>1, <2>2
<1>2. SUFFICES ASSUME Bad # {} PROVE FALSE
  OBVIOUS
<1>3. PICK k \in Bad : \A l \in Bad : k <= l
  <2>1. Bad \subseteq Nat
    OBVIOUS
  <2> HIDE DEF Bad
  <2> QED
    BY <1>2, <2>1, LeastNat
<1>4. k \in 0..m /\ k # 0 /\ run[k] # start
  BY DEF IsCarried
<1>5. k - 1 \in 0..m /\ k \in 1..Slots /\ k \in 1..m /\ k - 1 \notin Bad
  <2> HIDE DEF Bad
  <2> QED
    BY <1>3, <1>4, DrawWiresAssumption
<1>6. run[k - 1] = start /\ run[k] = Swap(run[k - 1], k)
  BY <1>5 DEF IsCarried
<1>7. ~SameTile(beam[k], entry) /\ ~Less(entry, beam[k])
  BY <1>5 DEF Stops
<1>8. Swap(start, k) = start
  BY <1>7 DEF Swap
<1> QED
  BY <1>4, <1>6, <1>8

(* An entry of the same tile leaves all as it was. *)
LEMMA CarriedToItsTile ==
  ASSUME NEW run, NEW beam, NEW entry, IsCarried(run, beam, entry),
         NEW p, FirstStop(beam, entry, p), SameTile(beam[p], entry), NEW m \in p..Slots
  PROVE  run[m].beam = beam /\ run[m].placed = TRUE
<1> DEFINE Good(k) == run[k].beam = beam /\ run[k].placed = TRUE
           Bad == {k \in p..m : ~Good(k)}
<1>0. p \in 1..Slots /\ p \in Nat /\ Slots \in Nat /\ m \in Nat
  BY DrawWiresAssumption DEF FirstStop
<1>1. SUFFICES Bad = {}
  BY <1>0, <1>1
<1>2. SUFFICES ASSUME Bad # {} PROVE FALSE
  OBVIOUS
<1>3. PICK k \in Bad : \A l \in Bad : k <= l
  <2>1. Bad \subseteq Nat
    BY <1>0
  <2> HIDE DEF Bad
  <2> QED
    BY <1>2, <2>1, LeastNat
<1>4. Good(p)
  <2>1. run[p - 1] = [beam |-> beam, item |-> entry, placed |-> FALSE]
    BY <1>0, CarriedOn DEF FirstStop
  <2>2. run[p] = Swap(run[p - 1], p)
    BY <1>0 DEF IsCarried
  <2> QED
    BY <2>1, <2>2 DEF Swap
<1>5. k \in p..m /\ k # p /\ ~Good(k)
  BY <1>4
<1>6. k - 1 \in p..m /\ k - 1 \notin Bad /\ k \in 1..Slots
  <2> HIDE DEF Bad
  <2> QED
    BY <1>0, <1>3, <1>5
<1>7. Good(k - 1)
  BY <1>6
<1>8. run[k] = Swap(run[k - 1], k)
  BY <1>6 DEF IsCarried
<1>9. run[k - 1] \in Carry
  <2>1. k - 1 \in 0..Slots
    BY <1>0, <1>6
  <2> QED
    BY <2>1 DEF IsCarried
<1>10. Good(k)
  BY <1>7, <1>8, <1>9 DEF Swap, Carry
<1> QED
  BY <1>5, <1>10

(* An entry that goes in moves those behind it by one, in a front. *)
LEMMA CarriedIn ==
  ASSUME NEW run, NEW beam, IsFront(beam), NEW entry \in Entries, IsCarried(run, beam, entry),
         NEW p, FirstStop(beam, entry, p), ~SameTile(beam[p], entry), NEW m \in p..Slots
  PROVE  /\ run[m].beam = Moved(beam, entry, p, m)
         /\ run[m].item = beam[m]
         /\ run[m].placed => beam[m] = Nothing
<1> DEFINE Good(k) == /\ run[k].beam = Moved(beam, entry, p, k)
                      /\ run[k].item = beam[k]
                      /\ run[k].placed => beam[k] = Nothing
           Bad == {k \in p..m : ~Good(k)}
<1>0. /\ p \in 1..Slots /\ p \in Nat /\ Slots \in Nat /\ m \in Nat
      /\ BeamWidth \in Nat /\ Slots <= BeamWidth
      /\ beam \in [1..BeamWidth -> Entries]
  BY DrawWiresAssumption DEF FirstStop, IsFront
<1>1. SUFFICES Bad = {}
  BY <1>0, <1>1
<1>2. SUFFICES ASSUME Bad # {} PROVE FALSE
  OBVIOUS
<1>3. PICK k \in Bad : \A l \in Bad : k <= l
  <2>1. Bad \subseteq Nat
    BY <1>0
  <2> HIDE DEF Bad
  <2> QED
    BY <1>2, <2>1, LeastNat
<1>4. Good(p)
  <2>1. run[p - 1] = [beam |-> beam, item |-> entry, placed |-> FALSE]
    BY <1>0, CarriedOn DEF FirstStop
  <2>2. run[p] = Swap(run[p - 1], p)
    BY <1>0 DEF IsCarried
  <2>3. Less(entry, beam[p])
    BY DEF FirstStop, Stops
  <2>4. run[p] = [beam |-> [beam EXCEPT ![p] = entry], item |-> beam[p], placed |-> FALSE]
    BY <2>1, <2>2, <2>3 DEF Swap
  <2>5. [beam EXCEPT ![p] = entry] = Moved(beam, entry, p, p)
    <3>1. ASSUME NEW j \in 1..BeamWidth
          PROVE  [beam EXCEPT ![p] = entry][j] = Moved(beam, entry, p, p)[j]
      BY <1>0 DEF Moved
    <3>2. Moved(beam, entry, p, p) = [j \in 1..BeamWidth |-> Moved(beam, entry, p, p)[j]]
      BY DEF Moved
    <3> QED
      BY <1>0, <3>1, <3>2
  <2> QED
    BY <2>4, <2>5
<1>5. k \in p..m /\ k # p /\ ~Good(k)
  BY <1>4
<1>6. k - 1 \in p..m /\ k - 1 \notin Bad /\ k \in 1..Slots
  <2> HIDE DEF Bad
  <2> QED
    BY <1>0, <1>3, <1>5
<1>7. Good(k - 1)
  BY <1>6
<1> DEFINE before == run[k - 1]
<1>8. /\ run[k] = Swap(before, k) /\ before \in Carry
  <2>1. k - 1 \in 0..Slots
    BY <1>0, <1>6
  <2> QED
    BY <1>6, <2>1 DEF IsCarried
<1>9. before.beam[k] = beam[k] /\ k \in 1..BeamWidth /\ k - 1 \in 1..BeamWidth
  BY <1>0, <1>6, <1>7 DEF Moved
<1>10. beam[k] \in Entries /\ beam[k - 1] \in Entries
  BY <1>0, <1>9
<1>11. /\ ~Less(beam[k], beam[k - 1])
       /\ beam[k - 1] # Nothing => ~SameTile(beam[k - 1], beam[k])
       /\ beam[k - 1] = Nothing => beam[k] = Nothing
  <2>1. k - 1 \in 1..(Slots - 1) /\ (k - 1) + 1 = k
    BY <1>0, <1>6
  <2> QED
    BY <2>1, FrontCloses DEF IsFront
<1>12. Moved(beam, entry, p, k) = [Moved(beam, entry, p, k - 1) EXCEPT ![k] = beam[k - 1]]
  <2> DEFINE old == Moved(beam, entry, p, k - 1)
             new == Moved(beam, entry, p, k)
  <2>1. new[k] = beam[k - 1]
    BY <1>0, <1>5, <1>9 DEF Moved
  <2>2. ASSUME NEW j \in 1..BeamWidth, j # k PROVE new[j] = old[j]
    BY <1>0, <1>5, <1>9, <2>2 DEF Moved
  <2>3. new = [j \in 1..BeamWidth |-> new[j]] /\ old = [j \in 1..BeamWidth |-> old[j]]
    BY DEF Moved
  <2> HIDE DEF old, new
  <2>4. new = [old EXCEPT ![k] = beam[k - 1]]
    BY <1>9, <2>1, <2>2, <2>3
  <2> QED
    BY <2>4 DEF old, new
<1> HIDE DEF before
<1>13. CASE beam[k - 1] = Nothing
  <2>1. before.item = Nothing /\ beam[k] = Nothing
    BY <1>7, <1>11, <1>13 DEF before
  <2>2. SameTile(before.beam[k], before.item)
    BY <1>9, <2>1, SameTileSame
  <2>3. run[k] = [before EXCEPT !.placed = TRUE]
    BY <1>8, <2>2 DEF Swap
  <2>4. Moved(beam, entry, p, k) = Moved(beam, entry, p, k - 1)
    <3>1. Moved(beam, entry, p, k - 1)[k] = beam[k]
      BY <1>7, <1>9 DEF before
    <3>2. Moved(beam, entry, p, k - 1) = [j \in 1..BeamWidth |-> Moved(beam, entry, p, k - 1)[j]]
      BY DEF Moved
    <3> QED
      BY <1>12, <1>13, <2>1, <3>1, <3>2
  <2>5. run[k].beam = before.beam /\ run[k].item = before.item
    BY <1>8, <2>3 DEF Carry
  <2> QED
    BY <1>5, <1>7, <2>1, <2>4, <2>5 DEF before
<1>14. CASE beam[k - 1] # Nothing
  <2>1. before.item = beam[k - 1] /\ ~before.placed
    BY <1>7, <1>14 DEF before
  <2>2. ~SameTile(before.beam[k], before.item)
    BY <1>9, <1>11, <1>14, <2>1 DEF SameTile
  <2>3. Less(before.item, before.beam[k])
    <3>1. beam[k - 1] # beam[k]
      BY <1>11, <1>14, SameTileSame
    <3> QED
      BY <1>9, <1>10, <1>11, <2>1, <3>1, LessTotal
  <2>4. run[k] = [beam |-> [before.beam EXCEPT ![k] = before.item], item |-> before.beam[k],
                  placed |-> FALSE]
    BY <1>8, <2>1, <2>2, <2>3 DEF Swap
  <2>5. before.beam = Moved(beam, entry, p, k - 1)
    BY <1>7 DEF before
  <2> QED
    BY <1>5, <1>9, <1>12, <2>1, <2>4, <2>5
<1> QED
  BY <1>13, <1>14

(* Where an entry goes in a front, it is in order and next to no entry of its tile. *)
LEMMA MovedIsFront ==
  ASSUME NEW beam, IsFront(beam), NEW entry \in Entries, entry # Nothing,
         NEW p, FirstStop(beam, entry, p), ~SameTile(beam[p], entry)
  PROVE  IsFront(Moved(beam, entry, p, Slots))
<1> DEFINE new == Moved(beam, entry, p, Slots)
<1>0. /\ p \in 1..Slots /\ p \in Nat /\ Slots \in Nat
      /\ BeamWidth \in Nat /\ Slots <= BeamWidth
      /\ beam \in [1..BeamWidth -> Entries]
  BY DrawWiresAssumption DEF FirstStop, IsFront
<1>1. \A j \in 1..BeamWidth :
        new[j] = IF j < p \/ j > Slots THEN beam[j] ELSE IF j = p THEN entry ELSE beam[j - 1]
  BY DEF Moved
<1>2. new \in [1..BeamWidth -> Entries]
  <2>1. new = [j \in 1..BeamWidth |-> new[j]]
    BY DEF Moved
  <2>2. ASSUME NEW j \in 1..BeamWidth PROVE new[j] \in Entries
    BY <1>0, <1>1
  <2> HIDE DEF new
  <2> QED
    BY <2>1, <2>2
<1> HIDE DEF new
<1>3. Less(entry, beam[p])
  BY DEF FirstStop, Stops
<1>4. ASSUME NEW j \in 1..(Slots - 1)
      PROVE  /\ ~Less(new[j + 1], new[j])
             /\ new[j] # Nothing => ~SameTile(new[j], new[j + 1])
  <2>1. j \in 1..BeamWidth /\ j + 1 \in 1..BeamWidth /\ j <= Slots /\ j + 1 <= Slots
    BY <1>0
  <2>2. /\ ~Less(beam[j + 1], beam[j])
        /\ beam[j] # Nothing => ~SameTile(beam[j], beam[j + 1])
    BY DEF IsFront
  <2>3. CASE j + 1 < p
    BY <1>0, <1>1, <2>1, <2>2, <2>3
  <2>4. CASE j + 1 = p
    <3>1. new[j] = beam[j] /\ new[j + 1] = entry
      BY <1>0, <1>1, <2>1, <2>4
    <3>2. j \in 1..(p - 1)
      BY <1>0, <2>4
    <3>3. ~SameTile(beam[j], entry) /\ ~Less(entry, beam[j])
      BY <3>2 DEF FirstStop, Stops
    <3> QED
      BY <3>1, <3>3
  <2>5. CASE j = p
    <3>1. new[j] = entry /\ new[j + 1] = beam[p]
      BY <1>0, <1>1, <2>1, <2>5
    <3>2. ~SameTile(entry, beam[p])
      BY DEF SameTile
    <3> QED
      BY <1>0, <1>3, <3>1, <3>2, LessStrict
  <2>6. CASE j > p
    <3>1. new[j] = beam[j - 1] /\ new[j + 1] = beam[j]
      BY <1>0, <1>1, <2>1, <2>6
    <3>2. j - 1 \in 1..(Slots - 1) /\ (j - 1) + 1 = j
      BY <1>0, <2>6
    <3> QED
      BY <3>1, <3>2 DEF IsFront
  <2> QED
    BY <1>0, <2>3, <2>4, <2>5, <2>6
<1>5. ASSUME NEW j \in (Slots + 1)..BeamWidth PROVE new[j] = Nothing
  <2>1. j \in 1..BeamWidth /\ j > Slots
    BY <1>0
  <2> QED
    BY <1>1, <2>1 DEF IsFront
<1> QED
  BY <1>2, <1>4, <1>5 DEF IsFront, new

(* What the entries of a beam may be, and that none of them went away. *)
From(new, old, entry) ==
  /\ \A j \in 1..Slots : new[j] = entry \/ \E k \in 1..Slots : new[j] = old[k]
  /\ new[1] = entry \/ new[1] = old[1]
Holds(new, old) ==
  \A k \in 1..Slots : old[k] # Nothing => \E j \in 1..Slots : new[j] = old[k]
HasTile(beam, entry) == \E j \in 1..Slots : SameTile(beam[j], entry)

LEMMA MovedKeeps ==
  ASSUME NEW beam, IsFront(beam), NEW entry \in Entries,
         NEW p, FirstStop(beam, entry, p)
  PROVE  /\ From(Moved(beam, entry, p, Slots), beam, entry)
         /\ beam[Slots] = Nothing => Holds(Moved(beam, entry, p, Slots), beam)
         /\ HasTile(Moved(beam, entry, p, Slots), entry)
<1> DEFINE new == Moved(beam, entry, p, Slots)
<1>0. /\ p \in 1..Slots /\ p \in Nat /\ Slots \in Nat
      /\ BeamWidth \in Nat /\ Slots <= BeamWidth
  BY DrawWiresAssumption DEF FirstStop
<1>1. \A j \in 1..BeamWidth :
        new[j] = IF j < p \/ j > Slots THEN beam[j] ELSE IF j = p THEN entry ELSE beam[j - 1]
  BY DEF Moved
<1> HIDE DEF new
<1>2. ASSUME NEW j \in 1..Slots PROVE new[j] = entry \/ \E k \in 1..Slots : new[j] = beam[k]
  <2>1. j \in 1..BeamWidth
    BY <1>0
  <2>2. CASE j <= p
    BY <1>0, <1>1, <2>1, <2>2
  <2>3. CASE j > p
    <3>1. new[j] = beam[j - 1] /\ j - 1 \in 1..Slots
      BY <1>0, <1>1, <2>1, <2>3
    <3> QED
      BY <3>1
  <2> QED
    BY <1>0, <2>2, <2>3
<1>3. ASSUME beam[Slots] = Nothing, NEW k \in 1..Slots, beam[k] # Nothing
      PROVE  \E j \in 1..Slots : new[j] = beam[k]
  <2>1. k # Slots /\ k \in 1..BeamWidth /\ k + 1 \in 1..BeamWidth
    BY <1>0, <1>3
  <2>2. CASE k < p
    BY <1>0, <1>1, <2>1, <2>2
  <2>3. CASE k >= p
    <3>1. new[k + 1] = beam[(k + 1) - 1] /\ k + 1 \in 1..Slots
      BY <1>0, <1>1, <2>1, <2>3
    <3> QED
      BY <1>0, <3>1
  <2> QED
    BY <1>0, <2>2, <2>3
<1>4. new[p] = entry
  BY <1>0, <1>1
<1>5. HasTile(new, entry)
  BY <1>0, <1>4, SameTileSame DEF HasTile
<1>6. new[1] = entry \/ new[1] = beam[1]
  BY <1>0, <1>1
<1> QED
  BY <1>2, <1>3, <1>5, <1>6 DEF From, Holds, new

(* An insertion into a front leaves a front; unless an entry is lost, it holds all *)
(* there was and has the tile of the new one. *)
LEMMA InsertKeeps ==
  ASSUME NEW front \in Lossy, IsFront(front.beam), NEW entry \in Entries, entry # Nothing
  PROVE  LET new == Insert(front, entry)
         IN  /\ new \in Lossy /\ IsFront(new.beam) /\ From(new.beam, front.beam, entry)
             /\ ~new.lost => /\ ~front.lost /\ Holds(new.beam, front.beam)
                             /\ HasTile(new.beam, entry)
<1> DEFINE new == Insert(front, entry)
           beam == front.beam
<1>1. PICK run : /\ IsCarried(run, beam, entry)
                 /\ new = [beam |-> run[Slots].beam,
                           lost |-> front.lost \/ (~run[Slots].placed /\ run[Slots].item # Nothing)]
  BY InsertRuns
<1> HIDE DEF new
<1>2. Slots \in Nat \ {0} /\ Slots \in 0..Slots /\ beam \in Beams /\ front.lost \in BOOLEAN
  BY DrawWiresAssumption DEF Lossy
<1>3. new \in Lossy
  BY <1>1, <1>2 DEF IsCarried, Carry, Lossy
<1>4. From(beam, beam, entry) /\ Holds(beam, beam)
  BY DEF From, Holds
<1>5. CASE \A j \in 1..Slots : ~Stops(beam, entry, j)
  <2>1. run[Slots] = [beam |-> beam, item |-> entry, placed |-> FALSE]
    BY <1>1, <1>2, <1>5, CarriedOn
  <2>2. run[Slots].beam = beam /\ run[Slots].item = entry /\ run[Slots].placed = FALSE
    BY <2>1
  <2>3. new.beam = beam /\ new.lost
    BY <1>1, <1>2, <2>2
  <2> QED
    BY <1>3, <1>4, <2>3 DEF new
<1>6. CASE \E j \in 1..Slots : Stops(beam, entry, j)
  <2> DEFINE T == {j \in 1..Slots : Stops(beam, entry, j)}
  <2>1. PICK p \in T : \A j \in T : p <= j
    <3>1. T \subseteq Nat /\ T # {}
      BY <1>6
    <3> HIDE DEF T
    <3> QED
      BY <3>1, LeastNat
  <2>2. p \in 1..Slots /\ Stops(beam, entry, p)
    OBVIOUS
  <2>3. ASSUME NEW j \in 1..(p - 1) PROVE ~Stops(beam, entry, j)
    <3>1. j \in 1..Slots /\ ~(p <= j)
      BY <1>2, <2>2
    <3>2. j \notin T
      BY <2>1, <3>1
    <3> QED
      BY <3>1, <3>2
  <2>4. FirstStop(beam, entry, p) /\ Slots \in p..Slots
    BY <1>2, <2>2, <2>3 DEF FirstStop
  <2>5. CASE SameTile(beam[p], entry)
    <3>1. run[Slots].beam = beam /\ run[Slots].placed = TRUE
      BY <1>1, <2>4, <2>5, CarriedToItsTile
    <3>2. new.beam = beam /\ (new.lost <=> front.lost)
      BY <1>1, <1>2, <3>1
    <3>3. HasTile(beam, entry)
      BY <2>2, <2>5 DEF HasTile
    <3> QED
      BY <1>3, <1>4, <3>2, <3>3 DEF new
  <2>6. CASE ~SameTile(beam[p], entry)
    <3>1. /\ run[Slots].beam = Moved(beam, entry, p, Slots)
          /\ run[Slots].item = beam[Slots]
          /\ run[Slots].placed => beam[Slots] = Nothing
      BY <1>1, <2>4, <2>6, CarriedIn
    <3>2. /\ new.beam = Moved(beam, entry, p, Slots)
          /\ ~new.lost => ~front.lost /\ beam[Slots] = Nothing
      BY <1>1, <1>2, <3>1
    <3>3. IsFront(new.beam)
      BY <2>4, <2>6, <3>2, MovedIsFront
    <3>4. /\ From(new.beam, beam, entry) /\ HasTile(new.beam, entry)
          /\ beam[Slots] = Nothing => Holds(new.beam, beam)
      BY <2>4, <3>2, MovedKeeps
    <3> QED
      BY <1>3, <3>2, <3>3, <3>4 DEF new
  <2> QED
    BY <2>5, <2>6
<1> QED
  BY <1>5, <1>6

-----------------------------------------------------------------------------
(* The expansion. *)

Tiles == DOMAIN graph

(* What a job is made of. *)
LEMMA JobParts ==
  ASSUME job \in Jobs
  PROVE  /\ IsFiniteSet(Tiles) /\ Tiles \subseteq Nat \X Nat
         /\ \A t \in Tiles : graph[t] \in Seq(Tiles) /\ After(t) \subseteq Tiles
         /\ \A a, b \in Tiles : Distance[<<a, b>>] \in Nat
         /\ Len(pairs) \in Nat /\ job.padding \in Nat
         /\ \A i \in Items : Sited(i) => Stub(i) \in Tiles /\ SourcePos(i) \in Tiles
<1>1. /\ job.padding \in Nat /\ IsFiniteSet(Tiles) /\ Tiles \subseteq Nat \X Nat
      /\ graph \in [Tiles -> Seq(Tiles)]
      /\ pairs \in Seq([source : Tiles, stub : Tiles] \cup {NoSites})
      /\ \A a, b \in Tiles : Distance[<<a, b>>] \in Nat
  BY JobsAssumption DEF Tiles
<1> HIDE DEF Tiles
<1>2. \A t \in Tiles : graph[t] \in Seq(Tiles) /\ After(t) \subseteq Tiles
  BY <1>1 DEF After
<1>3. ASSUME NEW i \in Items, Sited(i) PROVE Stub(i) \in Tiles /\ SourcePos(i) \in Tiles
  <2>1. i + 1 \in 1..Len(pairs)
    BY <1>1, <1>3 DEF Items, Sited
  <2>2. pairs[i + 1] \in [source : Tiles, stub : Tiles]
    BY <1>1, <1>3, <2>1 DEF Sited
  <2> QED
    BY <2>2 DEF Stub, SourcePos
<1> QED
  BY <1>1, <1>2, <1>3

(* An entry that is inserted says where it is and the steps made. *)
LEMMA TowardsIsEntry ==
  ASSUME job \in Jobs, NEW i \in Items, Sited(i), NEW head \in Entries, NEW tile \in Tiles
  PROVE  /\ Towards(i, head, tile) \in Entries /\ Towards(i, head, tile) # Nothing
         /\ tile_to_coords(Towards(i, head, tile)) = tile
         /\ Previous(Towards(i, head, tile)) = (Previous(head) + 1) % PreviousMod
<1>1. /\ tile \in Nat \X Nat /\ SourcePos(i) \in Tiles /\ Distance[<<SourcePos(i), tile>>] \in Nat
      /\ Previous(head) \in Nat
  BY JobParts, EntryFields DEF Previous
<1> DEFINE cost == Distance[<<SourcePos(i), tile>>] + Previous(head) * 32
<1>2. cost \in Nat
  BY <1>1
<1>3. Towards(i, head, tile) =
        <<cost % CostMod, (Previous(head) + 1) % PreviousMod, tile[2], tile[1]>>
  BY DEF Towards, combine
<1> HIDE DEF cost
<1>4. cost % CostMod \in 0..(CostMod - 1) /\ (Previous(head) + 1) % PreviousMod \in Nat
  BY <1>1, <1>2, DrawWiresAssumption
<1>5. tile[1] \in Nat /\ tile[2] \in Nat /\ tile = <<tile[1], tile[2]>>
  BY <1>1
<1>6. cost % CostMod # CostMod
  BY <1>4, DrawWiresAssumption
<1> QED
  BY <1>3, <1>4, <1>5, <1>6 DEF Entries, Nothing, tile_to_coords, Previous

LEMMA RestIsFront ==
  ASSUME NEW beam, IsFront(beam)
  PROVE  IsFront(Rest(beam))
<1>0. /\ Slots \in Nat \ {0} /\ BeamWidth \in Nat /\ Slots <= BeamWidth
      /\ beam \in [1..BeamWidth -> Entries] /\ Nothing \in Entries
  BY DrawWiresAssumption DEF IsFront, Entries
<1>1. \A j \in 1..BeamWidth : Rest(beam)[j] = IF j < BeamWidth THEN beam[j + 1] ELSE Nothing
  BY DEF Rest
<1>2. Rest(beam) \in [1..BeamWidth -> Entries]
  BY <1>0 DEF Rest
<1>3. ASSUME NEW j \in Slots..BeamWidth PROVE Rest(beam)[j] = Nothing
  <2>1. j \in 1..BeamWidth /\ (j < BeamWidth => j + 1 \in (Slots + 1)..BeamWidth)
    BY <1>0
  <2> QED
    BY <1>1, <2>1 DEF IsFront
<1>4. ASSUME NEW j \in 1..(Slots - 1)
      PROVE  /\ ~Less(Rest(beam)[j + 1], Rest(beam)[j])
             /\ Rest(beam)[j] # Nothing => ~SameTile(Rest(beam)[j], Rest(beam)[j + 1])
  <2>1. Rest(beam)[j] = beam[j + 1] /\ beam[j + 1] \in Entries
    BY <1>0, <1>1
  <2>2. CASE j + 1 = Slots
    <3>1. Rest(beam)[j + 1] = Nothing
      BY <1>0, <1>3, <2>2
    <3> QED
      BY <2>1, <3>1, NothingIsLast DEF SameTile
  <2>3. CASE j + 1 < Slots
    <3>1. Rest(beam)[j + 1] = beam[(j + 1) + 1] /\ j + 1 \in 1..(Slots - 1)
      BY <1>0, <1>1, <2>3
    <3> QED
      BY <2>1, <3>1 DEF IsFront
  <2> QED
    BY <1>0, <2>2, <2>3
<1> QED
  BY <1>0, <1>2, <1>3, <1>4 DEF IsFront

\* What the expansion has made of a front after some of the tiles
Cur(beam) == tile_to_coords(beam[1])
Fresh(i, beam, e) == \E t \in After(Cur(beam)) : e = Towards(i, beam[1], t)

Expanded(i, beam, k, front) ==
  /\ front \in Lossy /\ IsFront(front.beam)
  /\ \A j \in 1..Slots : \/ Fresh(i, beam, front.beam[j])
                         \/ \E m \in 1..Slots : front.beam[j] = Rest(beam)[m]
  /\ Fresh(i, beam, front.beam[1]) \/ front.beam[1] = Rest(beam)[1]
  /\ ~front.lost =>
       /\ ~lost[i] /\ Holds(front.beam, Rest(beam))
       /\ \A l \in 1..k : graph[Cur(beam)][l] # Cur(beam) =>
            HasTile(front.beam, Towards(i, beam[1], graph[Cur(beam)][l]))

(* A tile more. *)
LEMMA ExpandedOn ==
  ASSUME job \in Jobs, NEW i \in Items, Sited(i), NEW beam, IsFront(beam),
         Cur(beam) \in Tiles, NEW k \in 1..Len(graph[Cur(beam)]),
         graph[Cur(beam)][k] # Cur(beam),
         NEW front, Expanded(i, beam, k - 1, front)
  PROVE  Expanded(i, beam, k, Insert(front, Towards(i, beam[1], graph[Cur(beam)][k])))
<1> DEFINE t == graph[Cur(beam)][k]
           entry == Towards(i, beam[1], t)
           new == Insert(front, entry)
<1>1. t \in Tiles /\ t \in After(Cur(beam)) /\ beam[1] \in Entries
  <2>1. graph[Cur(beam)] \in Seq(Tiles)
    BY JobParts
  <2>2. 1 \in 1..BeamWidth
    BY DrawWiresAssumption
  <2> QED
    BY <2>1, <2>2 DEF After, IsFront
<1> HIDE DEF t
<1>2. entry \in Entries /\ entry # Nothing
  BY <1>1, TowardsIsEntry
<1>3. Fresh(i, beam, entry)
  BY <1>1 DEF Fresh
<1> HIDE DEF entry
<1>4. /\ new \in Lossy /\ IsFront(new.beam) /\ From(new.beam, front.beam, entry)
      /\ ~new.lost => /\ ~front.lost /\ Holds(new.beam, front.beam)
                      /\ HasTile(new.beam, entry)
  BY <1>2, InsertKeeps DEF Expanded
<1> HIDE DEF new
<1>5. \A j \in 1..Slots : \/ Fresh(i, beam, new.beam[j])
                          \/ \E m \in 1..Slots : new.beam[j] = Rest(beam)[m]
  BY <1>3, <1>4 DEF Expanded, From
<1>6. Fresh(i, beam, new.beam[1]) \/ new.beam[1] = Rest(beam)[1]
  BY <1>3, <1>4 DEF Expanded, From
<1>7. ASSUME ~new.lost
      PROVE  /\ ~lost[i] /\ Holds(new.beam, Rest(beam))
             /\ \A l \in 1..k : graph[Cur(beam)][l] # Cur(beam) =>
                  HasTile(new.beam, Towards(i, beam[1], graph[Cur(beam)][l]))
  <2>1. ~front.lost /\ Holds(new.beam, front.beam) /\ HasTile(new.beam, entry)
    BY <1>4, <1>7
  <2>2. /\ ~lost[i] /\ Holds(front.beam, Rest(beam))
        /\ \A l \in 1..(k - 1) : graph[Cur(beam)][l] # Cur(beam) =>
             HasTile(front.beam, Towards(i, beam[1], graph[Cur(beam)][l]))
    BY <2>1 DEF Expanded
  <2>3. Holds(new.beam, Rest(beam))
    <3> SUFFICES ASSUME NEW m \in 1..Slots, Rest(beam)[m] # Nothing
                 PROVE  \E j \in 1..Slots : new.beam[j] = Rest(beam)[m]
      BY DEF Holds
    <3>1. PICK j \in 1..Slots : front.beam[j] = Rest(beam)[m]
      BY <2>2 DEF Holds
    <3> QED
      BY <2>1, <3>1 DEF Holds
  <2>4. ASSUME NEW l \in 1..k, graph[Cur(beam)][l] # Cur(beam)
        PROVE  HasTile(new.beam, Towards(i, beam[1], graph[Cur(beam)][l]))
    <3>1. CASE l = k
      BY <2>1, <3>1 DEF entry, t
    <3>2. CASE l # k
      <4> DEFINE old == Towards(i, beam[1], graph[Cur(beam)][l])
      <4>1. l \in 1..(k - 1)
        BY <3>2
      <4>2. graph[Cur(beam)][l] \in Tiles
        <5>1. graph[Cur(beam)] \in Seq(Tiles)
          BY JobParts
        <5>2. l \in 1..Len(graph[Cur(beam)])
          BY <4>1, <5>1
        <5> QED
          BY <5>1, <5>2
      <4>3. old # Nothing
        BY <1>1, <4>2, TowardsIsEntry
      <4> HIDE DEF old
      <4>4. PICK j \in 1..Slots : SameTile(front.beam[j], old)
        BY <2>2, <2>4, <4>1 DEF HasTile, old
      <4>5. front.beam[j] # Nothing
        BY <4>3, <4>4 DEF SameTile
      <4>6. PICK m \in 1..Slots : new.beam[m] = front.beam[j]
        BY <2>1, <4>5 DEF Holds
      <4> QED
        BY <4>4, <4>6 DEF HasTile, old
    <3> QED
      BY <3>1, <3>2
  <2> QED
    BY <2>2, <2>3, <2>4
<1> QED
  BY <1>4, <1>5, <1>6, <1>7 DEF Expanded, new, entry, t

(* The whole expansion. *)
LEMMA ExpandRuns ==
  ASSUME job \in Jobs, NEW i \in Items, Sited(i), NEW beam, IsFront(beam),
         Cur(beam) \in Tiles, lost[i] \in BOOLEAN
  PROVE  Expanded(i, beam, Len(graph[Cur(beam)]), Expand(i, beam))
<1> DEFINE cur == Cur(beam)
           tiles == graph[cur]
           N == Len(tiles)
           start == [beam |-> Rest(beam), lost |-> lost[i]]
           S == {f \in Lossy : IsFront(f.beam)}
           On(f, k) == IF tiles[k] = cur THEN f ELSE Insert(f, Towards(i, beam[1], tiles[k]))
           step == [k \in 1..N |-> [f \in S |-> On(f, k)]]
           IsRun(f) == f = [k \in 0..N |->
                              IF k = 0 THEN start
                              ELSE IF tiles[k] = cur THEN f[k - 1]
                              ELSE Insert(f[k - 1], Towards(i, beam[1], tiles[k]))]
           front == CHOOSE f : IsRun(f)
<1>1. tiles \in Seq(Tiles) /\ N \in Nat
  BY JobParts
<1>2. start \in S
  BY RestIsFront DEF Lossy, Beams, IsFront
<1>3. ASSUME NEW k \in 1..N, NEW f \in S PROVE On(f, k) \in S
  <2>1. tiles[k] \in Tiles /\ beam[1] \in Entries
    BY <1>1, DrawWiresAssumption DEF IsFront
  <2>2. Towards(i, beam[1], tiles[k]) \in Entries /\ Towards(i, beam[1], tiles[k]) # Nothing
    BY <2>1, TowardsIsEntry
  <2>3. Insert(f, Towards(i, beam[1], tiles[k])) \in S
    BY <2>2, InsertKeeps
  <2> QED
    BY <2>3
<1>4. ASSUME NEW k \in 1..N, NEW f \in S
      PROVE  step[k][f] = On(f, k) /\ step[k][f] \in S
  <2> HIDE DEF On, S, N
  <2> QED
    BY <1>3
<1>5. PICK run \in [0..N -> S] : Repeats(run, start, step, N)
  <2> HIDE DEF start, step, S, N
  <2> QED
    BY <1>1, <1>2, <1>4, RepeatsExist
<1>6. ASSUME NEW k \in 1..N PROVE run[k] = On(run[k - 1], k)
  <2>1. k - 1 \in 0..N
    BY <1>1
  <2>2. run[k - 1] \in S
    BY <1>5, <2>1
  <2> HIDE DEF start, step, S, N, On
  <2> QED
    BY <1>4, <1>5, <2>2 DEF Repeats
<1>7. IsRun(run)
  <2>1. run[0] = start
    BY <1>5 DEF Repeats
  <2> HIDE DEF start, S, N, step
  <2>2. run = [k \in 0..N |-> run[k]]
    BY <1>5
  <2>3. ASSUME NEW k \in 0..N
        PROVE  run[k] = IF k = 0 THEN start
                        ELSE IF tiles[k] = cur THEN run[k - 1]
                        ELSE Insert(run[k - 1], Towards(i, beam[1], tiles[k]))
    <3>1. CASE k = 0
      BY <2>1, <3>1
    <3>2. CASE k # 0
      BY <1>1, <1>6, <3>2
    <3> QED
      BY <3>1, <3>2
  <2> HIDE DEF tiles, cur
  <2> QED
    BY <2>2, <2>3
<1>8. IsRun(front)
  <2> HIDE DEF IsRun
  <2> QED
    BY <1>7
<1>9. Expand(i, beam) = front[N]
  BY DEF Expand, Cur
<1> HIDE DEF front
<1> DEFINE Bad == {k \in 0..N : ~Expanded(i, beam, k, front[k])}
<1>10. Bad = {}
  <2> SUFFICES ASSUME Bad # {} PROVE FALSE
    OBVIOUS
  <2>1. PICK k \in Bad : \A l \in Bad : k <= l
    <3>1. Bad \subseteq Nat
      BY <1>1
    <3> HIDE DEF Bad
    <3> QED
      BY <3>1, LeastNat
  <2>2. k \in 0..N /\ ~Expanded(i, beam, k, front[k])
    OBVIOUS
  <2>3. CASE k = 0
    <3>1. front[k] = start
      <4> HIDE DEF N, start, tiles
      <4> QED
        BY <1>8, <2>2, <2>3
    <3>2. start.beam = Rest(beam) /\ start.lost = lost[i]
      OBVIOUS
    <3>3. start \in Lossy /\ IsFront(start.beam)
      BY <1>2
    <3> HIDE DEF start
    <3>4. Holds(Rest(beam), Rest(beam))
      BY DEF Holds
    <3> QED
      BY <2>2, <2>3, <3>1, <3>2, <3>3, <3>4 DEF Expanded
  <2>4. CASE k # 0
    <3>1. k - 1 \in 0..N /\ k \in 1..N
      BY <1>1, <2>2, <2>4
    <3>2. k - 1 \notin Bad
      <4> HIDE DEF Bad
      <4> QED
        BY <1>1, <2>1, <2>2, <2>4
    <3>3. Expanded(i, beam, k - 1, front[k - 1])
      BY <3>1, <3>2
    <3>4. front[k] = On(front[k - 1], k)
      <4> HIDE DEF N, start, tiles, cur
      <4> QED
        BY <1>8, <2>2, <2>4
    <3>5. CASE tiles[k] = cur
      <4>1. front[k] = front[k - 1]
        BY <3>4, <3>5
      <4>2. \A l \in 1..k : tiles[l] # cur => l \in 1..(k - 1)
        BY <3>1, <3>5
      <4> QED
        BY <2>2, <3>3, <4>1, <4>2 DEF Expanded
    <3>6. CASE tiles[k] # cur
      <4>1. Expanded(i, beam, k, Insert(front[k - 1], Towards(i, beam[1], tiles[k])))
        BY <3>1, <3>3, <3>6, ExpandedOn
      <4> QED
        BY <2>2, <3>4, <3>6, <4>1
    <3> QED
      BY <3>5, <3>6
  <2> QED
    BY <2>3, <2>4
<1>11. Expanded(i, beam, N, front[N])
  <2>1. N \in 0..N /\ N \notin Bad
    BY <1>1, <1>10
  <2> QED
    BY <2>1
<1> QED
  BY <1>9, <1>11

-----------------------------------------------------------------------------
(* Walks. *)

Wave(B) == UNION {After(t) : t \in B}
IsWalk(run, from, n) == run[0] = {from} /\ \A k \in 1..n : run[k] = Wave(run[k - 1])

(* However the waves are come by, Walks is the last of them. *)
LEMMA WalksIsLast ==
  ASSUME NEW from, NEW n \in Nat, NEW run, IsWalk(run, from, n)
  PROVE  Walks(from, n) = run[n]
<1> DEFINE IsRun(f) == f = [k \in 0..n |-> IF k = 0 THEN {from}
                                           ELSE UNION {After(t) : t \in f[k - 1]}]
           after == CHOOSE f : IsRun(f)
<1>1. IsRun([k \in 0..n |-> run[k]])
  <2> DEFINE f == [k \in 0..n |-> run[k]]
  <2>1. ASSUME NEW k \in 0..n
        PROVE  f[k] = IF k = 0 THEN {from} ELSE UNION {After(t) : t \in f[k - 1]}
    <3>1. CASE k = 0
      BY <3>1 DEF IsWalk
    <3>2. CASE k # 0
      <4>1. k \in 1..n /\ k - 1 \in 0..n
        BY <3>2
      <4>2. f[k] = run[k] /\ f[k - 1] = run[k - 1]
        BY <4>1
      <4> QED
        BY <3>2, <4>1, <4>2 DEF IsWalk, Wave
    <3> QED
      BY <3>1, <3>2
  <2>2. f = [k \in 0..n |-> f[k]]
    OBVIOUS
  <2> DEFINE value(k) == IF k = 0 THEN {from} ELSE UNION {After(t) : t \in f[k - 1]}
  <2>3. \A k \in 0..n : f[k] = value(k)
    BY <2>1
  <2> HIDE DEF f, value
  <2>4. f = [k \in 0..n |-> value(k)]
    BY <2>2, <2>3
  <2>5. IsRun(f)
    BY <2>4 DEF value
  <2> QED
    BY <2>5 DEF f
<1>2. IsRun(after)
  <2> HIDE DEF IsRun
  <2> QED
    BY <1>1
<1>3. Walks(from, n) = after[n]
  BY DEF Walks
<1> HIDE DEF after
<1> DEFINE Bad == {k \in 0..n : after[k] # run[k]}
<1>4. Bad = {}
  <2> SUFFICES ASSUME Bad # {} PROVE FALSE
    OBVIOUS
  <2>1. PICK k \in Bad : \A l \in Bad : k <= l
    <3>1. Bad \subseteq Nat
      OBVIOUS
    <3> HIDE DEF Bad
    <3> QED
      BY <3>1, LeastNat
  <2>2. k \in 0..n /\ after[k] # run[k]
    OBVIOUS
  <2>3. k # 0
    BY <1>2, <2>2 DEF IsWalk
  <2>4. k - 1 \in 0..n /\ k \in 1..n /\ k - 1 \notin Bad
    <3> HIDE DEF Bad
    <3> QED
      BY <2>1, <2>2, <2>3
  <2>5. after[k - 1] = run[k - 1]
    BY <2>4
  <2>6. after[k] = UNION {After(t) : t \in after[k - 1]}
    BY <1>2, <2>2, <2>3
  <2> QED
    BY <2>2, <2>4, <2>5, <2>6 DEF IsWalk, Wave
<1>5. n \in 0..n /\ n \notin Bad
  BY <1>4
<1> QED
  BY <1>3, <1>5

LEMMA WalkRuns ==
  ASSUME job \in Jobs, NEW from \in Tiles, NEW n \in Nat
  PROVE  \E run \in [0..n -> SUBSET Tiles] : IsWalk(run, from, n)
<1> DEFINE S == SUBSET Tiles
           step == [k \in 1..n |-> [B \in S |-> Wave(B)]]
           start == {from}
<1>1. ASSUME NEW B \in S PROVE Wave(B) \in S
  BY JobParts DEF Wave
<1>2. ASSUME NEW k \in 1..n, NEW B \in S PROVE step[k][B] = Wave(B) /\ step[k][B] \in S
  <2> HIDE DEF S
  <2> QED
    BY <1>1
<1>3. start \in S
  OBVIOUS
<1>4. PICK run \in [0..n -> S] : Repeats(run, start, step, n)
  <2> HIDE DEF start, step, S
  <2> QED
    BY <1>2, <1>3, RepeatsExist
<1>5. ASSUME NEW k \in 1..n PROVE run[k] = Wave(run[k - 1])
  <2>1. k - 1 \in 0..n
    OBVIOUS
  <2>2. run[k - 1] \in S
    BY <1>4, <2>1
  <2> HIDE DEF step, S
  <2> QED
    BY <1>2, <1>4, <2>2 DEF Repeats
<1>6. IsWalk(run, from, n)
  BY <1>4, <1>5 DEF IsWalk, Repeats
<1> QED
  BY <1>6

(* One step more. *)
LEMMA WalksStep ==
  ASSUME job \in Jobs, NEW from \in Tiles, NEW n \in Nat
  PROVE  /\ Walks(from, 0) = {from}
         /\ Walks(from, n) \subseteq Tiles
         /\ Walks(from, n + 1) = Wave(Walks(from, n))
<1>1. n + 1 \in Nat /\ 0 \in Nat
  OBVIOUS
<1>2. PICK run \in [0..(n + 1) -> SUBSET Tiles] : IsWalk(run, from, n + 1)
  BY <1>1, WalkRuns
<1>3. IsWalk(run, from, n) /\ IsWalk(run, from, 0)
  BY <1>2 DEF IsWalk
<1>4. Walks(from, n + 1) = run[n + 1] /\ Walks(from, n) = run[n] /\ Walks(from, 0) = run[0]
  BY <1>1, <1>2, <1>3, WalksIsLast
<1>5. run[n] \in SUBSET Tiles /\ run[0] = {from}
  BY <1>2 DEF IsWalk
<1>6. run[n + 1] = Wave(run[n])
  <2>1. n + 1 \in 1..(n + 1) /\ (n + 1) - 1 = n
    OBVIOUS
  <2> QED
    BY <1>2, <2>1 DEF IsWalk
<1> QED
  BY <1>4, <1>5, <1>6

(* A walk of a step and n more goes on from the tile of its first step, *)
LEMMA WalksFirst ==
  ASSUME job \in Jobs, NEW from \in Tiles, NEW n \in Nat
  PROVE  Walks(from, n + 1) = UNION {Walks(t, n) : t \in After(from)}
<1> DEFINE Beyond(m) == UNION {Walks(t, m) : t \in After(from)}
           Bad == {m \in Nat : Walks(from, m + 1) # Beyond(m)}
<1>1. SUFFICES ASSUME Bad # {} PROVE FALSE
  OBVIOUS
<1>2. PICK m \in Bad : \A l \in Bad : m <= l
  <2>1. Bad \subseteq Nat
    OBVIOUS
  <2> HIDE DEF Bad
  <2> QED
    BY <1>1, <2>1, LeastNat
<1>3. m \in Nat /\ Walks(from, m + 1) # Beyond(m)
  OBVIOUS
<1>4. After(from) \subseteq Tiles
  BY JobParts
<1>5. CASE m = 0
  <2>1. Walks(from, 0 + 1) = Wave({from})
    BY WalksStep
  <2>2. Wave({from}) = After(from)
    BY DEF Wave
  <2>3. \A t \in After(from) : Walks(t, 0) = {t}
    BY <1>4, WalksStep
  <2>4. Beyond(0) = After(from)
    BY <2>3
  <2> HIDE DEF Beyond
  <2> QED
    BY <1>3, <1>5, <2>1, <2>2, <2>4
<1>6. CASE m # 0
  <2>1. m - 1 \in Nat /\ m - 1 \notin Bad
    <3> HIDE DEF Bad
    <3> QED
      BY <1>2, <1>3, <1>6
  <2>2. PICK l \in Nat : l = m - 1
    BY <2>1
  <2>3. m = l + 1 /\ Walks(from, l + 1) = Beyond(l)
    BY <1>3, <2>1, <2>2
  <2>4. Walks(from, m + 1) = Wave(Walks(from, m))
    BY <1>3, WalksStep
  <2>5. \A t \in After(from) : Walks(t, l + 1) = Wave(Walks(t, l))
    BY <1>4, WalksStep
  <2>6. Wave(Beyond(l)) = Beyond(l + 1)
    BY <2>5 DEF Wave
  <2> HIDE DEF Beyond
  <2> QED
    BY <1>3, <2>3, <2>4, <2>6
<1> QED
  BY <1>5, <1>6

(* A tile that is reached by a walk of any length is reached by one that is no longer *)
(* than there are tiles: on the shortest walk each tile is of another distance.       *)
Nearest(from, t, n) == t \in Walks(from, n) /\ \A m \in 0..(n - 1) : t \notin Walks(from, m)

LEMMA NearestBefore ==
  ASSUME job \in Jobs, NEW from \in Tiles, NEW n \in Nat, NEW to, Nearest(from, to, n + 1)
  PROVE  \E t \in Tiles : Nearest(from, t, n)
<1>1. to \in Wave(Walks(from, n)) /\ Walks(from, n) \subseteq Tiles
  BY WalksStep DEF Nearest
<1>2. PICK t \in Walks(from, n) : to \in After(t)
  BY <1>1 DEF Wave
<1>3. ASSUME NEW m \in 0..(n - 1) PROVE t \notin Walks(from, m)
  <2> SUFFICES ASSUME t \in Walks(from, m) PROVE FALSE
    OBVIOUS
  <2>1. m \in Nat /\ m + 1 \in 0..((n + 1) - 1)
    OBVIOUS
  <2>2. Walks(from, m + 1) = Wave(Walks(from, m))
    BY <2>1, WalksStep
  <2>3. to \in Walks(from, m + 1)
    BY <1>2, <2>2 DEF Wave
  <2> QED
    BY <2>1, <2>3 DEF Nearest
<1> QED
  BY <1>1, <1>2, <1>3 DEF Nearest

LEMMA NearestAll ==
  ASSUME job \in Jobs, NEW from \in Tiles, NEW n \in Nat, NEW to \in Tiles,
         Nearest(from, to, n), NEW k \in 0..n
  PROVE  \E t \in Tiles : Nearest(from, t, k)
<1> DEFINE Has(m) == \E t \in Tiles : Nearest(from, t, m)
           Bad == {d \in 0..n : ~Has(n - d)}
<1>1. SUFFICES Bad = {}
  <2>1. n - k \in 0..n /\ n - (n - k) = k
    OBVIOUS
  <2>2. n - k \notin Bad
    BY <1>1
  <2>3. Has(n - (n - k))
    BY <2>1, <2>2
  <2> HIDE DEF Has
  <2>4. Has(k)
    BY <2>1, <2>3
  <2> QED
    BY <2>4 DEF Has
<1>2. SUFFICES ASSUME Bad # {} PROVE FALSE
  OBVIOUS
<1>3. PICK d \in Bad : \A c \in Bad : d <= c
  <2>1. Bad \subseteq Nat
    OBVIOUS
  <2> HIDE DEF Bad
  <2> QED
    BY <1>2, <2>1, LeastNat
<1>4. d \in 0..n /\ ~Has(n - d)
  OBVIOUS
<1>5. d # 0
  <2>1. Has(n)
    OBVIOUS
  <2> HIDE DEF Has
  <2> QED
    BY <1>4, <2>1
<1>6. d - 1 \in 0..n /\ d - 1 \notin Bad
  <2> HIDE DEF Bad
  <2> QED
    BY <1>3, <1>4, <1>5
<1>7. Has(n - (d - 1))
  BY <1>6
<1>8. n - d \in Nat /\ n - (d - 1) = (n - d) + 1
  BY <1>4
<1>9. PICK t \in Tiles : Nearest(from, t, (n - d) + 1)
  BY <1>7, <1>8
<1>10. Has(n - d)
  BY <1>8, <1>9, NearestBefore
<1> QED
  BY <1>4, <1>10

LEMMA LeadsIsReachable ==
  ASSUME job \in Jobs, NEW from \in Tiles, NEW to \in Tiles
  PROVE  Leads(from, to) <=> Reachable(from, to)
<1>0. IsFiniteSet(Tiles) /\ Cardinality(Tiles) \in Nat
  BY JobParts, FS_CardinalityType
<1>1. Reachable(from, to) => Leads(from, to)
  BY <1>0 DEF Reachable, Leads, Tiles
<1>2. ASSUME Leads(from, to) PROVE Reachable(from, to)
  <2> DEFINE T == {n \in Nat : to \in Walks(from, n)}
  <2>1. PICK n \in T : \A m \in T : n <= m
    <3>1. T \subseteq Nat /\ T # {}
      BY <1>2 DEF Leads
    <3> HIDE DEF T
    <3> QED
      BY <3>1, LeastNat
  <2>2. n \in Nat /\ to \in Walks(from, n)
    OBVIOUS
  <2>3. ASSUME NEW m \in 0..(n - 1) PROVE to \notin Walks(from, m)
    <3>1. m \in Nat /\ ~(n <= m)
      BY <2>2
    <3>2. m \notin T
      BY <2>1, <3>1
    <3> QED
      BY <3>1, <3>2
  <2>4. Nearest(from, to, n)
    BY <2>2, <2>3 DEF Nearest
  <2> HIDE DEF T
  <2>5. n <= Cardinality(Tiles)
    <3> SUFFICES ASSUME n > Cardinality(Tiles) PROVE FALSE
      BY <1>0, <2>2
    <3> DEFINE near == [k \in 0..n |-> CHOOSE t \in Tiles : Nearest(from, t, k)]
    <3>1. ASSUME NEW k \in 0..n PROVE near[k] \in Tiles /\ Nearest(from, near[k], k)
      <4>1. \E t \in Tiles : Nearest(from, t, k)
        BY <2>2, <2>4, NearestAll
      <4> QED
        BY <4>1
    <3>2. near \in [0..n -> Tiles]
      BY <3>1
    <3> HIDE DEF near
    <3>3. IsFiniteSet(0..n) /\ Cardinality(0..n) = n + 1
      <4>1. IsFiniteSet(0..n) /\ Cardinality(0..n) = IF 0 > n THEN 0 ELSE n - 0 + 1
        BY <2>2, FS_Interval
      <4> QED
        BY <2>2, <4>1
    <3>4. PICK k, l \in 0..n : k # l /\ near[k] = near[l]
      <4>1. Cardinality(Tiles) < Cardinality(0..n)
        BY <1>0, <2>2, <3>3
      <4> QED
        BY <1>0, <3>2, <3>3, <4>1, FS_PigeonHole
    <3>5. ASSUME NEW a \in 0..n, NEW b \in 0..n, a < b, near[a] = near[b] PROVE FALSE
      <4>1. a \in 0..(b - 1)
        BY <2>2, <3>5
      <4> QED
        BY <3>1, <3>5, <4>1 DEF Nearest
    <3> QED
      BY <2>2, <3>4, <3>5
  <2> QED
    BY <1>0, <2>2, <2>5 DEF Reachable, Tiles
<1> QED
  BY <1>1, <1>2

-----------------------------------------------------------------------------
(* A step of a search. *)

(* The head of a front that stands at the ends of walks is on a tile. *)
LEMMA HeadOnTile ==
  ASSUME job \in Jobs, NEW i \in Items, Sited(i), NEW beam, NEW bound \in Nat,
         OfWalks(i, beam, bound), NEW j \in 1..Slots, beam[j] # Nothing
  PROVE  tile_to_coords(beam[j]) \in Tiles
<1>1. PICK n \in 0..bound : tile_to_coords(beam[j]) \in Walks(Stub(i), n)
  BY DEF OfWalks
<1>2. n \in Nat /\ Stub(i) \in Tiles
  BY JobParts
<1> QED
  BY <1>1, <1>2, WalksStep

(* What the remainder of a sum is. *)
LEMMA StepsWrap ==
  ASSUME NEW n \in Nat, NEW m \in Nat \ {0}
  PROVE  ((n % m) + 1) % m = (n + 1) % m
<1>1. n % m \in 0..(m - 1) /\ n - (n % m) = m * (n \div m)
  <2>1. n % m \in 0..(m - 1)
    OBVIOUS
  <2>2. n - (n % m) = m * (n \div m)
    BY SMTT(30)
  <2> QED
    BY <2>1, <2>2
<1>2. PICK q \in Nat, r \in 0..(m - 1) : n = m * q + r /\ r = n % m
  <2>1. n \div m \in Nat
    BY SMTT(30)
  <2>2. PICK q \in Nat, r \in 0..(m - 1) : q = n \div m /\ r = n % m
    BY <1>1, <2>1
  <2>3. n - r = m * q
    BY <1>1, <2>2
  <2>4. PICK p \in Int : p = m * q
    BY SMTT(30)
  <2>5. n = p + r
    BY <2>3, <2>4
  <2>6. n = m * q + r
    BY <2>4, <2>5
  <2> QED
    BY <2>2, <2>6
<1>3. CASE r + 1 < m
  <2>1. (r + 1) % m = r + 1
    BY <1>2, <1>3, SMTT(30)
  <2>2. (m * q + (r + 1)) % m = r + 1
    BY <1>2, <1>3, SMTT(30)
  <2> QED
    BY <1>2, <2>1, <2>2, SMTT(30)
<1>4. CASE r + 1 = m
  <2>1. (r + 1) % m = 0
    BY <1>2, <1>4, SMTT(30)
  <2>2. n + 1 = m * (q + 1)
    <3>1. m * (q + 1) = m * q + m
      BY <1>2, SMTT(30)
    <3>2. PICK p \in Int : p = m * q
      BY <1>2, SMTT(30)
    <3>3. n = p + r
      BY <1>2, <3>2
    <3>4. n + 1 = p + m
      BY <1>2, <1>4, <3>3
    <3> QED
      BY <3>1, <3>2, <3>4
  <2>3. (m * (q + 1)) % m = 0
    BY <1>2, SMTT(30)
  <2> QED
    BY <1>2, <2>1, <2>2, <2>3
<1> QED
  BY <1>2, <1>3, <1>4

(* What a step leaves: a front, of walks of a step more, from which the source can *)
(* still be reached unless an entry is lost, and that does not start with the tile *)
(* it started with. *)
LEMMA ExpandKeeps ==
  ASSUME job \in Jobs, NEW i \in Items, Sited(i), NEW beam, IsFront(beam),
         beam[1] # Nothing, Cur(beam) # SourcePos(i), lost[i] \in BOOLEAN,
         NEW bound \in Nat, OfWalks(i, beam, bound)
  PROVE  LET front == Expand(i, beam)
         IN  /\ front.lost \in BOOLEAN /\ IsFront(front.beam)
             /\ OfWalks(i, front.beam, bound + 1)
             /\ ~front.lost => ~lost[i] /\ (Open(i, beam) => Open(i, front.beam))
             /\ ~SameTile(front.beam[1], beam[1])
<1> DEFINE front == Expand(i, beam)
           head == beam[1]
           cur == Cur(beam)
           tiles == graph[cur]
<1>0. /\ Slots \in Nat \ {0} /\ 1 \in 1..Slots /\ BeamWidth \in Nat /\ Slots <= BeamWidth
      /\ PreviousMod \in Nat \ {0}
  BY DrawWiresAssumption
<1>1. cur \in Tiles /\ tiles \in Seq(Tiles) /\ After(cur) \subseteq Tiles
  <2>1. cur \in Tiles
    BY <1>0, HeadOnTile DEF Cur
  <2> QED
    BY <2>1, JobParts
<1>2. Expanded(i, beam, Len(tiles), front)
  BY <1>1, ExpandRuns
<1>3. /\ front \in Lossy /\ IsFront(front.beam)
      /\ \A j \in 1..Slots : \/ Fresh(i, beam, front.beam[j])
                             \/ \E m \in 1..Slots : front.beam[j] = Rest(beam)[m]
      /\ Fresh(i, beam, front.beam[1]) \/ front.beam[1] = Rest(beam)[1]
      /\ ~front.lost =>
           /\ ~lost[i] /\ Holds(front.beam, Rest(beam))
           /\ \A l \in 1..Len(tiles) : tiles[l] # cur =>
                HasTile(front.beam, Towards(i, head, tiles[l]))
  BY <1>2 DEF Expanded
<1> HIDE DEF front
<1>4. /\ head \in Entries
      /\ \A m \in 1..Slots : Rest(beam)[m] # Nothing =>
           m + 1 \in 1..Slots /\ Rest(beam)[m] = beam[m + 1]
  <2>1. head \in Entries
    BY <1>0 DEF IsFront
  <2>2. ASSUME NEW m \in 1..Slots, Rest(beam)[m] # Nothing
        PROVE  m + 1 \in 1..Slots /\ Rest(beam)[m] = beam[m + 1]
    <3>1. m < BeamWidth /\ Rest(beam)[m] = beam[m + 1]
      BY <1>0, <2>2 DEF Rest
    <3>2. m # Slots
      BY <1>0, <2>2, <3>1 DEF IsFront
    <3> QED
      BY <1>0, <3>1, <3>2
  <2> QED
    BY <2>1, <2>2
<1>5. \A e : Fresh(i, beam, e) =>
        \E t \in After(cur) : /\ e = Towards(i, head, t) /\ tile_to_coords(e) = t
                              /\ Previous(e) = (Previous(head) + 1) % PreviousMod
  <2>1. \A t \in After(cur) :
          /\ tile_to_coords(Towards(i, head, t)) = t
          /\ Previous(Towards(i, head, t)) = (Previous(head) + 1) % PreviousMod
    BY <1>1, <1>4, TowardsIsEntry
  <2> HIDE DEF head
  <2> QED
    BY <2>1 DEF Fresh, head
<1>6. OfWalks(i, front.beam, bound + 1)
  <2> SUFFICES ASSUME NEW j \in 1..Slots, front.beam[j] # Nothing
               PROVE  \E n \in 0..(bound + 1) :
                        /\ n % PreviousMod = Previous(front.beam[j])
                        /\ tile_to_coords(front.beam[j]) \in Walks(Stub(i), n)
    BY DEF OfWalks
  <2>1. CASE Fresh(i, beam, front.beam[j])
    <3>1. PICK t \in After(cur) :
            /\ tile_to_coords(front.beam[j]) = t
            /\ Previous(front.beam[j]) = (Previous(head) + 1) % PreviousMod
      BY <1>5, <2>1
    <3>2. PICK n \in 0..bound : /\ n % PreviousMod = Previous(head)
                                /\ cur \in Walks(Stub(i), n)
      BY <1>0 DEF OfWalks, Cur
    <3>3. n \in Nat /\ n + 1 \in 0..(bound + 1) /\ Stub(i) \in Tiles
      BY JobParts
    <3>4. t \in Walks(Stub(i), n + 1)
      <4>1. Walks(Stub(i), n + 1) = Wave(Walks(Stub(i), n))
        BY <3>3, WalksStep
      <4> QED
        BY <3>1, <3>2, <4>1 DEF Wave
    <3>5. (n + 1) % PreviousMod = Previous(front.beam[j])
      BY <1>0, <3>1, <3>2, <3>3, StepsWrap
    <3> QED
      BY <3>1, <3>3, <3>4, <3>5
  <2>2. CASE ~Fresh(i, beam, front.beam[j])
    <3>1. PICK m \in 1..Slots : front.beam[j] = Rest(beam)[m]
      BY <1>3, <2>2
    <3>2. m + 1 \in 1..Slots /\ front.beam[j] = beam[m + 1]
      BY <1>4, <3>1
    <3>3. PICK n \in 0..bound :
            /\ n % PreviousMod = Previous(beam[m + 1])
            /\ tile_to_coords(beam[m + 1]) \in Walks(Stub(i), n)
      BY <3>2 DEF OfWalks
    <3>4. n \in 0..(bound + 1)
      OBVIOUS
    <3> QED
      BY <3>2, <3>3, <3>4
  <2> QED
    BY <2>1, <2>2
<1>7. ASSUME ~front.lost, Open(i, beam), Leads(Stub(i), SourcePos(i))
      PROVE  \E j \in 1..Slots : /\ front.beam[j] # Nothing
                                 /\ Leads(tile_to_coords(front.beam[j]), SourcePos(i))
  <2>1. PICK k \in 1..Slots :
          beam[k] # Nothing /\ Leads(tile_to_coords(beam[k]), SourcePos(i))
    BY <1>7 DEF Open
  <2>2. CASE k = 1
    <3>1. PICK n \in Nat : SourcePos(i) \in Walks(cur, n)
      BY <2>1, <2>2 DEF Leads, Cur
    <3>2. n # 0
      BY <1>1, <3>1, WalksStep
    <3>3. n - 1 \in Nat /\ (n - 1) + 1 = n
      BY <3>2
    <3>4. Walks(cur, n) = UNION {Walks(t, n - 1) : t \in After(cur)}
      BY <1>1, <3>3, WalksFirst
    <3>5. PICK t \in After(cur) : SourcePos(i) \in Walks(t, n - 1)
      BY <3>1, <3>4
    <3>6. PICK l \in 1..Len(tiles) : tiles[l] = t /\ t # cur
      BY <1>1 DEF After
    <3>7. PICK j \in 1..Slots : SameTile(front.beam[j], Towards(i, head, t))
      BY <1>3, <1>7, <3>6 DEF HasTile
    <3>8. Towards(i, head, t) # Nothing /\ tile_to_coords(Towards(i, head, t)) = t
      BY <1>1, <1>4, TowardsIsEntry
    <3>9. front.beam[j] # Nothing /\ tile_to_coords(front.beam[j]) = t
      BY <3>7, <3>8 DEF SameTile
    <3> QED
      BY <3>3, <3>5, <3>9 DEF Leads
  <2>3. CASE k # 1
    <3>1. k - 1 \in 1..Slots /\ (k - 1) + 1 = k /\ k - 1 < BeamWidth
      BY <1>0, <2>3
    <3>2. Rest(beam)[k - 1] = beam[k]
      BY <1>0, <3>1 DEF Rest
    <3>3. PICK j \in 1..Slots : front.beam[j] = beam[k]
      BY <1>3, <1>7, <2>1, <3>1, <3>2 DEF Holds
    <3> QED
      BY <2>1, <3>3
  <2> QED
    BY <2>2, <2>3
<1>8. ~SameTile(front.beam[1], head)
  <2>1. CASE front.beam[1] = Nothing
    BY <2>1 DEF SameTile
  <2>2. CASE Fresh(i, beam, front.beam[1])
    <3>1. PICK t \in After(cur) : tile_to_coords(front.beam[1]) = t
      BY <1>5, <2>2
    <3>2. t # cur
      BY DEF After
    <3> QED
      BY <3>1, <3>2 DEF SameTile, Cur
  <2>3. CASE front.beam[1] # Nothing /\ front.beam[1] = Rest(beam)[1]
    <3>1. 1 + 1 \in 1..Slots /\ front.beam[1] = beam[1 + 1]
      BY <1>0, <1>4, <2>3
    <3>2. ~SameTile(beam[1], beam[1 + 1])
      BY <1>0, <3>1 DEF IsFront
    <3> QED
      BY <3>1, <3>2 DEF SameTile
  <2> QED
    BY <1>3, <2>1, <2>2, <2>3
<1>9. front.lost \in BOOLEAN
  BY <1>3 DEF Lossy
<1>10. ~front.lost => ~lost[i] /\ (Open(i, beam) => Open(i, front.beam))
  BY <1>3, <1>7 DEF Open
<1> QED
  BY <1>3, <1>6, <1>8, <1>9, <1>10 DEF front

-----------------------------------------------------------------------------
(* The searches. *)

WalkTypes ==
  /\ lost \in [Items -> BOOLEAN]
  /\ curStubs = [i \in Items |-> curStubs[i]]
  /\ stubLocations = [i \in Items |-> stubLocations[i]]

SearchOf(i) ==
  drawIndirect[i].state = 0 =>
    /\ Sited(i) /\ IsFront(Front(i)) /\ OfWalks(i, Front(i), Made(i))
    /\ ~lost[i] => Open(i, Front(i))

FrontOf(i) ==
  curStubs[i] # <<>> =>
    /\ Sited(i) /\ IsFront(curStubs[i])
    /\ OfWalks(i, curStubs[i], series * CounterMax + count_index[i])

VerdictOf(i) ==
  curStubs[i] # <<>> =>
    /\ drawIndirect[i].state = 1 => Leads(Stub(i), SourcePos(i))
    /\ drawIndirect[i].state = 2 /\ ~lost[i] => ~Leads(Stub(i), SourcePos(i))

SearchInv == WalkTypes /\ \A i \in Items : SearchOf(i) /\ FrontOf(i) /\ VerdictOf(i)

LEMMA OfWalksGrows ==
  ASSUME NEW i, NEW beam, NEW n \in Nat, NEW m \in Nat, n <= m, OfWalks(i, beam, n)
  PROVE  OfWalks(i, beam, m)
BY DEF OfWalks

LEMMA EmptyFront ==
  ASSUME NEW beam, IsFront(beam), beam[1] = Nothing, NEW j \in 1..Slots
  PROVE  beam[j] = Nothing
<1> DEFINE Bad == {k \in 1..Slots : beam[k] # Nothing}
<1>1. SUFFICES ASSUME Bad # {} PROVE FALSE
  OBVIOUS
<1>2. PICK k \in Bad : \A l \in Bad : k <= l
  <2>1. Bad \subseteq Nat
    BY DrawWiresAssumption
  <2> HIDE DEF Bad
  <2> QED
    BY <1>1, <2>1, LeastNat
<1>3. k \in 1..Slots /\ beam[k] # Nothing /\ k # 1
  OBVIOUS
<1>4. k - 1 \in 1..(Slots - 1) /\ k - 1 \in 1..Slots /\ k - 1 \notin Bad /\ (k - 1) + 1 = k
  <2> HIDE DEF Bad
  <2> QED
    BY <1>2, <1>3, DrawWiresAssumption
<1>5. beam[k - 1] = Nothing
  BY <1>4
<1>6. beam[(k - 1) + 1] = Nothing
  BY <1>4, <1>5, FrontCloses
<1> QED
  BY <1>3, <1>4, <1>6

(* The steps an item has made. *)
LEMMA MadeType ==
  ASSUME Types, NEW i \in Items
  PROVE  /\ series * CounterMax \in Nat /\ count_index[i] \in Nat
         /\ count_index[i] <= CounterMax
         /\ (series + 1) * CounterMax = series * CounterMax + CounterMax
         /\ Made(i) \in Nat /\ Made(i) <= series * CounterMax + count_index[i]
<1>1. /\ series \in Nat /\ CounterMax \in Nat /\ count_index[i] \in 0..CounterMax
  BY DrawWiresAssumption DEF Types
<1>2. series * CounterMax \in Nat
      /\ (series + 1) * CounterMax = series * CounterMax + CounterMax
  BY <1>1, SMTT(30)
<1> QED
  BY <1>1, <1>2 DEF Made

LEMMA SearchInvInit == Init => SearchInv
<1> SUFFICES ASSUME Init PROVE SearchInv
  OBVIOUS
<1>0. /\ job \in Jobs /\ Slots \in Nat \ {0} /\ BeamWidth \in Nat /\ Slots <= BeamWidth
      /\ CostMod \in Nat \ {0} /\ PreviousMod \in Nat \ {0} /\ CounterMax \in Nat
  BY DrawWiresAssumption DEF Init
<1>1. WalkTypes
  BY DEF Init, WalkTypes
<1>2. ASSUME NEW i \in Items PROVE FrontOf(i) /\ VerdictOf(i)
  BY DEF Init, FrontOf, VerdictOf
<1>3. ASSUME NEW i \in Items PROVE SearchOf(i)
  <2> SUFFICES ASSUME drawIndirect[i].state = 0
               PROVE  /\ Sited(i) /\ IsFront(Front(i)) /\ OfWalks(i, Front(i), Made(i))
                      /\ Open(i, Front(i))
    BY DEF SearchOf
  <2>1. Sited(i)
    BY DEF Init, Sited
  <2> DEFINE beam == Front(i)
             first == combine(0, 0, Stub(i))
  <2>2. /\ beam = [j \in 1..BeamWidth |-> IF j = 1 THEN first ELSE Nothing]
        /\ Made(i) = 0
    <3>1. beam = stubLocations[i]
      BY DEF Init, Front
    <3>2. beam = [j \in 1..BeamWidth |-> IF j = 1 THEN first ELSE Nothing]
      BY <2>1, <3>1 DEF Init, Sited, Stub
    <3>3. Made(i) = 0
      BY <1>0 DEF Init, Made
    <3> QED
      BY <3>2, <3>3
  <2>3. Stub(i) \in Tiles /\ Stub(i) \in Nat \X Nat
    BY <1>0, <2>1, JobParts
  <2>4. /\ first = <<0, 0, Stub(i)[2], Stub(i)[1]>> /\ 0 % PreviousMod = 0
    BY <1>0 DEF combine
  <2>5. first \in Entries /\ first # Nothing /\ tile_to_coords(first) = Stub(i)
        /\ Previous(first) = 0
    BY <1>0, <2>3, <2>4 DEF Entries, Nothing, tile_to_coords, Previous
  <2> HIDE DEF first, beam
  <2>6. \A j \in 2..BeamWidth : beam[j] = Nothing
    BY <2>2
  <2>7. IsFront(beam)
    <3>1. beam \in [1..BeamWidth -> Entries]
      BY <2>2, <2>5 DEF Entries
    <3>2. ASSUME NEW j \in 1..(Slots - 1)
          PROVE  /\ ~Less(beam[j + 1], beam[j])
                 /\ beam[j] # Nothing => ~SameTile(beam[j], beam[j + 1])
      <4>1. j \in 1..BeamWidth /\ j + 1 \in 2..BeamWidth
        BY <1>0
      <4>2. beam[j + 1] = Nothing /\ beam[j] \in Entries
        BY <2>6, <3>1, <4>1
      <4> QED
        BY <4>2, NothingIsLast DEF SameTile
    <3>3. \A j \in (Slots + 1)..BeamWidth : beam[j] = Nothing
      BY <1>0, <2>6
    <3> QED
      BY <3>1, <3>2, <3>3 DEF IsFront
  <2>8. OfWalks(i, beam, 0)
    <3>1. Stub(i) \in Walks(Stub(i), 0)
      BY <1>0, <2>3, WalksStep
    <3>2. \A j \in 1..Slots : beam[j] # Nothing => beam[j] = first
      BY <1>0, <2>2
    <3> QED
      BY <2>4, <2>5, <3>1, <3>2 DEF OfWalks
  <2>9. Open(i, beam)
    <3>1. 1 \in 1..Slots /\ beam[1] = first
      BY <1>0, <2>2
    <3> QED
      BY <2>5, <3>1 DEF Open
  <2> QED
    BY <2>1, <2>2, <2>7, <2>8, <2>9 DEF beam
<1> QED
  BY <1>1, <1>2, <1>3 DEF SearchInv

(* Steps of the host, and of other items. *)
LEMMA SearchInvOf ==
  ASSUME job' = job
  PROVE  /\ Items' = Items /\ pairs' = pairs /\ graph' = graph
         /\ \A i, n : Walks(i, n)' = Walks(i, n)
BY DEF Items, Walks, After

LEMMA SameSearch ==
  ASSUME Types, SearchInv, NEW i \in Items, job' = job,
         item'[i] = "run" <=> item[i] = "run",
         curStubs'[i] = curStubs[i], stubLocations'[i] = stubLocations[i],
         drawIndirect'[i] = drawIndirect[i], lost'[i] = lost[i],
         Made(i)' \in Nat, Made(i) <= Made(i)',
         (series * CounterMax + count_index[i])' \in Nat,
         series * CounterMax + count_index[i] <= (series * CounterMax + count_index[i])'
  PROVE  SearchOf(i)' /\ FrontOf(i)' /\ VerdictOf(i)'
<1>1. SearchOf(i) /\ FrontOf(i) /\ VerdictOf(i)
  BY DEF SearchInv
<1>2. \A t, n : Walks(t, n)' = Walks(t, n)
  BY SearchInvOf
<1>3. Made(i) \in Nat /\ series * CounterMax + count_index[i] \in Nat
  BY MadeType
<1>4. Front(i)' = Front(i) /\ Sited(i)' = Sited(i) /\ Stub(i)' = Stub(i)
      /\ SourcePos(i)' = SourcePos(i)
  BY DEF Front, Sited, Stub, SourcePos
<1>5. \A t, u : Leads(t, u)' <=> Leads(t, u)
  BY <1>2 DEF Leads
<1>6. VerdictOf(i)'
  BY <1>1, <1>4, <1>5 DEF VerdictOf
<1>7. FrontOf(i)'
  BY <1>1, <1>2, <1>3, <1>4, OfWalksGrows DEF FrontOf, OfWalks
<1>8. Open(i, Front(i))' <=> Open(i, Front(i))
  BY <1>4, <1>5 DEF Open
<1>9. OfWalks(i, Front(i), Made(i)) => OfWalks(i, Front(i), Made(i))'
  BY <1>2, <1>3, <1>4 DEF OfWalks
<1>10. SearchOf(i)'
  BY <1>1, <1>4, <1>8, <1>9 DEF SearchOf
<1> QED
  BY <1>6, <1>7, <1>10

LEMMA SearchInvHost ==
  ASSUME Types, SeriesInv, SearchInv, Host \/ Fill \/ UNCHANGED vars, Types'
  PROVE  SearchInv'
<1>1. /\ UNCHANGED <<job, count_index, curStubs, stubLocations, drawIndirect, lost>>
      /\ Items' = Items
  BY SearchInvOf DEF Host, step_all, Refuse, Finish, FinishAll, Fill
<1>2. WalkTypes'
  BY <1>1 DEF SearchInv, WalkTypes
<1>3. ASSUME NEW i \in Items
      PROVE  /\ item'[i] = "run" <=> item[i] = "run"
             /\ Made(i) <= Made(i)'
             /\ series * CounterMax + count_index[i] <= series' * CounterMax + count_index'[i]
  <2>0. /\ series * CounterMax \in Nat /\ count_index[i] \in Nat /\ count_index[i] <= CounterMax
        /\ (series + 1) * CounterMax = series * CounterMax + CounterMax
        /\ count_index'[i] = count_index[i] /\ CounterMax \in Nat
    BY <1>1, MadeType, DrawWiresAssumption
  <2>1. CASE step_all
    <3>1. /\ host = "step" /\ host' = "finish" /\ series' = series
          /\ item'[i] = "ready" \/ item'[i] = item[i]
          /\ item[i] = "idle"
      BY <2>1 DEF step_all, SeriesInv, Types
    <3> QED
      BY <2>0, <3>1 DEF Made
  <2>2. CASE Finish
    <3>1. /\ host = "finish" /\ item[i] = "idle" /\ item'[i] = "idle"
      BY <2>2 DEF Finish
    <3>2. \/ host' = "step" /\ series' = series + 1
          \/ host' = "drain" /\ series' = series
      BY <2>2 DEF Finish
    <3> QED
      BY <2>0, <3>1, <3>2 DEF Made
  <2>3. CASE Refuse \/ FinishAll \/ Fill \/ UNCHANGED vars
    <3>1. UNCHANGED <<series, item>> /\ (host' = "step" => host = "step")
      BY <2>3 DEF Refuse, FinishAll, Fill
    <3> QED
      BY <2>0, <3>1 DEF Made
  <2> QED
    BY <2>1, <2>2, <2>3 DEF Host
<1>4. ASSUME NEW i \in Items PROVE SearchOf(i)' /\ FrontOf(i)' /\ VerdictOf(i)'
  <2>1. Made(i)' \in Nat /\ (series * CounterMax + count_index[i])' \in Nat
    <3>1. series' \in Nat /\ count_index'[i] \in Nat /\ CounterMax \in Nat
      BY <1>1, DrawWiresAssumption DEF Types
    <3>2. \A a, b \in Nat : a * b \in Nat
      BY SMTT(30)
    <3>3. series' * CounterMax \in Nat
      BY <3>1, <3>2
    <3> QED
      BY <3>1, <3>3 DEF Made
  <2> QED
    BY <1>1, <1>3, <2>1, SameSearch
<1> QED
  BY <1>1, <1>2, <1>4 DEF SearchInv

(* Steps of an item. *)
LEMMA SearchInvItem ==
  ASSUME Types, SeriesInv, SearchInv, NEW i \in Items, Item(i), Types'
  PROVE  SearchInv'
<1>1. /\ UNCHANGED <<job, host, series, host_dirty>>
      /\ \A j \in Items \ {i} : /\ item'[j] = item[j]
                                /\ count_index'[j] = count_index[j]
                                /\ drawIndirect'[j] = drawIndirect[j]
                                /\ routed'[j] = routed[j]
      /\ host = "finish"
  BY StepsOfAnItem
<1>2. /\ Items' = Items /\ job \in Jobs
      /\ \A t, n : Walks(t, n)' = Walks(t, n)
  BY <1>1, SearchInvOf DEF Types
<1>3. /\ lost[i] \in BOOLEAN /\ SearchOf(i) /\ FrontOf(i) /\ VerdictOf(i)
      /\ lost = [j \in Items |-> lost[j]]
  BY DEF SearchInv, WalkTypes
<1>4. /\ Sited(i)' = Sited(i) /\ Stub(i)' = Stub(i) /\ SourcePos(i)' = SourcePos(i)
      /\ \A t, u : Leads(t, u)' <=> Leads(t, u)
      /\ \A beam, n : OfWalks(i, beam, n)' <=> OfWalks(i, beam, n)
      /\ \A beam : Open(i, beam)' <=> Open(i, beam)
  BY <1>1, <1>2 DEF Sited, Stub, SourcePos, Leads, OfWalks, Open
<1>5. ASSUME NEW j \in Items, j # i, curStubs'[j] = curStubs[j],
             stubLocations'[j] = stubLocations[j], lost'[j] = lost[j]
      PROVE  SearchOf(j)' /\ FrontOf(j)' /\ VerdictOf(j)'
  <2>1. Made(j)' = Made(j)
        /\ (series * CounterMax + count_index[j])' = series * CounterMax + count_index[j]
    BY <1>1, <1>5 DEF Made
  <2>2. Made(j) \in Nat /\ series * CounterMax + count_index[j] \in Nat
    BY MadeType
  <2>3. Made(j) <= Made(j)' /\ Made(j)' \in Nat
    BY <2>1, <2>2
  <2>4. /\ (series * CounterMax + count_index[j])' \in Nat
        /\ series * CounterMax + count_index[j] <= (series * CounterMax + count_index[j])'
    BY <2>1, <2>2
  <2> QED
    BY <1>1, <1>5, <2>3, <2>4, SameSearch
<1>6. SUFFICES /\ SearchOf(i)' /\ FrontOf(i)' /\ VerdictOf(i)' /\ lost'[i] \in BOOLEAN
  <2>1. \A j \in Items \ {i} : /\ curStubs'[j] = curStubs[j] /\ lost'[j] = lost[j]
                               /\ stubLocations'[j] = stubLocations[j]
    BY DEF Item, Begin, Succeed, RunEmpty, Search, Save, SearchInv, WalkTypes
  <2>2. /\ curStubs' = [j \in Items |-> curStubs'[j]]
        /\ stubLocations' = [j \in Items |-> stubLocations'[j]]
        /\ lost' = [j \in Items |-> lost'[j]]
    <3>1. /\ curStubs = [j \in Items |-> curStubs[j]] /\ lost = [j \in Items |-> lost[j]]
          /\ stubLocations = [j \in Items |-> stubLocations[j]]
      BY <1>3 DEF SearchInv, WalkTypes
    <3>2. curStubs' = curStubs \/ \E x : curStubs' = [curStubs EXCEPT ![i] = x]
      BY DEF Item, Begin, Succeed, RunEmpty, Search, Save
    <3>3. stubLocations' = stubLocations \/ \E x : stubLocations' = [stubLocations EXCEPT ![i] = x]
      BY DEF Item, Begin, Succeed, RunEmpty, Search, Save
    <3>4. lost' = lost \/ \E x : lost' = [lost EXCEPT ![i] = x]
      BY DEF Item, Begin, Succeed, RunEmpty, Search, Save
    <3>5. curStubs' = [j \in Items |-> curStubs'[j]]
      BY <3>1, <3>2
    <3>6. stubLocations' = [j \in Items |-> stubLocations'[j]]
      BY <3>1, <3>3
    <3>7. lost' = [j \in Items |-> lost'[j]]
      BY <3>1, <3>4
    <3> QED
      BY <3>5, <3>6, <3>7
  <2>3. ASSUME NEW j \in Items PROVE lost'[j] \in BOOLEAN
    BY <1>6, <2>1 DEF SearchInv, WalkTypes
  <2>4. lost' \in [Items -> BOOLEAN]
    BY <2>2, <2>3
  <2>5. WalkTypes'
    BY <1>2, <2>2, <2>4 DEF WalkTypes
  <2>6. \A j \in Items : SearchOf(j)' /\ FrontOf(j)' /\ VerdictOf(j)'
    BY <1>5, <1>6, <2>1
  <2> QED
    BY <1>2, <2>5, <2>6 DEF SearchInv
<1> DEFINE n == count_index[i]
           steps == series * CounterMax + n
<1>7. /\ series * CounterMax \in Nat /\ n \in Nat /\ steps \in Nat
      /\ Made(i) \in Nat /\ Made(i) <= steps
  BY MadeType
<1>8. CASE Begin(i)
  <2>1. UNCHANGED <<stubLocations, drawIndirect, lost>> /\ item[i] = "ready"
    BY <1>8 DEF Begin
  <2>2. CASE drawIndirect[i].state # 0
    <3>1. UNCHANGED <<count_index, curStubs>>
      BY <1>8, <2>2 DEF Begin
    <3> QED
      BY <1>1, <1>3, <1>4, <2>1, <2>2, <3>1 DEF SearchOf, FrontOf, VerdictOf, IsFront
  <2>3. CASE drawIndirect[i].state = 0
    <3>1. /\ item'[i] = "run" /\ count_index'[i] = 0 /\ curStubs'[i] = stubLocations[i]
      BY <1>8, <2>3 DEF Begin, Types, SearchInv, WalkTypes
    <3>2. Front(i)' = Front(i) /\ Front(i) = curStubs'[i]
      BY <2>1, <3>1 DEF Front
    <3>3. Made(i)' = Made(i) /\ Made(i) = series * CounterMax + 0
      BY <1>1, <2>1, <3>1 DEF Made
    <3>4. (series * CounterMax + count_index[i])' = Made(i)
      BY <1>1, <3>1, <3>3
    <3>5. /\ Sited(i) /\ IsFront(Front(i)) /\ OfWalks(i, Front(i), Made(i))
          /\ ~lost[i] => Open(i, Front(i))
      BY <1>3, <2>3 DEF SearchOf
    <3>6. SearchOf(i)'
      BY <1>4, <2>1, <3>2, <3>3, <3>5 DEF SearchOf, IsFront
    <3>7. FrontOf(i)'
      BY <1>4, <3>2, <3>4, <3>5 DEF FrontOf, IsFront
    <3>8. VerdictOf(i)'
      BY <2>1, <2>3 DEF VerdictOf
    <3> QED
      BY <1>3, <2>1, <3>6, <3>7, <3>8
  <2> QED
    BY <2>2, <2>3
<1>9. ASSUME item[i] = "run"
      PROVE  /\ Sited(i) /\ IsFront(curStubs[i]) /\ OfWalks(i, curStubs[i], steps)
             /\ ~lost[i] => Open(i, curStubs[i])
             /\ drawIndirect[i].state = 0 /\ Front(i) = curStubs[i] /\ Made(i) = steps
             /\ 1 \in 1..Slots /\ 1 \in 1..BeamWidth
  <2>1. drawIndirect[i].state = 0
    BY <1>9 DEF SeriesInv
  <2>2. Front(i) = curStubs[i] /\ Made(i) = steps
    BY <1>1, <1>9 DEF Front, Made
  <2>3. /\ Sited(i) /\ IsFront(Front(i)) /\ OfWalks(i, Front(i), Made(i))
        /\ ~lost[i] => Open(i, Front(i))
    BY <1>3, <2>1 DEF SearchOf
  <2>4. 1 \in 1..Slots /\ 1 \in 1..BeamWidth
    BY DrawWiresAssumption
  <2> HIDE DEF steps
  <2> QED
    BY <2>1, <2>2, <2>3, <2>4
<1>10. CASE Succeed(i)
  <2>1. /\ item[i] = "run" /\ AtSource(i) /\ UNCHANGED <<count_index, curStubs, lost>>
        /\ drawIndirect'[i].state = 1
    BY <1>10 DEF Succeed, Running, Draw, Types
  <2>2. Leads(Stub(i), SourcePos(i))
    <3>1. PICK m \in 0..steps : tile_to_coords(curStubs[i][1]) \in Walks(Stub(i), m)
      BY <1>9, <2>1 DEF AtSource, Head1, OfWalks
    <3> QED
      BY <1>7, <2>1, <3>1 DEF AtSource, Head1, Leads
  <2>3. SearchOf(i)'
    BY <2>1 DEF SearchOf
  <2>4. FrontOf(i)'
    BY <1>1, <1>3, <1>4, <2>1 DEF FrontOf, IsFront
  <2>5. VerdictOf(i)'
    BY <1>4, <2>1, <2>2 DEF VerdictOf
  <2> QED
    BY <1>3, <2>1, <2>3, <2>4, <2>5
<1>11. CASE RunEmpty(i)
  <2>1. /\ item[i] = "run" /\ Head1(i) = Nothing /\ UNCHANGED <<count_index, curStubs, lost>>
        /\ drawIndirect'[i].state = 2
    BY <1>11 DEF RunEmpty, Running, Draw, Types
  <2>2. \A j \in 1..Slots : curStubs[i][j] = Nothing
    BY <1>9, <2>1, EmptyFront DEF Head1
  <2>3. ~lost[i] => ~Leads(Stub(i), SourcePos(i))
    BY <1>9, <2>1, <2>2 DEF Open
  <2>4. SearchOf(i)'
    BY <2>1 DEF SearchOf
  <2>5. FrontOf(i)'
    BY <1>1, <1>3, <1>4, <2>1 DEF FrontOf, IsFront
  <2>6. VerdictOf(i)'
    BY <1>4, <2>1, <2>3 DEF VerdictOf
  <2> QED
    BY <1>3, <2>1, <2>4, <2>5, <2>6
<1>12. CASE Search(i)
  <2> DEFINE beam == curStubs[i]
             front == Expand(i, beam)
  <2>1. item[i] = "run" /\ beam[1] # Nothing /\ Cur(beam) # SourcePos(i)
    BY <1>12 DEF Search, Running, AtSource, Head1, Cur
  <2>2. /\ front.lost \in BOOLEAN /\ IsFront(front.beam)
        /\ OfWalks(i, front.beam, steps + 1)
        /\ ~front.lost => ~lost[i] /\ (Open(i, beam) => Open(i, front.beam))
        /\ ~SameTile(front.beam[1], beam[1])
    <3> HIDE DEF beam, steps
    <3>1. steps \in Nat /\ Sited(i) /\ IsFront(beam) /\ OfWalks(i, beam, steps)
      BY <1>7, <1>9, <2>1 DEF beam
    <3> QED
      BY <1>2, <1>3, <2>1, <3>1, ExpandKeeps
  <2> HIDE DEF front
  <2>3. /\ curStubs' = [curStubs EXCEPT ![i] = front.beam]
        /\ lost' = [lost EXCEPT ![i] = front.lost]
        /\ Draw(i, 0) /\ count_index' = [count_index EXCEPT ![i] = count_index[i] + 1]
        /\ UNCHANGED item
    BY <1>12, <2>2 DEF Search, Head1, front
  <2>4. /\ curStubs'[i] = front.beam /\ lost'[i] = front.lost
        /\ count_index'[i] = n + 1 /\ drawIndirect'[i].state = 0
    BY <1>3, <2>3 DEF SearchInv, WalkTypes, Draw, Types
  <2>5. Front(i)' = front.beam /\ Made(i)' = steps + 1
        /\ (series * CounterMax + count_index[i])' = steps + 1
    BY <1>1, <1>7, <2>1, <2>3, <2>4 DEF Front, Made
  <2>6. SearchOf(i)'
    <3> HIDE DEF steps
    <3> QED
      BY <1>4, <1>9, <2>1, <2>2, <2>4, <2>5 DEF SearchOf, IsFront
  <2>7. FrontOf(i)'
    <3> HIDE DEF steps
    <3> QED
      BY <1>4, <1>9, <2>1, <2>2, <2>4, <2>5 DEF FrontOf, IsFront
  <2>8. VerdictOf(i)'
    BY <2>4 DEF VerdictOf
  <2> QED
    BY <2>2, <2>4, <2>6, <2>7, <2>8
<1>13. CASE Save(i)
  <2>1. /\ item[i] = "run" /\ item'[i] = "idle" /\ UNCHANGED <<count_index, curStubs, lost>>
        /\ stubLocations'[i] = curStubs[i] /\ UNCHANGED drawIndirect
    BY <1>13 DEF Save, Types, SearchInv, WalkTypes
  <2>2. Front(i)' = Front(i) /\ Made(i)' = Made(i)
    BY <1>1, <2>1 DEF Front, Made
  <2>3. SearchOf(i)'
    BY <1>3, <1>4, <2>1, <2>2 DEF SearchOf, IsFront
  <2>4. FrontOf(i)'
    BY <1>1, <1>3, <1>4, <2>1 DEF FrontOf, IsFront
  <2>5. VerdictOf(i)'
    BY <1>3, <1>4, <2>1 DEF VerdictOf
  <2> QED
    BY <1>3, <2>1, <2>3, <2>4, <2>5
<1> QED
  BY <1>8, <1>10, <1>11, <1>12, <1>13 DEF Item

THEOREM SearchInvariant == Spec => []SearchInv
<1>1. Types /\ SeriesInv /\ SearchInv /\ Types' /\ [Next]_vars => SearchInv'
  <2> SUFFICES ASSUME Types, SeriesInv, SearchInv, Types', [Next]_vars
               PROVE  SearchInv'
    OBVIOUS
  <2>1. CASE Host \/ Fill \/ Ended \/ UNCHANGED vars
    BY <2>1, SearchInvHost DEF Ended
  <2>2. CASE \E i \in Items : Item(i)
    BY <2>2, SearchInvItem
  <2> QED
    BY <2>1, <2>2 DEF Next
<1>2. ReportInv => Types /\ SeriesInv
  BY DEF ReportInv
<1> QED
  BY <1>1, <1>2, SearchInvInit, ReportInvariant, PTL DEF Spec

LEMMA VerdictsFollow == ReportInv /\ SearchInv => VerdictsAreReal
<1> SUFFICES ASSUME ReportInv, SearchInv PROVE VerdictsAreReal
  OBVIOUS
<1>1. \A i \in Items : FrontOf(i) /\ VerdictOf(i)
  BY DEF SearchInv
<1>2. FrontSorted
  BY <1>1 DEF FrontSorted, FrontOf, IsFront
<1>3. EntriesAreWalks
  BY <1>1 DEF EntriesAreWalks, FrontOf, OfWalks, Stub
<1>4. LinesAreOfOneSeries
  BY DEF ReportInv, LineInv, LinesAreOfOneSeries, Shown, OneSeries
<1>5. ASSUME NEW i \in Items, curStubs[i] # <<>>
      PROVE  /\ drawIndirect[i].state = 1 => Reachable(pairs[i + 1].stub, SourcePos(i))
             /\ drawIndirect[i].state = 2 /\ ~lost[i]
                  => ~Reachable(pairs[i + 1].stub, SourcePos(i))
  <2>1. job \in Jobs /\ Sited(i)
    BY <1>1, <1>5 DEF ReportInv, Types, FrontOf
  <2>2. Leads(Stub(i), SourcePos(i)) <=> Reachable(Stub(i), SourcePos(i))
    BY <2>1, JobParts, LeadsIsReachable
  <2> QED
    BY <1>1, <1>5, <2>2 DEF VerdictOf, Stub
<1> QED
  BY <1>2, <1>3, <1>4, <1>5 DEF VerdictsAreReal

(* For every graph of tiles, list of stubs, width of the beam, and number of *)
(* steps and series: a search that succeeds could reach its source, and one  *)
(* that gives up without having dropped an entry could not, ever.            *)
THEOREM VerdictsHold == Spec => []VerdictsAreReal
BY VerdictsFollow, ReportInvariant, SearchInvariant, PTL
=============================================================================
