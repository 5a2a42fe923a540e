-------------------------- MODULE StringInterchange --------------------------
(***************************************************************************)
(* The two-way map between the strings of the device and those of the      *)
(* netlist.  Both files name their strings by index; a router reads the    *)
(* netlist's, works on the device's, and names what it adds to the netlist *)
(* by indices again, appending the strings the netlist lacks.              *)
(*                                                                         *)
(* Three routers make the map: String_Building_Group ("insert"),           *)
(* Ocl_Node_Router ("assign") and Tile_Based_Router ("sorted"), which only *)
(* reads.  Indices are from zero, as in the code.                          *)
(***************************************************************************)
EXTENDS Integers, Sequences, FiniteSets

CONSTANTS
  Strs,
  DevLists, PhysLists,   \* the string lists a device and a netlist may have
  Kinds,
  MaxPips                \* bound: pips a router adds

ASSUME StringsAssumption ==
  /\ DevLists \subseteq Seq(Strs) /\ PhysLists \subseteq Seq(Strs)
  /\ Kinds \subseteq {"insert", "assign", "sorted"}
  /\ MaxPips \in Nat

VARIABLES
  devStrs, physStrs, kind,
  pc,           \* "dev", "phys", "nets", "written" or "aborted"
  next,         \* the index a loop is at
  dev_strmap,
  ic,           \* [toDev, toPhys, extra]: phys_stridx_to_dev_stridx,
                \* dev_strIdx_to_phys_strIdx and extra_dev_strIdx
  pips, asked,  \* the pips added, by netlist indices, and (history) by device indices
  written       \* the string list of the result

lists == <<devStrs, physStrs, kind>>
vars == <<lists, pc, next, dev_strmap, ic, pips, asked, written>>

None == -1      \* UINT32_MAX
Indices(list) == 0..(Len(list) - 1)

\* The device indices of a string
Found(str) == {d \in Indices(devStrs) : devStrs[d + 1] = str}

Init == /\ devStrs \in DevLists /\ physStrs \in PhysLists /\ kind \in Kinds
        /\ pc = "dev" /\ next = 0
        /\ dev_strmap = [s \in Strs |-> None]
        /\ ic = [toDev |-> [p \in 1..Len(physStrs) |-> None],
                 toPhys |-> [d \in Indices(devStrs) |-> None],
                 extra |-> <<>>]
        /\ pips = <<>> /\ asked = <<>> /\ written = <<>>

-----------------------------------------------------------------------------
(* The making *)

\* make_devStrs_map: insert keeps the index a string has already.  What the
\* sorted map holds of a string, Found says.
LoadDev == /\ pc = "dev" /\ next < Len(devStrs)
           /\ dev_strmap' = [dev_strmap EXCEPT ![devStrs[next + 1]] = IF @ = None THEN next ELSE @]
           /\ next' = next + 1
           /\ UNCHANGED <<lists, pc, ic, pips, asked, written>>

DevLoaded == /\ pc = "dev" /\ next = Len(devStrs)
             /\ pc' = "phys" /\ next' = 0
             /\ UNCHANGED <<lists, dev_strmap, ic, pips, asked, written>>

\* Device index d and netlist index p name the same string
Link(d, p) ==
  [ic EXCEPT !.toDev[p + 1] = d,
             !.toPhys[d] = IF kind = "sorted" \/ (kind = "insert" /\ @ # None) THEN @ ELSE p]

LoadPhys == /\ pc = "phys" /\ next < Len(physStrs)
            /\ kind = "sorted" => Cardinality(Found(physStrs[next + 1])) <= 1
            /\ LET d == dev_strmap[physStrs[next + 1]]
               IN ic' = IF d = None THEN ic ELSE Link(d, next)
            /\ next' = next + 1
            /\ UNCHANGED <<lists, pc, dev_strmap, pips, asked, written>>

\* make_physStrs_to_devStrs aborts when the device has the string twice
LoadPhysFails == /\ pc = "phys" /\ next < Len(physStrs)
                 /\ kind = "sorted" /\ Cardinality(Found(physStrs[next + 1])) > 1
                 /\ pc' = "aborted"
                 /\ UNCHANGED <<lists, next, dev_strmap, ic, pips, asked, written>>

PhysLoaded == /\ pc = "phys" /\ next = Len(physStrs)
              /\ pc' = "nets" /\ next' = 0
              /\ UNCHANGED <<lists, dev_strmap, ic, pips, asked, written>>

-----------------------------------------------------------------------------
(* The use *)

\* Mutant: strings appended before are not counted
NewIndex_Base(ofKind, phys, x) == Len(phys)

NewIndex(ofKind, phys, x) == IF ofKind = "insert" THEN Len(phys) + Len(x.extra) ELSE Len(x.toDev)

\* get_phys_strIdx_from_dev_strIdx and alloc_physStr_from_devStr
Alloc(ofKind, phys, x, d) ==
  IF x.toPhys[d] # None THEN x
  ELSE [toDev |-> Append(x.toDev, d),
        toPhys |-> [x.toPhys EXCEPT ![d] = NewIndex(ofKind, phys, x)],
        extra |-> IF ofKind = "insert" THEN Append(x.extra, d) ELSE x.extra]

Alloc3(ofKind, phys, x, pip) ==
  Alloc(ofKind, phys, Alloc(ofKind, phys, Alloc(ofKind, phys, x, pip[1]), pip[2]), pip[3])

Triples == Indices(devStrs) \X Indices(devStrs) \X Indices(devStrs)

\* The tile and the wires of a pip that a net takes
AddPip(pip) ==
  /\ pc = "nets" /\ kind # "sorted" /\ Len(asked) < MaxPips
  /\ ic' = Alloc3(kind, physStrs, ic, pip)
  /\ pips' = Append(pips, <<ic'.toPhys[pip[1]], ic'.toPhys[pip[2]], ic'.toPhys[pip[3]]>>)
  /\ asked' = Append(asked, pip)
  /\ UNCHANGED <<lists, pc, next, dev_strmap, written>>

\* store_possibly_routed_nets leaves a net again at a node it cannot have, and
\* write_phys_unrouted_nets overwrites what it has of it; the strings stay.
DropPip(pip) ==
  /\ pc = "nets" /\ kind = "assign" /\ Len(asked) < MaxPips
  /\ ic' = Alloc3(kind, physStrs, ic, pip)
  /\ UNCHANGED <<lists, pc, next, dev_strmap, pips, asked, written>>

\* Mutant: one of the appended strings is left out
Extras_Short(dev, x) == [k \in 1..(Len(x.extra) - 1) |-> dev[x.extra[k] + 1]]

Extras(dev, x) == [k \in 1..Len(x.extra) |-> dev[x.extra[k] + 1]]

\* Route_Phys::route and write_phys_strings
StrList(ofKind, dev, phys, x) ==
  IF ofKind = "insert" THEN phys \o Extras(dev, x)
  ELSE [p \in DOMAIN x.toDev |-> IF x.toDev[p] = None THEN phys[p] ELSE dev[x.toDev[p] + 1]]

WriteStrings == /\ pc = "nets" /\ kind # "sorted"
                /\ written' = StrList(kind, devStrs, physStrs, ic)
                /\ pc' = "written"
                /\ UNCHANGED <<lists, next, dev_strmap, ic, pips, asked>>

-----------------------------------------------------------------------------

Load == LoadDev \/ DevLoaded \/ LoadPhys \/ LoadPhysFails \/ PhysLoaded
Ended == (pc \in {"written", "aborted"} \/ (pc = "nets" /\ kind = "sorted")) /\ UNCHANGED vars

Next == Load \/ (\E pip \in Triples : AddPip(pip) \/ DropPip(pip)) \/ WriteStrings \/ Ended

Spec == Init /\ [][Next]_vars

-----------------------------------------------------------------------------

Maps(dev, phys) == [toDev : Seq(Indices(dev) \cup {None}),
                    toPhys : [Indices(dev) -> Nat \cup {None}],
                    extra : Seq(Indices(dev))]

TypeOK ==
  /\ devStrs \in DevLists /\ physStrs \in PhysLists /\ kind \in Kinds
  /\ pc \in {"dev", "phys", "nets", "written", "aborted"}
  /\ next \in Nat
  /\ dev_strmap \in [Strs -> Indices(devStrs) \cup {None}]
  /\ ic \in Maps(devStrs, physStrs)
  /\ pips \in Seq(Nat \X Nat \X Nat) /\ asked \in Seq(Triples)
  /\ written \in Seq(Strs)

\* get_physStr: the string that a netlist index names
Name(dev, phys, x, p) == IF p < Len(phys) THEN phys[p + 1] ELSE dev[x.toDev[p + 1] + 1]

\* The two directions agree: an index of either file leads to one of the other
\* that names the same string, and from the device's back to where it came from.
NamesAgree ==
  /\ \A p \in Indices(ic.toDev) :
       ic.toDev[p + 1] # None => devStrs[ic.toDev[p + 1] + 1] = Name(devStrs, physStrs, ic, p)
  /\ \A d \in Indices(devStrs) :
       ic.toPhys[d] # None => /\ ic.toPhys[d] \in Indices(ic.toDev)
                              /\ ic.toDev[ic.toPhys[d] + 1] = d

\* All routers read the same device string for a string of the netlist: the first
\* that equals it, none if there is none.
FirstFound ==
  pc \in {"nets", "written"} =>
    \A p \in Indices(physStrs) :
      LET d == ic.toDev[p + 1]
      IN IF Found(physStrs[p + 1]) = {} THEN d = None
         ELSE d \in Found(physStrs[p + 1]) /\ \A e \in Found(physStrs[p + 1]) : d <= e

\* A string is appended only if the list has it nowhere, provided that the
\* device has no string twice.
NoneTwice ==
  (\A d, e \in Indices(devStrs) : devStrs[d + 1] = devStrs[e + 1] => d = e)
    => \A p, q \in Indices(ic.toDev) :
         p < q /\ q >= Len(physStrs)
           => Name(devStrs, physStrs, ic, p) # Name(devStrs, physStrs, ic, q)

\* What a pip of the netlist names in the list that is written is what the
\* router asked for, however many strings were appended after it.
PipsNamed ==
  /\ Len(pips) = Len(asked)
  /\ pc = "written" =>
       \A k \in 1..Len(pips) : \A i \in 1..3 :
         /\ pips[k][i] \in Indices(written)
         /\ written[pips[k][i] + 1] = devStrs[asked[k][i] + 1]

\* An index of the netlist keeps the string it names, from the netlist that was
\* read to the list that is written.
NamesStep ==
  /\ \A p \in Indices(ic.toDev) :
       /\ p \in Indices(ic'.toDev)
       /\ Name(devStrs, physStrs, ic', p) = Name(devStrs, physStrs, ic, p)
  /\ written' # written =>
       /\ Len(written') = Len(ic.toDev)
       /\ \A p \in Indices(written') : written'[p + 1] = Name(devStrs, physStrs, ic, p)
NamesStay == [][NamesStep]_vars
=============================================================================
