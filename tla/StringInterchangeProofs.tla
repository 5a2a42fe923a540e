----------------------- MODULE StringInterchangeProofs -----------------------
(***************************************************************************)
(* Theorems about StringInterchange, for any string lists and any number   *)
(* of pips.  The invariant says how far the loops are, and that every      *)
(* appended index is linked both ways.                                     *)
(***************************************************************************)
EXTENDS StringInterchange, SequenceTheorems, TLAPS

\* What Alloc relies on and keeps
Agree(dev, phys, x) ==
  /\ \A p \in 1..Len(phys) : x.toDev[p] # None => dev[x.toDev[p] + 1] = phys[p]
  /\ \A d \in Indices(dev) :
       x.toPhys[d] # None => /\ x.toPhys[d] + 1 \in 1..Len(x.toDev)
                             /\ x.toDev[x.toPhys[d] + 1] = d
Appended(dev, phys, x) ==
  \A p \in 1..Len(x.toDev) : p > Len(phys) => /\ x.toDev[p] \in Indices(dev)
                                              /\ x.toPhys[x.toDev[p]] = p - 1
Extra(k, phys, x) ==
  k = "insert" => /\ Len(x.toDev) = Len(phys) + Len(x.extra)
                  /\ \A i \in 1..Len(x.extra) : x.extra[i] = x.toDev[Len(phys) + i]
Reached(k, phys, x) ==
  k # "sorted" => \A p \in 1..Len(phys) :
                    x.toDev[p] # None => x.toPhys[x.toDev[p]] + 1 \in 1..Len(phys)

Good(k, dev, phys, x) ==
  /\ x \in Maps(dev, phys) /\ Len(phys) <= Len(x.toDev)
  /\ Agree(dev, phys, x) /\ Appended(dev, phys, x) /\ Extra(k, phys, x) /\ Reached(k, phys, x)

Grows(dev, x, y) ==
  /\ Len(x.toDev) <= Len(y.toDev)
  /\ \A p \in 1..Len(x.toDev) : y.toDev[p] = x.toDev[p]

\* One index more
LEMMA AllocIsGood ==
  ASSUME NEW dev \in Seq(Strs), NEW phys \in Seq(Strs), NEW k, k # "sorted",
         NEW x, Good(k, dev, phys, x), NEW d \in Indices(dev)
  PROVE  LET y == Alloc(k, phys, x, d)
         IN /\ Good(k, dev, phys, y) /\ Grows(dev, x, y)
            /\ y.toPhys[d] + 1 \in 1..Len(y.toDev) /\ y.toPhys[d] \in Nat
            /\ y.toDev[y.toPhys[d] + 1] = d
<1> DEFINE y == Alloc(k, phys, x, d)
           n == Len(x.toDev)
<1>1. /\ x.toDev \in Seq(Indices(dev) \cup {None})
      /\ x.toPhys \in [Indices(dev) -> Nat \cup {None}] /\ x.extra \in Seq(Indices(dev))
      /\ n \in Nat /\ Len(phys) \in Nat /\ Len(x.extra) \in Nat /\ Len(dev) \in Nat
  BY DEF Good, Maps
<1>4. Len(phys) <= n
  BY DEF Good
<1>2. CASE x.toPhys[d] # None
  <2>1. y = x
    BY <1>2 DEF Alloc
  <2> QED
    BY <1>1, <1>2, <2>1 DEF Good, Agree, Grows
<1>3. CASE x.toPhys[d] = None
  <2>1. NewIndex(k, phys, x) = n
    BY <1>1 DEF NewIndex, Good, Extra
  <2>2. /\ y.toDev = Append(x.toDev, d)
        /\ y.toPhys = [x.toPhys EXCEPT ![d] = n]
        /\ y.extra = IF k = "insert" THEN Append(x.extra, d) ELSE x.extra
        /\ y = [toDev |-> y.toDev, toPhys |-> y.toPhys, extra |-> y.extra]
    BY <1>3, <2>1 DEF Alloc
  <2> HIDE DEF y
  <2>3. /\ y.toDev \in Seq(Indices(dev) \cup {None}) /\ Len(y.toDev) = n + 1
        /\ \A p \in 1..n : y.toDev[p] = x.toDev[p]
        /\ y.toDev[n + 1] = d
    BY <1>1, <2>2
  <2>4. /\ y.toPhys \in [Indices(dev) -> Nat \cup {None}] /\ y.toPhys[d] = n
        /\ \A e \in Indices(dev) : e # d => y.toPhys[e] = x.toPhys[e]
    BY <1>1, <2>2
  <2>5. y \in Maps(dev, phys) /\ Len(phys) <= Len(y.toDev)
    <3>1. y.extra \in Seq(Indices(dev))
      BY <1>1, <2>2
    <3>2. y \in Maps(dev, phys)
      BY <2>2, <2>3, <2>4, <3>1 DEF Maps
    <3> QED
      BY <1>1, <2>3, <3>2 DEF Good
  <2>6. Agree(dev, phys, y)
    <3>1. ASSUME NEW p \in 1..Len(phys), y.toDev[p] # None PROVE dev[y.toDev[p] + 1] = phys[p]
      <4>1. p \in 1..n /\ y.toDev[p] = x.toDev[p]
        BY <1>1, <1>4, <2>3
      <4> QED
        BY <3>1, <4>1 DEF Good, Agree
    <3>2. ASSUME NEW e \in Indices(dev), y.toPhys[e] # None
          PROVE  y.toPhys[e] + 1 \in 1..Len(y.toDev) /\ y.toDev[y.toPhys[e] + 1] = e
      <4>1. CASE e = d
        BY <1>1, <2>3, <2>4, <4>1
      <4>2. CASE e # d
        <5>1. x.toPhys[e] + 1 \in 1..n /\ x.toDev[x.toPhys[e] + 1] = e /\ y.toPhys[e] = x.toPhys[e]
          BY <2>4, <3>2, <4>2 DEF Good, Agree
        <5> QED
          BY <1>1, <2>3, <5>1
      <4> QED
        BY <4>1, <4>2
    <3> QED
      BY <3>1, <3>2 DEF Agree
  <2>7. Appended(dev, phys, y)
    <3> SUFFICES ASSUME NEW p \in 1..Len(y.toDev), p > Len(phys)
                 PROVE  y.toDev[p] \in Indices(dev) /\ y.toPhys[y.toDev[p]] = p - 1
      BY DEF Appended
    <3>1. CASE p = n + 1
      BY <1>1, <2>3, <2>4, <3>1
    <3>2. CASE p # n + 1
      <4>1. p \in 1..n
        BY <1>1, <2>3, <3>2
      <4>2. x.toDev[p] \in Indices(dev) /\ x.toPhys[x.toDev[p]] = p - 1
        BY <4>1 DEF Good, Appended
      <4>3. x.toDev[p] # d
        BY <1>3, <4>1, <4>2 DEF None
      <4> QED
        BY <2>3, <2>4, <4>1, <4>2, <4>3
    <3> QED
      BY <3>1, <3>2
  <2>8. Extra(k, phys, y)
    <3> SUFFICES ASSUME k = "insert"
                 PROVE  /\ Len(y.toDev) = Len(phys) + Len(y.extra)
                        /\ \A i \in 1..Len(y.extra) : y.extra[i] = y.toDev[Len(phys) + i]
      BY DEF Extra
    <3>1. /\ Len(y.extra) = Len(x.extra) + 1 /\ y.extra[Len(x.extra) + 1] = d
          /\ \A i \in 1..Len(x.extra) : y.extra[i] = x.extra[i]
      BY <1>1, <2>2
    <3>2. /\ n = Len(phys) + Len(x.extra)
          /\ \A i \in 1..Len(x.extra) : x.extra[i] = x.toDev[Len(phys) + i]
      BY DEF Good, Extra
    <3>3. ASSUME NEW i \in 1..Len(y.extra) PROVE y.extra[i] = y.toDev[Len(phys) + i]
      <4>1. CASE i = Len(x.extra) + 1
        BY <1>1, <2>3, <3>1, <3>2, <4>1
      <4>2. CASE i # Len(x.extra) + 1
        <5>1. i \in 1..Len(x.extra) /\ Len(phys) + i \in 1..n
          BY <1>1, <3>1, <3>2, <4>2
        <5> QED
          BY <2>3, <3>1, <3>2, <5>1
      <4> QED
        BY <4>1, <4>2
    <3> QED
      BY <1>1, <2>3, <3>1, <3>2, <3>3
  <2>9. Reached(k, phys, y)
    <3> SUFFICES ASSUME NEW p \in 1..Len(phys), y.toDev[p] # None
                 PROVE  y.toPhys[y.toDev[p]] + 1 \in 1..Len(phys)
      BY DEF Reached
    <3>1. p \in 1..n /\ y.toDev[p] = x.toDev[p]
      BY <1>1, <1>4, <2>3
    <3>2. x.toPhys[x.toDev[p]] + 1 \in 1..Len(phys) /\ x.toDev[p] \in Indices(dev)
      BY <1>1, <3>1 DEF Good, Reached
    <3>3. x.toDev[p] # d
      BY <1>3, <3>2 DEF None
    <3> QED
      BY <2>4, <3>1, <3>2, <3>3
  <2>10. Grows(dev, x, y)
    BY <1>1, <2>3 DEF Grows
  <2>11. Good(k, dev, phys, y)
    BY <2>5, <2>6, <2>7, <2>8, <2>9 DEF Good
  <2>12. /\ y.toPhys[d] + 1 \in 1..Len(y.toDev) /\ y.toPhys[d] \in Nat
         /\ y.toDev[y.toPhys[d] + 1] = d
    BY <1>1, <2>3, <2>4
  <2> QED
    BY <2>10, <2>11, <2>12 DEF y
<1> QED
  BY <1>2, <1>3

LEMMA GrowsOn ==
  ASSUME NEW dev \in Seq(Strs), NEW phys, NEW x \in Maps(dev, phys), NEW y \in Maps(dev, phys),
         NEW z \in Maps(dev, phys), Grows(dev, x, y), Grows(dev, y, z)
  PROVE  Grows(dev, x, z)
<1>1. Len(x.toDev) \in Nat /\ Len(y.toDev) \in Nat /\ Len(z.toDev) \in Nat
  BY DEF Maps
<1> QED
  BY <1>1 DEF Grows

\* Three indices more
LEMMA Alloc3IsGood ==
  ASSUME NEW dev \in Seq(Strs), NEW phys \in Seq(Strs), NEW k, k # "sorted",
         NEW x, Good(k, dev, phys, x),
         NEW pip, \A i \in 1..3 : pip[i] \in Indices(dev),
         NEW y, y = Alloc3(k, phys, x, pip)
  PROVE  /\ Good(k, dev, phys, y) /\ Grows(dev, x, y)
         /\ \A i \in 1..3 : /\ y.toPhys[pip[i]] + 1 \in 1..Len(y.toDev)
                            /\ y.toPhys[pip[i]] \in Nat
                            /\ y.toDev[y.toPhys[pip[i]] + 1] = pip[i]
<1> DEFINE a == Alloc(k, phys, x, pip[1])
           b == Alloc(k, phys, a, pip[2])
           c == Alloc(k, phys, b, pip[3])
<1>1. /\ Good(k, dev, phys, a) /\ Grows(dev, x, a)
      /\ a.toPhys[pip[1]] + 1 \in 1..Len(a.toDev) /\ a.toPhys[pip[1]] \in Nat
      /\ a.toDev[a.toPhys[pip[1]] + 1] = pip[1]
  BY AllocIsGood
<1>2. /\ Good(k, dev, phys, b) /\ Grows(dev, a, b)
      /\ b.toPhys[pip[2]] + 1 \in 1..Len(b.toDev) /\ b.toPhys[pip[2]] \in Nat
      /\ b.toDev[b.toPhys[pip[2]] + 1] = pip[2]
  <2> HIDE DEF a
  <2> QED
    BY <1>1, AllocIsGood
<1>3. /\ Good(k, dev, phys, c) /\ Grows(dev, b, c)
      /\ c.toPhys[pip[3]] + 1 \in 1..Len(c.toDev) /\ c.toPhys[pip[3]] \in Nat
      /\ c.toDev[c.toPhys[pip[3]] + 1] = pip[3]
  <2> HIDE DEF b
  <2> QED
    BY <1>2, AllocIsGood
<1>4. b.toPhys[pip[1]] = a.toPhys[pip[1]] /\ c.toPhys[pip[1]] = b.toPhys[pip[1]]
      /\ c.toPhys[pip[2]] = b.toPhys[pip[2]]
  <2>1. ASSUME NEW u, Good(k, dev, phys, u), NEW d \in Indices(dev), NEW e \in Indices(dev),
               u.toPhys[e] # None
        PROVE  Alloc(k, phys, u, d).toPhys[e] = u.toPhys[e]
    <3>1. u.toPhys \in [Indices(dev) -> Nat \cup {None}]
      BY <2>1 DEF Good, Maps
    <3> QED
      BY <2>1, <3>1 DEF Alloc
  <2>2. a.toPhys[pip[1]] # None /\ b.toPhys[pip[2]] # None
    BY <1>1, <1>2 DEF None
  <2> HIDE DEF a
  <2>3. b.toPhys[pip[1]] = a.toPhys[pip[1]]
    BY <1>1, <2>1, <2>2
  <2> HIDE DEF b
  <2> QED
    BY <1>2, <2>1, <2>2, <2>3
<1>5. c = y
  BY DEF Alloc3
<1> HIDE DEF a, b, c
<1>6. a \in Maps(dev, phys) /\ b \in Maps(dev, phys) /\ c \in Maps(dev, phys) /\ x \in Maps(dev, phys)
  BY <1>1, <1>2, <1>3 DEF Good
<1>7. Grows(dev, a, c) /\ Grows(dev, x, b)
  BY <1>1, <1>2, <1>3, <1>6, GrowsOn
<1>8. Grows(dev, x, c)
  BY <1>3, <1>6, <1>7, GrowsOn
<1>9. /\ Len(a.toDev) \in Nat /\ Len(b.toDev) \in Nat /\ Len(c.toDev) \in Nat
  BY <1>6 DEF Maps
<1>10. ASSUME NEW v, v \in Nat, NEW w \in Maps(dev, phys), v + 1 \in 1..Len(w.toDev),
              Grows(dev, w, c)
       PROVE  v + 1 \in 1..Len(c.toDev) /\ c.toDev[v + 1] = w.toDev[v + 1]
  <2>1. Len(w.toDev) \in Nat
    BY DEF Maps
  <2> QED
    BY <1>9, <1>10, <2>1 DEF Grows
<1>11. /\ c.toPhys[pip[1]] + 1 \in 1..Len(c.toDev) /\ c.toPhys[pip[1]] \in Nat
       /\ c.toDev[c.toPhys[pip[1]] + 1] = pip[1]
       /\ c.toPhys[pip[2]] + 1 \in 1..Len(c.toDev) /\ c.toPhys[pip[2]] \in Nat
       /\ c.toDev[c.toPhys[pip[2]] + 1] = pip[2]
  BY <1>1, <1>2, <1>3, <1>4, <1>6, <1>7, <1>10
<1>12. ASSUME NEW i \in 1..3
       PROVE  /\ c.toPhys[pip[i]] + 1 \in 1..Len(c.toDev) /\ c.toPhys[pip[i]] \in Nat
              /\ c.toDev[c.toPhys[pip[i]] + 1] = pip[i]
  <2>1. i = 1 \/ i = 2 \/ i = 3
    OBVIOUS
  <2> QED
    BY <1>3, <1>11, <2>1
<1> QED
  BY <1>3, <1>5, <1>8, <1>12

-----------------------------------------------------------------------------
(* The invariant *)

\* The first n strings of the device are in the map, by their first index
Mapped(map, dev, n) ==
  \A s \in Strs :
    IF map[s] = None THEN \A e \in 0..(n - 1) : dev[e + 1] # s
    ELSE /\ map[s] \in 0..(n - 1) /\ dev[map[s] + 1] = s
         /\ \A e \in 0..(map[s] - 1) : dev[e + 1] # s

\* The first n strings of the netlist are linked
Linked(map, phys, x, n) ==
  \A p \in 1..Len(phys) : x.toDev[p] = IF p <= n THEN map[phys[p]] ELSE None

Named(x, ps, as) ==
  /\ Len(ps) = Len(as)
  /\ \A k \in 1..Len(ps) : \A i \in 1..3 :
       /\ ps[k][i] + 1 \in 1..Len(x.toDev)
       /\ x.toDev[ps[k][i] + 1] = as[k][i]

Progress ==
  /\ pc = "dev" => /\ next <= Len(devStrs) /\ Mapped(dev_strmap, devStrs, next)
                   /\ Linked(dev_strmap, physStrs, ic, 0)
  /\ pc # "dev" => Mapped(dev_strmap, devStrs, Len(devStrs))
  /\ pc = "phys" => next <= Len(physStrs) /\ Linked(dev_strmap, physStrs, ic, next)
  /\ pc \in {"nets", "written"} => Linked(dev_strmap, physStrs, ic, Len(physStrs))
  /\ pc \in {"dev", "phys", "aborted"} \/ kind = "sorted" => Len(ic.toDev) = Len(physStrs)

IInv == /\ TypeOK /\ Progress
        /\ Good(kind, devStrs, physStrs, ic) /\ Named(ic, pips, asked)
        /\ pc = "written" => /\ kind # "sorted"
                             /\ written = StrList(kind, devStrs, physStrs, ic)

LEMMA ListTypes ==
  ASSUME NEW d \in DevLists, NEW p \in PhysLists
  PROVE  d \in Seq(Strs) /\ p \in Seq(Strs)
BY StringsAssumption

\* The list that is written has, at every index, the string it names
LEMMA StrListNames ==
  ASSUME NEW dev \in Seq(Strs), NEW phys \in Seq(Strs), NEW k \in {"insert", "assign"},
         NEW x, Good(k, dev, phys, x)
  PROVE  LET list == StrList(k, dev, phys, x)
         IN /\ list \in Seq(Strs) /\ Len(list) = Len(x.toDev)
            /\ \A p \in Indices(x.toDev) : list[p + 1] = Name(dev, phys, x, p)
            /\ \A p \in Indices(x.toDev) : p >= Len(phys) => x.toDev[p + 1] # None
<1>1. /\ x.toDev \in Seq(Indices(dev) \cup {None}) /\ x.extra \in Seq(Indices(dev))
      /\ Len(x.toDev) \in Nat /\ Len(phys) \in Nat /\ Len(x.extra) \in Nat /\ Len(dev) \in Nat
      /\ Len(phys) <= Len(x.toDev)
  BY DEF Good, Maps
<1>2. \A p \in 1..Len(x.toDev) : p > Len(phys) => x.toDev[p] \in Indices(dev) /\ x.toDev[p] # None
  BY <1>1 DEF Good, Appended, Indices, None
<1>3. CASE k = "insert"
  <2> DEFINE more == Extras(dev, x)
  <2>1. /\ Len(x.toDev) = Len(phys) + Len(x.extra)
        /\ \A i \in 1..Len(x.extra) : x.extra[i] = x.toDev[Len(phys) + i]
    BY <1>3 DEF Good, Extra
  <2>2. more \in Seq(Strs) /\ Len(more) = Len(x.extra)
        /\ \A i \in 1..Len(x.extra) : more[i] = dev[x.extra[i] + 1]
    <3>1. \A i \in 1..Len(x.extra) : dev[x.extra[i] + 1] \in Strs
      BY <1>1 DEF Indices
    <3> QED
      BY <1>1, <3>1 DEF Extras
  <2>3. StrList(k, dev, phys, x) = phys \o more
    BY <1>3 DEF StrList
  <2> HIDE DEF more
  <2>4. phys \o more \in Seq(Strs) /\ Len(phys \o more) = Len(x.toDev)
    <3>1. phys \o more \in Seq(Strs)
      BY <2>2, ConcatProperties
    <3>2. Len(phys \o more) = Len(phys) + Len(more)
      BY <2>2, ConcatProperties
    <3> QED
      BY <2>1, <2>2, <3>1, <3>2
  <2>5. ASSUME NEW p \in Indices(x.toDev) PROVE (phys \o more)[p + 1] = Name(dev, phys, x, p)
    <3>1. CASE p < Len(phys)
      BY <1>1, <2>2, <2>5, <3>1 DEF Name, Indices
    <3>2. CASE ~(p < Len(phys))
      <4>1. p + 1 - Len(phys) \in 1..Len(x.extra) /\ p \in Nat
        BY <1>1, <2>1, <2>5, <3>2 DEF Indices
      <4>2. (phys \o more)[p + 1] = more[p + 1 - Len(phys)]
        BY <1>1, <2>2, <4>1
      <4>3. x.extra[p + 1 - Len(phys)] = x.toDev[p + 1]
        BY <1>1, <2>1, <4>1
      <4> QED
        BY <2>2, <3>2, <4>1, <4>2, <4>3 DEF Name
    <3> QED
      BY <3>1, <3>2
  <2> QED
    BY <1>1, <1>2, <2>3, <2>4, <2>5 DEF Indices
<1>4. CASE k = "assign"
  <2> DEFINE list == [p \in DOMAIN x.toDev |->
                       IF x.toDev[p] = None THEN phys[p] ELSE dev[x.toDev[p] + 1]]
  <2>1. StrList(k, dev, phys, x) = list
    BY <1>4 DEF StrList
  <2>2. ASSUME NEW p \in 1..Len(x.toDev)
        PROVE  /\ list[p] \in Strs
               /\ list[p] = Name(dev, phys, x, p - 1)
    <3>1. CASE x.toDev[p] = None
      <4>1. p \in 1..Len(phys) /\ p - 1 < Len(phys)
        BY <1>1, <1>2, <3>1
      <4> QED
        BY <1>1, <3>1, <4>1 DEF Name
    <3>2. CASE x.toDev[p] # None
      <4>1. x.toDev[p] \in Indices(dev)
        BY <1>1, <3>2
      <4>2. list[p] = dev[x.toDev[p] + 1] /\ list[p] \in Strs
        BY <1>1, <3>2, <4>1 DEF Indices
      <4>3. CASE p > Len(phys)
        BY <1>1, <4>2, <4>3 DEF Name
      <4>4. CASE ~(p > Len(phys))
        <5>1. p \in 1..Len(phys)
          BY <1>1, <4>4
        <5>2. dev[x.toDev[p] + 1] = phys[p]
          BY <3>2, <5>1 DEF Good, Agree
        <5> QED
          BY <1>1, <4>2, <5>1, <5>2 DEF Name
      <4> QED
        BY <4>3, <4>4
    <3> QED
      BY <3>1, <3>2
  <2>3. list \in Seq(Strs) /\ Len(list) = Len(x.toDev)
    <3>1. DOMAIN x.toDev = 1..Len(x.toDev)
      BY <1>1
    <3>2. list \in [1..Len(x.toDev) -> Strs]
      BY <2>2, <3>1
    <3> HIDE DEF list
    <3>3. list \in Seq(Strs)
      BY <1>1, <3>2, SeqDef
    <3> QED
      BY <1>1, <3>2, <3>3
  <2> HIDE DEF list
  <2>4. ASSUME NEW p \in Indices(x.toDev)
        PROVE  list[p + 1] = Name(dev, phys, x, p)
    <3>1. p + 1 \in 1..Len(x.toDev) /\ (p + 1) - 1 = p
      BY <1>1 DEF Indices
    <3> QED
      BY <2>2, <3>1
  <2>5. \A p \in Indices(x.toDev) : p >= Len(phys) => x.toDev[p + 1] # None
    BY <1>1, <1>2 DEF Indices
  <2> QED
    BY <2>1, <2>3, <2>4, <2>5
<1> QED
  BY <1>3, <1>4

LEMMA InitIInv == Init => IInv
<1> SUFFICES ASSUME Init PROVE IInv
  OBVIOUS
<1>1. devStrs \in Seq(Strs) /\ physStrs \in Seq(Strs) /\ Len(devStrs) \in Nat /\ Len(physStrs) \in Nat
  BY ListTypes DEF Init
<1>2. ic.toDev \in Seq(Indices(devStrs) \cup {None}) /\ Len(ic.toDev) = Len(physStrs)
      /\ \A p \in 1..Len(physStrs) : ic.toDev[p] = None
  BY <1>1 DEF Init
<1>3. /\ ic.toPhys \in [Indices(devStrs) -> Nat \cup {None}] /\ ic.extra = <<>>
      /\ \A d \in Indices(devStrs) : ic.toPhys[d] = None
  BY DEF Init
<1>4. ic \in Maps(devStrs, physStrs)
  <2>1. ic = [toDev |-> [p \in 1..Len(physStrs) |-> None],
              toPhys |-> [d \in Indices(devStrs) |-> None], extra |-> <<>>]
    BY DEF Init
  <2>2. <<>> \in Seq(Indices(devStrs))
    OBVIOUS
  <2>3. [p \in 1..Len(physStrs) |-> None] \in Seq(Indices(devStrs) \cup {None})
    BY <1>1
  <2> QED
    BY <2>1, <2>2, <2>3 DEF Maps
<1>5. TypeOK
  BY <1>1, <1>4 DEF Init, TypeOK
<1>6. Good(kind, devStrs, physStrs, ic)
  BY <1>1, <1>2, <1>3, <1>4 DEF Good, Agree, Appended, Extra, Reached
<1>7. Progress
  BY <1>1, <1>2 DEF Init, Progress, Mapped, Linked
<1>8. Named(ic, pips, asked)
  BY DEF Init, Named
<1> QED
  BY <1>5, <1>6, <1>7, <1>8 DEF IInv, Init

LEMMA LoadDevStep == IInv /\ LoadDev => IInv'
<1> SUFFICES ASSUME IInv, LoadDev PROVE IInv'
  OBVIOUS
<1>1. devStrs \in Seq(Strs) /\ physStrs \in Seq(Strs) /\ Len(devStrs) \in Nat /\ next \in Nat
      /\ dev_strmap \in [Strs -> Indices(devStrs) \cup {None}]
  BY ListTypes DEF IInv, TypeOK
<1>2. /\ pc = "dev" /\ next < Len(devStrs) /\ next' = next + 1
      /\ UNCHANGED <<devStrs, physStrs, kind, pc, ic, pips, asked, written>>
      /\ dev_strmap' = [dev_strmap EXCEPT ![devStrs[next + 1]] = IF @ = None THEN next ELSE @]
  BY DEF LoadDev, lists
<1> DEFINE str == devStrs[next + 1]
<1>3. str \in Strs /\ next \in Indices(devStrs)
  BY <1>1, <1>2 DEF Indices
<1>4. dev_strmap' \in [Strs -> Indices(devStrs) \cup {None}]
      /\ dev_strmap'[str] = (IF dev_strmap[str] = None THEN next ELSE dev_strmap[str])
      /\ \A s \in Strs : s # str => dev_strmap'[s] = dev_strmap[s]
  BY <1>1, <1>2, <1>3
<1>5. Mapped(dev_strmap, devStrs, next)
  BY <1>2 DEF IInv, Progress
<1>6. Mapped(dev_strmap', devStrs, next + 1)
  <2> SUFFICES ASSUME NEW s \in Strs
               PROVE  IF dev_strmap'[s] = None THEN \A e \in 0..next : devStrs[e + 1] # s
                      ELSE /\ dev_strmap'[s] \in 0..next
                           /\ devStrs[dev_strmap'[s] + 1] = s
                           /\ \A e \in 0..(dev_strmap'[s] - 1) : devStrs[e + 1] # s
    BY <1>1 DEF Mapped
  <2>1. IF dev_strmap[s] = None THEN \A e \in 0..(next - 1) : devStrs[e + 1] # s
        ELSE /\ dev_strmap[s] \in 0..(next - 1) /\ devStrs[dev_strmap[s] + 1] = s
             /\ \A e \in 0..(dev_strmap[s] - 1) : devStrs[e + 1] # s
    BY <1>5 DEF Mapped
  <2>2. CASE s = str
    <3>1. CASE dev_strmap[s] = None
      BY <1>1, <1>4, <2>1, <2>2, <3>1 DEF None
    <3>2. CASE dev_strmap[s] # None
      BY <1>1, <1>4, <2>1, <2>2, <3>2
    <3> QED
      BY <3>1, <3>2
  <2>3. CASE s # str
    <3>1. dev_strmap'[s] = dev_strmap[s]
      BY <1>4, <2>3
    <3>2. CASE dev_strmap[s] = None
      <4>1. \A e \in 0..next : e \in 0..(next - 1) \/ e = next
        BY <1>1
      <4> QED
        BY <2>1, <2>3, <3>1, <3>2, <4>1
    <3>3. CASE dev_strmap[s] # None
      BY <1>1, <2>1, <3>1, <3>3
    <3> QED
      BY <3>2, <3>3
  <2> QED
    BY <2>2, <2>3
<1>7. TypeOK'
  BY <1>1, <1>2, <1>4 DEF IInv, TypeOK, Triples
<1>8. Linked(dev_strmap', physStrs, ic, 0)
  <2>1. Linked(dev_strmap, physStrs, ic, 0)
    BY <1>2 DEF IInv, Progress
  <2> QED
    BY <2>1 DEF Linked
<1>9. Progress'
  BY <1>1, <1>2, <1>6, <1>8 DEF IInv, Progress
<1> QED
  BY <1>2, <1>7, <1>9 DEF IInv

LEMMA LoadPhysStep == IInv /\ LoadPhys => IInv'
<1> SUFFICES ASSUME IInv, LoadPhys PROVE IInv'
  OBVIOUS
<1>1. devStrs \in Seq(Strs) /\ physStrs \in Seq(Strs) /\ Len(devStrs) \in Nat /\ next \in Nat
      /\ Len(physStrs) \in Nat /\ dev_strmap \in [Strs -> Indices(devStrs) \cup {None}]
      /\ ic \in Maps(devStrs, physStrs)
  BY ListTypes DEF IInv, TypeOK
<1>2. /\ pc = "phys" /\ next < Len(physStrs) /\ next' = next + 1
      /\ UNCHANGED <<devStrs, physStrs, kind, pc, dev_strmap, pips, asked, written>>
  BY DEF LoadPhys, lists
<1> DEFINE d == dev_strmap[physStrs[next + 1]]
<1>3. /\ physStrs[next + 1] \in Strs /\ next + 1 \in 1..Len(physStrs)
      /\ d \in Indices(devStrs) \cup {None}
      /\ ic' = IF d = None THEN ic ELSE Link(d, next)
  BY <1>1, <1>2 DEF LoadPhys
<1>4. /\ Len(ic.toDev) = Len(physStrs) /\ Linked(dev_strmap, physStrs, ic, next)
      /\ Mapped(dev_strmap, devStrs, Len(devStrs)) /\ Good(kind, devStrs, physStrs, ic)
      /\ Named(ic, pips, asked)
  BY <1>2 DEF IInv, Progress
<1>5. ic.toDev[next + 1] = None
  BY <1>1, <1>3, <1>4 DEF Linked
<1>6. /\ ic.toDev \in Seq(Indices(devStrs) \cup {None})
      /\ ic.toPhys \in [Indices(devStrs) -> Nat \cup {None}] /\ ic.extra \in Seq(Indices(devStrs))
  BY <1>1 DEF Maps
<1>7. /\ ic' \in Maps(devStrs, physStrs) /\ Len(ic'.toDev) = Len(ic.toDev)
      /\ ic'.toDev[next + 1] = d /\ ic'.extra = ic.extra
      /\ \A p \in 1..Len(physStrs) : p # next + 1 => ic'.toDev[p] = ic.toDev[p]
      /\ d = None => ic'.toPhys = ic.toPhys
      /\ d # None =>
           /\ ic'.toPhys[d] = IF kind = "sorted" \/ (kind = "insert" /\ ic.toPhys[d] # None)
                              THEN ic.toPhys[d] ELSE next
           /\ \A e \in Indices(devStrs) : e # d => ic'.toPhys[e] = ic.toPhys[e]
  <2>1. CASE d = None
    BY <1>1, <1>3, <1>5, <2>1
  <2>2. CASE d # None
    <3>1. ic' = [ic EXCEPT !.toDev[next + 1] = d,
                   !.toPhys[d] = IF kind = "sorted" \/ (kind = "insert" /\ @ # None) THEN @ ELSE next]
      BY <1>3, <2>2 DEF Link
    <3> DEFINE toDev == [ic.toDev EXCEPT ![next + 1] = d]
               toPhys == [ic.toPhys EXCEPT ![d] = IF kind = "sorted" \/ (kind = "insert" /\ @ # None)
                                                  THEN @ ELSE next]
    <3>2. ic = [toDev |-> ic.toDev, toPhys |-> ic.toPhys, extra |-> ic.extra]
      BY <1>1 DEF Maps
    <3>3. /\ ic'.toDev = toDev /\ ic'.toPhys = toPhys /\ ic'.extra = ic.extra
          /\ ic' = [toDev |-> toDev, toPhys |-> toPhys, extra |-> ic.extra]
      BY <3>1, <3>2
    <3>4. toDev \in Seq(Indices(devStrs) \cup {None}) /\ Len(toDev) = Len(ic.toDev)
          /\ toDev[next + 1] = d
          /\ \A p \in 1..Len(physStrs) : p # next + 1 => toDev[p] = ic.toDev[p]
      BY <1>1, <1>3, <1>4, <1>6
    <3>5. toPhys \in [Indices(devStrs) -> Nat \cup {None}]
          /\ toPhys[d] = (IF kind = "sorted" \/ (kind = "insert" /\ ic.toPhys[d] # None)
                          THEN ic.toPhys[d] ELSE next)
          /\ \A e \in Indices(devStrs) : e # d => toPhys[e] = ic.toPhys[e]
      BY <1>1, <1>3, <1>6, <2>2
    <3> HIDE DEF toDev, toPhys, d
    <3>6. ic' \in Maps(devStrs, physStrs)
      BY <1>6, <3>3, <3>4, <3>5 DEF Maps
    <3> QED
      BY <2>2, <3>3, <3>4, <3>5, <3>6
  <2> QED
    BY <2>1, <2>2
<1>8. d # None => devStrs[d + 1] = physStrs[next + 1]
  BY <1>3, <1>4 DEF Mapped
<1> HIDE DEF d
<1>9. ASSUME NEW e \in Indices(devStrs), ic.toPhys[e] # None
      PROVE  ic.toPhys[e] + 1 \in 1..Len(physStrs) /\ ic.toDev[ic.toPhys[e] + 1] = e
             /\ ic.toPhys[e] # next
  BY <1>1, <1>4, <1>5, <1>9 DEF Good, Agree, Indices, None
<1>10. Agree(devStrs, physStrs, ic')
  <2>1. ASSUME NEW p \in 1..Len(physStrs), ic'.toDev[p] # None
        PROVE  devStrs[ic'.toDev[p] + 1] = physStrs[p]
    BY <1>4, <1>7, <1>8, <2>1 DEF Good, Agree
  <2>2. ASSUME NEW e \in Indices(devStrs), ic'.toPhys[e] # None
        PROVE  ic'.toPhys[e] + 1 \in 1..Len(ic'.toDev) /\ ic'.toDev[ic'.toPhys[e] + 1] = e
    <3>1. CASE ic'.toPhys[e] = ic.toPhys[e]
      <4>1. /\ ic.toPhys[e] + 1 \in 1..Len(physStrs) /\ ic.toDev[ic.toPhys[e] + 1] = e
            /\ ic.toPhys[e] # next
        BY <1>9, <2>2, <3>1
      <4>2. ic.toPhys[e] + 1 # next + 1
        BY <1>1, <1>6, <4>1, <2>2, <3>1 DEF None
      <4> QED
        BY <1>4, <1>7, <3>1, <4>1, <4>2
    <3>2. CASE ic'.toPhys[e] # ic.toPhys[e]
      <4>1. d # None /\ e = d /\ ic'.toPhys[e] = next
        BY <1>7, <3>2
      <4> QED
        BY <1>3, <1>4, <1>7, <4>1
    <3> QED
      BY <3>1, <3>2
  <2> QED
    BY <2>1, <2>2 DEF Agree
<1>11. Appended(devStrs, physStrs, ic') /\ Extra(kind, physStrs, ic')
  <2>1. Appended(devStrs, physStrs, ic')
    BY <1>1, <1>4, <1>7 DEF Appended
  <2>2. kind = "insert" => Len(ic.extra) = 0
    BY <1>1, <1>4, <1>6 DEF Good, Extra
  <2>3. Extra(kind, physStrs, ic')
    BY <1>1, <1>4, <1>7, <2>2 DEF Extra
  <2> QED
    BY <2>1, <2>3
<1>12. Reached(kind, physStrs, ic')
  <2> SUFFICES ASSUME kind # "sorted", NEW p \in 1..Len(physStrs), ic'.toDev[p] # None
               PROVE  ic'.toPhys[ic'.toDev[p]] + 1 \in 1..Len(physStrs)
    BY DEF Reached
  <2>1. ic'.toDev[p] \in Indices(devStrs)
    BY <1>4, <1>7 DEF Maps
  <2>2. CASE ic'.toDev[p] = d
    <3>1. d # None
      BY <2>2
    <3>2. ic'.toPhys[d] = next \/ (ic'.toPhys[d] = ic.toPhys[d] /\ ic.toPhys[d] # None)
      BY <1>7, <3>1
    <3>3. ic.toPhys[d] # None => ic.toPhys[d] + 1 \in 1..Len(physStrs)
      BY <1>9, <2>1, <2>2
    <3> QED
      BY <1>3, <2>2, <3>2, <3>3
  <2>3. CASE ic'.toDev[p] # d
    <3>1. p # next + 1 /\ ic'.toDev[p] = ic.toDev[p]
      BY <1>7, <2>3
    <3>2. ic'.toPhys[ic.toDev[p]] = ic.toPhys[ic.toDev[p]]
      BY <1>7, <2>1, <2>3, <3>1
    <3>3. ic.toPhys[ic.toDev[p]] + 1 \in 1..Len(physStrs)
      BY <1>4, <3>1 DEF Good, Reached
    <3> QED
      BY <3>1, <3>2, <3>3
  <2> QED
    BY <2>2, <2>3
<1>13. Good(kind, devStrs, physStrs, ic')
  BY <1>4, <1>7, <1>10, <1>11, <1>12 DEF Good
<1>14. Linked(dev_strmap, physStrs, ic', next + 1)
  <2> SUFFICES ASSUME NEW p \in 1..Len(physStrs)
               PROVE  ic'.toDev[p] = IF p <= next + 1 THEN dev_strmap[physStrs[p]] ELSE None
    BY DEF Linked
  <2>1. CASE p = next + 1
    BY <1>1, <1>7, <2>1 DEF d
  <2>2. CASE p # next + 1
    BY <1>1, <1>4, <1>7, <2>2 DEF Linked
  <2> QED
    BY <2>1, <2>2
<1>15. Named(ic', pips, asked)
  <2> SUFFICES ASSUME NEW k \in 1..Len(pips), NEW i \in 1..3
               PROVE  pips[k][i] + 1 \in 1..Len(ic'.toDev) /\ ic'.toDev[pips[k][i] + 1] = asked[k][i]
    BY <1>4 DEF Named
  <2>1. pips[k][i] + 1 \in 1..Len(ic.toDev) /\ ic.toDev[pips[k][i] + 1] = asked[k][i]
    BY <1>4 DEF Named
  <2>2. asked[k] \in Triples
    <3>1. asked \in Seq(Triples) /\ Len(pips) = Len(asked)
      BY <1>4 DEF IInv, TypeOK, Named
    <3> QED
      BY <3>1
  <2>3. asked[k][i] # None
    <3>1. asked[k][1] \in Indices(devStrs) /\ asked[k][2] \in Indices(devStrs)
          /\ asked[k][3] \in Indices(devStrs)
      BY <2>2 DEF Triples
    <3>2. \A e \in Indices(devStrs) : e # None
      BY DEF Indices, None
    <3>3. i = 1 \/ i = 2 \/ i = 3
      OBVIOUS
    <3> QED
      BY <3>1, <3>2, <3>3
  <2>4. pips[k][i] + 1 # next + 1
    BY <1>5, <2>1, <2>3
  <2> QED
    BY <1>4, <1>7, <2>1, <2>4
<1>16. TypeOK'
  BY <1>1, <1>2, <1>7 DEF IInv, TypeOK, Triples
<1>17. Progress'
  BY <1>1, <1>2, <1>4, <1>7, <1>14 DEF IInv, Progress
<1> QED
  BY <1>2, <1>13, <1>15, <1>16, <1>17 DEF IInv

\* The steps between the loops change no map
LEMMA LoopEnds ==
  IInv /\ (DevLoaded \/ LoadPhysFails \/ PhysLoaded) => IInv'
<1> SUFFICES ASSUME IInv, DevLoaded \/ LoadPhysFails \/ PhysLoaded PROVE IInv'
  OBVIOUS
<1>1. UNCHANGED <<devStrs, physStrs, kind, dev_strmap, ic, pips, asked, written>>
  BY DEF DevLoaded, LoadPhysFails, PhysLoaded, lists
<1>2. Len(devStrs) \in Nat /\ Len(physStrs) \in Nat
  BY ListTypes DEF IInv, TypeOK
<1>3. next' \in Nat /\ pc' \in {"phys", "aborted", "nets"}
  BY DEF DevLoaded, LoadPhysFails, PhysLoaded, IInv, TypeOK
<1>4. TypeOK'
  BY <1>1, <1>3 DEF IInv, TypeOK, Triples
<1>5. Progress'
  <2>1. CASE DevLoaded
    <3>1. pc = "dev" /\ next = Len(devStrs) /\ pc' = "phys" /\ next' = 0
      BY <2>1 DEF DevLoaded
    <3> QED
      BY <1>1, <1>2, <3>1 DEF IInv, Progress
  <2>2. CASE LoadPhysFails
    <3>1. pc = "phys" /\ pc' = "aborted"
      BY <2>2 DEF LoadPhysFails
    <3> QED
      BY <1>1, <3>1 DEF IInv, Progress
  <2>3. CASE PhysLoaded
    <3>1. pc = "phys" /\ next = Len(physStrs) /\ pc' = "nets"
      BY <2>3 DEF PhysLoaded
    <3> QED
      BY <1>1, <3>1 DEF IInv, Progress
  <2> QED
    BY <2>1, <2>2, <2>3
<1> QED
  BY <1>1, <1>3, <1>4, <1>5 DEF IInv

\* Adding a pip, or dropping one whose strings are there already
LEMMA PipStep ==
  ASSUME IInv, NEW pip \in Triples, pc = "nets", kind # "sorted",
         ic' = Alloc3(kind, physStrs, ic, pip),
         UNCHANGED <<devStrs, physStrs, kind, pc, next, dev_strmap, written>>
  PROVE  /\ Good(kind, devStrs, physStrs, ic') /\ Progress' /\ Named(ic', pips, asked)
         /\ Grows(devStrs, ic, ic') /\ ic' \in Maps(devStrs, physStrs)
         /\ \A i \in 1..3 : /\ ic'.toPhys[pip[i]] + 1 \in 1..Len(ic'.toDev)
                            /\ ic'.toPhys[pip[i]] \in Nat
                            /\ ic'.toDev[ic'.toPhys[pip[i]] + 1] = pip[i]
<1>1. devStrs \in Seq(Strs) /\ physStrs \in Seq(Strs) /\ Good(kind, devStrs, physStrs, ic)
      /\ Len(physStrs) \in Nat /\ \A i \in 1..3 : pip[i] \in Indices(devStrs)
  BY ListTypes DEF IInv, TypeOK, Triples
<1>2. /\ Good(kind, devStrs, physStrs, ic') /\ Grows(devStrs, ic, ic')
      /\ \A i \in 1..3 : /\ ic'.toPhys[pip[i]] + 1 \in 1..Len(ic'.toDev)
                         /\ ic'.toPhys[pip[i]] \in Nat
                         /\ ic'.toDev[ic'.toPhys[pip[i]] + 1] = pip[i]
  <2>1. Good(kind, devStrs, physStrs, ic')
    BY <1>1, Alloc3IsGood
  <2>2. Grows(devStrs, ic, ic')
    BY <1>1, Alloc3IsGood
  <2>3. \A i \in 1..3 : ic'.toPhys[pip[i]] + 1 \in 1..Len(ic'.toDev)
    BY <1>1, Alloc3IsGood
  <2>4. \A i \in 1..3 : ic'.toPhys[pip[i]] \in Nat
    BY <1>1, Alloc3IsGood
  <2>5. \A i \in 1..3 : ic'.toDev[ic'.toPhys[pip[i]] + 1] = pip[i]
    BY <1>1, Alloc3IsGood
  <2> QED
    BY <2>1, <2>2, <2>3, <2>4, <2>5
<1>3. ic \in Maps(devStrs, physStrs) /\ ic' \in Maps(devStrs, physStrs) /\ Len(physStrs) <= Len(ic.toDev)
  BY <1>1, <1>2 DEF Good
<1>4. Len(ic.toDev) \in Nat /\ Len(ic'.toDev) \in Nat
  BY <1>3 DEF Maps
<1>5. \A p \in 1..Len(ic.toDev) : p \in 1..Len(ic'.toDev) /\ ic'.toDev[p] = ic.toDev[p]
  BY <1>2, <1>4 DEF Grows
<1>6. Linked(dev_strmap, physStrs, ic', Len(physStrs))
  <2>1. Linked(dev_strmap, physStrs, ic, Len(physStrs))
    BY DEF IInv, Progress
  <2>2. \A p \in 1..Len(physStrs) : p \in 1..Len(ic.toDev)
    BY <1>1, <1>3, <1>4
  <2> QED
    BY <1>5, <2>1, <2>2 DEF Linked
<1>7. Progress'
  BY <1>6 DEF IInv, Progress
<1>8. Named(ic', pips, asked)
  <2>1. Named(ic, pips, asked)
    BY DEF IInv
  <2> QED
    BY <1>5, <2>1 DEF Named
<1> QED
  BY <1>2, <1>3, <1>7, <1>8

LEMMA AddPipStep == ASSUME IInv, NEW pip \in Triples, AddPip(pip) PROVE IInv'
<1>1. /\ pc = "nets" /\ kind # "sorted" /\ ic' = Alloc3(kind, physStrs, ic, pip)
      /\ UNCHANGED <<devStrs, physStrs, kind, pc, next, dev_strmap, written>>
      /\ pips' = Append(pips, <<ic'.toPhys[pip[1]], ic'.toPhys[pip[2]], ic'.toPhys[pip[3]]>>)
      /\ asked' = Append(asked, pip)
  BY DEF AddPip, lists
<1>2. /\ Good(kind, devStrs, physStrs, ic') /\ Progress' /\ Named(ic', pips, asked)
      /\ ic' \in Maps(devStrs, physStrs)
      /\ \A i \in 1..3 : /\ ic'.toPhys[pip[i]] + 1 \in 1..Len(ic'.toDev)
                         /\ ic'.toPhys[pip[i]] \in Nat
                         /\ ic'.toDev[ic'.toPhys[pip[i]] + 1] = pip[i]
  BY <1>1, PipStep
<1> DEFINE new == <<ic'.toPhys[pip[1]], ic'.toPhys[pip[2]], ic'.toPhys[pip[3]]>>
<1>3. /\ new \in Nat \X Nat \X Nat /\ \A i \in 1..3 : new[i] = ic'.toPhys[pip[i]]
  <2>1. ic'.toPhys[pip[1]] \in Nat /\ ic'.toPhys[pip[2]] \in Nat /\ ic'.toPhys[pip[3]] \in Nat
    BY <1>2
  <2>2. \A i \in 1..3 : i = 1 \/ i = 2 \/ i = 3
    OBVIOUS
  <2> QED
    BY <2>1, <2>2
<1>4. pips' = Append(pips, new)
  BY <1>1
<1> HIDE DEF new
<1>5. /\ pips \in Seq(Nat \X Nat \X Nat) /\ asked \in Seq(Triples) /\ Len(pips) = Len(asked)
      /\ Len(pips) \in Nat
  BY DEF IInv, TypeOK, Named
<1>6. /\ pips' \in Seq(Nat \X Nat \X Nat) /\ asked' \in Seq(Triples)
      /\ Len(pips') = Len(pips) + 1 /\ Len(asked') = Len(asked) + 1
      /\ pips'[Len(pips) + 1] = new /\ asked'[Len(pips) + 1] = pip
      /\ \A k \in 1..Len(pips) : pips'[k] = pips[k] /\ asked'[k] = asked[k]
  BY <1>1, <1>3, <1>4, <1>5
<1>7. Named(ic', pips', asked')
  <2> SUFFICES ASSUME NEW k \in 1..Len(pips'), NEW i \in 1..3
               PROVE  /\ pips'[k][i] + 1 \in 1..Len(ic'.toDev)
                      /\ ic'.toDev[pips'[k][i] + 1] = asked'[k][i]
    BY <1>5, <1>6 DEF Named
  <2>1. CASE k = Len(pips) + 1
    BY <1>2, <1>3, <1>6, <2>1
  <2>2. CASE k # Len(pips) + 1
    <3>1. k \in 1..Len(pips)
      BY <1>5, <1>6, <2>2
    <3> QED
      BY <1>2, <1>6, <3>1 DEF Named
  <2> QED
    BY <2>1, <2>2
<1>8. TypeOK'
  BY <1>1, <1>2, <1>6 DEF IInv, TypeOK, Triples
<1> QED
  BY <1>1, <1>2, <1>7, <1>8 DEF IInv

LEMMA DropPipStep == ASSUME IInv, NEW pip \in Triples, DropPip(pip) PROVE IInv'
<1>1. /\ pc = "nets" /\ kind # "sorted" /\ ic' = Alloc3(kind, physStrs, ic, pip)
      /\ UNCHANGED <<devStrs, physStrs, kind, pc, next, dev_strmap, written, pips, asked>>
  BY DEF DropPip, lists
<1>2. /\ Good(kind, devStrs, physStrs, ic') /\ Progress' /\ Named(ic', pips, asked)
      /\ ic' \in Maps(devStrs, physStrs)
  BY <1>1, PipStep
<1>3. TypeOK'
  BY <1>1, <1>2 DEF IInv, TypeOK, Triples
<1> QED
  BY <1>1, <1>2, <1>3 DEF IInv

LEMMA KindTypes == IInv /\ kind # "sorted" => kind \in {"insert", "assign"}
BY StringsAssumption DEF IInv, TypeOK

LEMMA WriteStep == IInv /\ WriteStrings => IInv'
<1> SUFFICES ASSUME IInv, WriteStrings PROVE IInv'
  OBVIOUS
<1>1. /\ pc = "nets" /\ kind # "sorted" /\ pc' = "written"
      /\ written' = StrList(kind, devStrs, physStrs, ic)
      /\ UNCHANGED <<devStrs, physStrs, kind, next, dev_strmap, ic, pips, asked>>
  BY DEF WriteStrings, lists
<1>2. written' \in Seq(Strs)
  <2>1. devStrs \in Seq(Strs) /\ physStrs \in Seq(Strs) /\ kind \in {"insert", "assign"}
        /\ Good(kind, devStrs, physStrs, ic)
    BY <1>1, ListTypes, KindTypes DEF IInv, TypeOK
  <2> QED
    BY <1>1, <2>1, StrListNames
<1>3. TypeOK' /\ Progress'
  BY <1>1, <1>2 DEF IInv, TypeOK, Triples, Progress
<1> QED
  BY <1>1, <1>3 DEF IInv

LEMMA NextIInv == IInv /\ [Next]_vars => IInv'
<1> SUFFICES ASSUME IInv, [Next]_vars PROVE IInv'
  OBVIOUS
<1>1. CASE UNCHANGED vars
  BY <1>1 DEF vars, lists, IInv, TypeOK, Triples, Progress
<1>2. CASE Load
  BY <1>2, LoadDevStep, LoadPhysStep, LoopEnds DEF Load
<1>3. CASE \E pip \in Triples : AddPip(pip) \/ DropPip(pip)
  BY <1>3, AddPipStep, DropPipStep
<1>4. CASE WriteStrings
  BY <1>4, WriteStep
<1>5. CASE Ended
  BY <1>1, <1>5 DEF Ended
<1> QED
  BY <1>1, <1>2, <1>3, <1>4, <1>5 DEF Next

LEMMA IInvAlways == Spec => []IInv
<1> QED
  BY InitIInv, NextIInv, PTL DEF Spec

-----------------------------------------------------------------------------
(* The theorems *)

\* TypeOK: the maps lead from one file's indices to the other's.
THEOREM TypeCorrect == Spec => []TypeOK
<1>1. IInv => TypeOK
  BY DEF IInv
<1> QED
  BY <1>1, IInvAlways, PTL

\* What Good says, of names
LEMMA GoodNames ==
  ASSUME NEW dev, NEW phys \in Seq(Strs), NEW k, NEW x, Good(k, dev, phys, x), dev \in Seq(Strs)
  PROVE  /\ \A p \in Indices(x.toDev) :
              x.toDev[p + 1] # None => dev[x.toDev[p + 1] + 1] = Name(dev, phys, x, p)
         /\ \A d \in Indices(dev) :
              x.toPhys[d] # None => x.toPhys[d] \in Indices(x.toDev) /\ x.toDev[x.toPhys[d] + 1] = d
<1>1. Len(phys) \in Nat /\ Len(x.toDev) \in Nat /\ x.toPhys \in [Indices(dev) -> Nat \cup {None}]
  BY DEF Good, Maps
<1>2. ASSUME NEW p \in Indices(x.toDev), x.toDev[p + 1] # None
      PROVE  dev[x.toDev[p + 1] + 1] = Name(dev, phys, x, p)
  <2>1. CASE p < Len(phys)
    <3>1. p + 1 \in 1..Len(phys)
      BY <1>1, <2>1 DEF Indices
    <3> QED
      BY <1>2, <2>1, <3>1 DEF Name, Good, Agree
  <2>2. CASE ~(p < Len(phys))
    BY <2>2 DEF Name
  <2> QED
    BY <2>1, <2>2
<1>3. ASSUME NEW d \in Indices(dev), x.toPhys[d] # None
      PROVE  x.toPhys[d] \in Indices(x.toDev) /\ x.toDev[x.toPhys[d] + 1] = d
  <2>1. x.toPhys[d] \in Nat
    BY <1>1, <1>3
  <2>2. x.toPhys[d] + 1 \in 1..Len(x.toDev) /\ x.toDev[x.toPhys[d] + 1] = d
    BY <1>3 DEF Good, Agree
  <2> QED
    BY <1>1, <2>1, <2>2 DEF Indices
<1> QED
  BY <1>2, <1>3

\* NamesAgree: both directions of the map name the same strings.
THEOREM DirectionsAgree == Spec => []NamesAgree
<1>1. IInv => NamesAgree
  <2> SUFFICES ASSUME IInv PROVE NamesAgree
    OBVIOUS
  <2>1. devStrs \in Seq(Strs) /\ physStrs \in Seq(Strs) /\ Good(kind, devStrs, physStrs, ic)
    BY ListTypes DEF IInv, TypeOK
  <2> QED
    BY <2>1, GoodNames DEF NamesAgree
<1> QED
  BY <1>1, IInvAlways, PTL

\* FirstFound: every router reads the first device string that equals one of the
\* netlist.
THEOREM ReadsTheFirst == Spec => []FirstFound
<1>1. IInv => FirstFound
  <2> SUFFICES ASSUME IInv, pc \in {"nets", "written"}, NEW p \in Indices(physStrs)
               PROVE  IF Found(physStrs[p + 1]) = {} THEN ic.toDev[p + 1] = None
                      ELSE /\ ic.toDev[p + 1] \in Found(physStrs[p + 1])
                           /\ \A e \in Found(physStrs[p + 1]) : ic.toDev[p + 1] <= e
    BY DEF FirstFound
  <2>1. devStrs \in Seq(Strs) /\ physStrs \in Seq(Strs) /\ Len(devStrs) \in Nat
        /\ Len(physStrs) \in Nat
    BY ListTypes DEF IInv, TypeOK
  <2>2. p + 1 \in 1..Len(physStrs) /\ physStrs[p + 1] \in Strs
    BY <2>1 DEF Indices
  <2>3. ic.toDev[p + 1] = dev_strmap[physStrs[p + 1]]
    BY <2>1, <2>2 DEF IInv, Progress, Linked
  <2>4. Mapped(dev_strmap, devStrs, Len(devStrs))
    BY DEF IInv, Progress
  <2> DEFINE str == physStrs[p + 1]
             d == dev_strmap[str]
  <2>5. CASE d = None
    <3>1. Found(str) = {}
      BY <2>2, <2>4, <2>5 DEF Mapped, Found, Indices
    <3> QED
      BY <2>3, <2>5, <3>1
  <2>6. CASE d # None
    <3>1. d \in 0..(Len(devStrs) - 1) /\ devStrs[d + 1] = str
          /\ \A e \in 0..(d - 1) : devStrs[e + 1] # str
      BY <2>2, <2>4, <2>6 DEF Mapped
    <3> HIDE DEF d
    <3>2. d \in Found(str)
      BY <3>1 DEF Found, Indices
    <3>3. ASSUME NEW e \in Found(str) PROVE d <= e
      <4>1. e \in 0..(Len(devStrs) - 1) /\ devStrs[e + 1] = str
        BY DEF Found, Indices
      <4>2. ~(e < d)
        BY <2>1, <3>1, <4>1
      <4> QED
        BY <2>1, <3>1, <4>1, <4>2
    <3> QED
      BY <2>3, <3>2, <3>3 DEF d
  <2> QED
    BY <2>5, <2>6
<1> QED
  BY <1>1, IInvAlways, PTL

\* NoneTwice: a string is appended only if the list does not have it.
THEOREM AppendedOnce == Spec => []NoneTwice
<1>1. IInv => NoneTwice
  <2> SUFFICES ASSUME IInv,
                      \A d, e \in Indices(devStrs) : devStrs[d + 1] = devStrs[e + 1] => d = e,
                      NEW p \in Indices(ic.toDev), NEW q \in Indices(ic.toDev),
                      p < q, q >= Len(physStrs),
                      Name(devStrs, physStrs, ic, p) = Name(devStrs, physStrs, ic, q)
               PROVE  FALSE
    BY DEF NoneTwice
  <2>1. /\ devStrs \in Seq(Strs) /\ physStrs \in Seq(Strs) /\ Len(devStrs) \in Nat
        /\ Len(physStrs) \in Nat /\ Good(kind, devStrs, physStrs, ic)
    BY ListTypes DEF IInv, TypeOK
  <2>2. Len(ic.toDev) \in Nat /\ Len(ic.toDev) > Len(physStrs)
    <3>1. Len(ic.toDev) \in Nat
      BY <2>1 DEF Good, Maps
    <3> QED
      BY <2>1, <3>1 DEF Indices
  <2>3. pc \in {"nets", "written"} /\ kind # "sorted"
    BY <2>1, <2>2 DEF IInv, Progress, TypeOK
  <2> DEFINE e == ic.toDev[q + 1]
             d == ic.toDev[p + 1]
  <2>4. q + 1 \in 1..Len(ic.toDev) /\ q + 1 > Len(physStrs) /\ (q + 1) - 1 = q
        /\ p + 1 \in 1..Len(ic.toDev) /\ (p + 1) - 1 = p
    BY <2>1, <2>2 DEF Indices
  <2>5. e \in Indices(devStrs) /\ ic.toPhys[e] = q
    BY <2>1, <2>4 DEF Good, Appended
  <2>6. Name(devStrs, physStrs, ic, q) = devStrs[e + 1]
    BY <2>1, <2>4 DEF Name
  <2>7. CASE p >= Len(physStrs)
    <3>1. d \in Indices(devStrs) /\ ic.toPhys[d] = p
      BY <2>1, <2>4, <2>7 DEF Good, Appended
    <3>2. Name(devStrs, physStrs, ic, p) = devStrs[d + 1]
      BY <2>1, <2>4, <2>7 DEF Name
    <3>3. d = e
      BY <2>5, <2>6, <3>1, <3>2
    <3> QED
      BY <2>4, <2>5, <3>1, <3>3
  <2>8. CASE ~(p >= Len(physStrs))
    <3>1. p + 1 \in 1..Len(physStrs) /\ p < Len(physStrs)
      BY <2>1, <2>2, <2>8 DEF Indices
    <3>2. physStrs[p + 1] = devStrs[e + 1]
      BY <2>6, <3>1 DEF Name
    <3>3. d = dev_strmap[physStrs[p + 1]] /\ Mapped(dev_strmap, devStrs, Len(devStrs))
      BY <2>3, <3>1 DEF IInv, Progress, Linked
    <3>4. physStrs[p + 1] \in Strs
      BY <2>1, <3>1
    <3>5. d # None
      BY <2>5, <3>2, <3>3, <3>4 DEF Mapped, Indices
    <3>6. d \in Indices(devStrs) /\ devStrs[d + 1] = physStrs[p + 1]
      BY <3>3, <3>4, <3>5 DEF Mapped, Indices
    <3>7. d = e
      BY <2>5, <3>2, <3>6
    <3>8. ic.toPhys[d] + 1 \in 1..Len(physStrs)
      BY <2>1, <2>3, <3>1, <3>5 DEF Good, Reached
    <3> QED
      BY <2>4, <2>5, <3>7, <3>8
  <2> QED
    BY <2>7, <2>8
<1> QED
  BY <1>1, IInvAlways, PTL

\* PipsNamed: the list that is written names what the router asked for.
THEOREM PipsKeepTheirNames == Spec => []PipsNamed
<1>1. IInv => PipsNamed
  <2> SUFFICES ASSUME IInv PROVE PipsNamed
    OBVIOUS
  <2>1. /\ devStrs \in Seq(Strs) /\ physStrs \in Seq(Strs)
        /\ Good(kind, devStrs, physStrs, ic) /\ Named(ic, pips, asked)
    BY ListTypes DEF IInv, TypeOK
  <2>2. ASSUME pc = "written", NEW k \in 1..Len(pips), NEW i \in 1..3
        PROVE  /\ pips[k][i] \in Indices(written)
               /\ written[pips[k][i] + 1] = devStrs[asked[k][i] + 1]
    <3>1. kind \in {"insert", "assign"} /\ written = StrList(kind, devStrs, physStrs, ic)
      BY <2>2, KindTypes DEF IInv
    <3>2. /\ Len(written) = Len(ic.toDev)
          /\ \A p \in Indices(ic.toDev) : written[p + 1] = Name(devStrs, physStrs, ic, p)
      BY <2>1, <3>1, StrListNames
    <3>3. pips[k][i] + 1 \in 1..Len(ic.toDev) /\ ic.toDev[pips[k][i] + 1] = asked[k][i]
      BY <2>1 DEF Named
    <3>4. pips[k] \in Nat \X Nat \X Nat /\ asked[k] \in Triples
      <4>1. pips \in Seq(Nat \X Nat \X Nat) /\ asked \in Seq(Triples) /\ Len(asked) = Len(pips)
        BY <2>1 DEF IInv, TypeOK, Named
      <4> QED
        BY <4>1
    <3>5. pips[k][i] \in Nat /\ asked[k][i] # None
      <4>1. i = 1 \/ i = 2 \/ i = 3
        OBVIOUS
      <4>2. pips[k][1] \in Nat /\ pips[k][2] \in Nat /\ pips[k][3] \in Nat
        BY <3>4
      <4>3. asked[k][1] \in Indices(devStrs) /\ asked[k][2] \in Indices(devStrs)
            /\ asked[k][3] \in Indices(devStrs)
        BY <3>4 DEF Triples
      <4>4. \A e \in Indices(devStrs) : e # None
        BY DEF Indices, None
      <4> QED
        BY <4>1, <4>2, <4>3, <4>4
    <3>6. Len(ic.toDev) \in Nat
      BY <2>1 DEF Good, Maps
    <3>7. pips[k][i] \in Indices(ic.toDev)
      BY <3>3, <3>5, <3>6 DEF Indices
    <3>8. devStrs[ic.toDev[pips[k][i] + 1] + 1] = Name(devStrs, physStrs, ic, pips[k][i])
      <4>1. \A p \in Indices(ic.toDev) : ic.toDev[p + 1] # None
              => devStrs[ic.toDev[p + 1] + 1] = Name(devStrs, physStrs, ic, p)
        BY <2>1, GoodNames
      <4>2. ic.toDev[pips[k][i] + 1] # None
        BY <3>3, <3>5
      <4> QED
        BY <3>7, <4>1, <4>2
    <3> QED
      BY <3>2, <3>3, <3>7, <3>8 DEF Indices
  <2> QED
    BY <2>1, <2>2 DEF PipsNamed, Named
<1> QED
  BY <1>1, IInvAlways, PTL

LEMMA StepStays == IInv /\ [Next]_vars => NamesStep \/ UNCHANGED vars
<1> SUFFICES ASSUME IInv, [Next]_vars PROVE NamesStep \/ UNCHANGED vars
  OBVIOUS
<1>1. /\ devStrs \in Seq(Strs) /\ physStrs \in Seq(Strs) /\ Len(physStrs) \in Nat
      /\ Good(kind, devStrs, physStrs, ic) /\ Len(ic.toDev) \in Nat /\ Len(physStrs) <= Len(ic.toDev)
  <2>1. Good(kind, devStrs, physStrs, ic)
    BY DEF IInv
  <2> QED
    BY <2>1, ListTypes DEF IInv, TypeOK, Good, Maps
<1>2. CASE LoadDev \/ DevLoaded \/ LoadPhysFails \/ PhysLoaded
  BY <1>2 DEF LoadDev, DevLoaded, LoadPhysFails, PhysLoaded, NamesStep
<1>3. CASE LoadPhys
  <2>1. pc = "phys" /\ written' = written /\ IInv' /\ UNCHANGED <<physStrs, pc>>
    BY <1>3, LoadPhysStep DEF LoadPhys, lists
  <2>2. Len(ic.toDev) = Len(physStrs) /\ Len(ic'.toDev) = Len(physStrs)
    BY <2>1 DEF IInv, Progress
  <2> QED
    BY <1>1, <2>1, <2>2 DEF NamesStep, Name, Indices
<1>4. CASE \E pip \in Triples : AddPip(pip) \/ DropPip(pip)
  <2>1. PICK pip \in Triples : AddPip(pip) \/ DropPip(pip)
    BY <1>4
  <2>2. /\ pc = "nets" /\ kind # "sorted" /\ ic' = Alloc3(kind, physStrs, ic, pip)
        /\ UNCHANGED <<devStrs, physStrs, kind, pc, next, dev_strmap, written>>
    BY <2>1 DEF AddPip, DropPip, lists
  <2>3. Grows(devStrs, ic, ic') /\ ic' \in Maps(devStrs, physStrs)
    BY <2>2, PipStep
  <2>4. Len(ic'.toDev) \in Nat
    BY <2>3 DEF Maps
  <2>5. ASSUME NEW p \in Indices(ic.toDev)
        PROVE  /\ p \in Indices(ic'.toDev)
               /\ Name(devStrs, physStrs, ic', p) = Name(devStrs, physStrs, ic, p)
    <3>1. p \in Nat /\ p + 1 \in 1..Len(ic.toDev)
      BY <1>1 DEF Indices
    <3>2. ic'.toDev[p + 1] = ic.toDev[p + 1] /\ Len(ic.toDev) <= Len(ic'.toDev)
      BY <2>3, <3>1 DEF Grows
    <3> QED
      BY <1>1, <2>4, <3>1, <3>2 DEF Name, Indices
  <2> QED
    BY <2>2, <2>5 DEF NamesStep
<1>5. CASE WriteStrings
  <2>1. kind \in {"insert", "assign"} /\ written' = StrList(kind, devStrs, physStrs, ic) /\ ic' = ic
    BY <1>5, KindTypes DEF WriteStrings
  <2>2. /\ Len(written') = Len(ic.toDev)
        /\ \A p \in Indices(ic.toDev) : written'[p + 1] = Name(devStrs, physStrs, ic, p)
    BY <1>1, <2>1, StrListNames
  <2>3. \A p \in Indices(written') : p \in Indices(ic.toDev)
    BY <2>2 DEF Indices
  <2> QED
    BY <2>1, <2>2, <2>3 DEF NamesStep
<1> QED
  BY <1>2, <1>3, <1>4, <1>5 DEF Next, Load, Ended

\* NamesStay: an index keeps the string it names, through every step.
THEOREM NamesNeverChange == Spec => NamesStay
<1>1. IInv /\ [Next]_vars => [NamesStep]_vars
  BY StepStays
<1>2. Spec => [][NamesStep]_vars
  BY <1>1, IInvAlways, PTL DEF Spec
<1> QED
  BY <1>2 DEF NamesStay
=============================================================================
