----------------------------- MODULE CoversProofs -----------------------------
(***************************************************************************)
(* Theorems about Covers for any installation: any motors, labels, groups, *)
(* capabilities and corrections, and any commands and failing answers.     *)
(***************************************************************************)
EXTENDS Covers, FiniteSetTheorems, TLAPS

-----------------------------------------------------------------------------
(* Finite sets and sums.  The induction theorems of the library take a      *)
(* predicate as a parameter; these proofs take a minimal counterexample     *)
(* instead, from the theorem that the subsets of a finite set are well      *)
(* ordered by inclusion.                                                    *)

Minimal(x, T) == x \in T /\ \A y \in T : y \subseteq x => y = x

\* Among subsets of a finite set there are minimal ones.
LEMMA FiniteMin ==
  ASSUME NEW S, IsFiniteSet(S), NEW T \in SUBSET SUBSET S, T # {}
  PROVE  \E x : Minimal(x, T)
<1>1. IsWellFoundedOn(StrictSubsetOrdering(S), SUBSET S)
  BY FS_StrictSubsetOrderingWellFounded, FS_FiniteSubsetsOfFinite
<1>2. PICK x \in T : \A y \in T : ~(<<y, x>> \in StrictSubsetOrdering(S))
  BY <1>1, WFMin
<1> QED BY <1>2 DEF StrictSubsetOrdering, Minimal

\* Among naturals there is a least one.
LEMMA NatMin ==
  ASSUME NEW T \in SUBSET Nat, T # {}
  PROVE  \E m \in T : \A n \in T : m <= n
<1> PICK b \in T : TRUE
  OBVIOUS
<1> DEFINE Below == {1..k : k \in {j \in T : j <= b}}
<1>1. IsFiniteSet(1..b)
  BY FS_Interval
<1>2. Below \in SUBSET SUBSET (1..b) /\ Below # {}
  BY Z3
<1>3. PICK x : Minimal(x, Below)
  <2> HIDE DEF Below
  <2> QED BY <1>1, <1>2, FiniteMin
<1>4. PICK m \in T : x = 1..m /\ m <= b
  BY <1>3 DEF Minimal
<1>5. ASSUME NEW n \in T, ~(m <= n) PROVE FALSE
  <2>1. 1..n \in Below /\ 1..n \subseteq x
    BY <1>4, <1>5
  <2>2. 1..n = 1..m
    BY <1>3, <1>4, <2>1 DEF Minimal
  <2>3. m \in 1..m
    BY <1>5
  <2> QED BY <2>2, <2>3, <1>5
<1> QED BY <1>4, <1>5

\* The choice of an element by which the folds of the library go through a set,
\* and the equation that defines the sums of f over subsets.
Pick(s) == CHOOSE x \in s : TRUE

IsSum(g, f, S) ==
  g = [s \in S |-> IF s = {} THEN 0 ELSE f[Pick(s)] + g[s \ {Pick(s)}]]

SumOver(f, s) == (CHOOSE g : IsSum(g, f, SUBSET DOMAIN f))[s]

LEMMA SumUnfolds ==
  ASSUME NEW f
  PROVE  SumFunction(f) = SumOver(f, DOMAIN f)
BY DEF SumFunction, SumFunctionOnSet, FoldFunctionOnSet, MapThenFoldSet, IsSum,
       Pick, SumOver

\* That equation has a solution: by induction on the size of the subsets.
LEMMA SumExists ==
  ASSUME NEW f, IsFiniteSet(DOMAIN f)
  PROVE  \E g : IsSum(g, f, SUBSET DOMAIN f)
<1> DEFINE D == DOMAIN f
           Level(k) == {s \in SUBSET D : Cardinality(s) <= k}
           Bad == {k \in Nat : ~\E g : IsSum(g, f, Level(k))}
<1>1. ASSUME NEW s \in SUBSET D
      PROVE  /\ IsFiniteSet(s) /\ Cardinality(s) \in Nat
             /\ Cardinality(s) <= Cardinality(D)
             /\ Cardinality(s) = 0 <=> s = {}
             /\ s # {} => /\ Pick(s) \in s /\ s \ {Pick(s)} \in SUBSET D
                          /\ Cardinality(s \ {Pick(s)}) = Cardinality(s) - 1
  <2>1. IsFiniteSet(s) /\ Cardinality(s) \in Nat /\ Cardinality(s) <= Cardinality(D)
    BY FS_Subset, FS_CardinalityType
  <2>2. s # {} => Pick(s) \in s
    BY DEF Pick
  <2> QED BY <2>1, <2>2, FS_EmptySet, FS_RemoveElement
<1>2. Level(Cardinality(D)) = SUBSET D
  BY <1>1
<1>3. ASSUME NEW k \in Bad, \A n \in Bad : k <= n PROVE FALSE
  <2>1. CASE k = 0
    <3>1. IsSum([s \in Level(0) |-> 0], f, Level(0))
      BY <1>1 DEF IsSum
    <3> QED BY <2>1, <3>1
  <2>2. CASE k # 0
    <3>1. k \in Nat /\ k - 1 \in Nat /\ k - 1 \notin Bad
      <4>1. k \in Nat
        OBVIOUS
      <4> HIDE DEF Bad
      <4> QED BY <1>3, <2>2, <4>1
    <3>2. PICK h : IsSum(h, f, Level(k - 1))
      BY <3>1
    <3> DEFINE g == [s \in Level(k) |-> IF s = {} THEN 0
                                        ELSE f[Pick(s)] + h[s \ {Pick(s)}]]
    <3>3. ASSUME NEW s \in Level(k), s # {}
          PROVE  g[s \ {Pick(s)}] = h[s \ {Pick(s)}]
      <4>1. s \ {Pick(s)} \in Level(k - 1) /\ s \ {Pick(s)} \in Level(k)
        BY <1>1, <3>1, <3>3
      <4> QED BY <3>2, <4>1 DEF IsSum
    <3>4. g = [s \in Level(k) |-> IF s = {} THEN 0
                                  ELSE f[Pick(s)] + g[s \ {Pick(s)}]]
      BY <3>3
    <3>5. IsSum(g, f, Level(k))
      BY <3>4 DEF IsSum
    <3> QED BY <3>5
  <2> QED BY <2>1, <2>2
<1>4. Bad = {}
  <2> HIDE DEF Bad
  <2>1. Bad \in SUBSET Nat
    BY DEF Bad
  <2> QED BY <1>3, <2>1, NatMin
<1>5. Cardinality(D) \in Nat
  BY <1>1
<1> QED BY <1>2, <1>4, <1>5

\* A sum of values between lo and hi is between as many times lo and hi.
LEMMA SumBounds ==
  ASSUME NEW D, IsFiniteSet(D), NEW lo \in Nat, NEW hi \in Nat, NEW f \in [D -> lo..hi]
  PROVE  /\ SumFunction(f) \in Nat
         /\ lo * Cardinality(D) <= SumFunction(f)
         /\ SumFunction(f) <= hi * Cardinality(D)
<1>1. DOMAIN f = D
  OBVIOUS
<1> DEFINE g == CHOOSE h : IsSum(h, f, SUBSET DOMAIN f)
<1>2. SumFunction(f) = g[D]
  BY <1>1, SumUnfolds DEF SumOver
<1>5. IsSum(g, f, SUBSET D)
  BY <1>1, SumExists
<1> HIDE DEF g
<1>6. g = [s \in SUBSET D |-> IF s = {} THEN 0 ELSE f[Pick(s)] + g[s \ {Pick(s)}]]
  BY <1>5 DEF IsSum
<1> DEFINE Ok(s) == /\ g[s] \in Nat
                    /\ lo * Cardinality(s) <= g[s]
                    /\ g[s] <= hi * Cardinality(s)
           Bad == {s \in SUBSET D : ~Ok(s)}
<1>3. ASSUME NEW s, Minimal(s, Bad) PROVE FALSE
  <2>1. s \in SUBSET D /\ ~Ok(s)
    BY <1>3 DEF Minimal
  <2>2. CASE s = {}
    <3>1. g[s] = 0 /\ Cardinality(s) = 0
      BY <1>6, <2>1, <2>2, FS_EmptySet
    <3> QED BY <2>1, <3>1
  <2>3. CASE s # {}
    <3> DEFINE t == s \ {Pick(s)}
               x == f[Pick(s)]
               c == Cardinality(t)
    <3>1. Pick(s) \in s
      BY <2>3 DEF Pick
    <3>2. t \in SUBSET D /\ t # s /\ t \subseteq s
      BY <2>1, <3>1
    <3>3. Ok(t)
      BY <1>3, <3>2 DEF Minimal
    <3>4. x \in lo..hi
      BY <2>1, <3>1
    <3>5. g[s] = x + g[t]
      BY <1>6, <2>1, <2>3
    <3>6. c \in Nat /\ Cardinality(s) = c + 1
      <4>1. IsFiniteSet(s) /\ IsFiniteSet(t)
        BY <2>1, <3>2, FS_Subset
      <4>2. c \in Nat /\ Cardinality(s) \in Nat
        BY <4>1, FS_CardinalityType
      <4> QED BY <3>1, <4>1, <4>2, FS_RemoveElement
    <3> HIDE DEF t, x, c
    <3>7. lo * Cardinality(s) = lo * c + lo /\ hi * Cardinality(s) = hi * c + hi
          /\ lo * c \in Nat /\ hi * c \in Nat
      BY <3>6
    <3> QED BY <2>1, <3>3, <3>4, <3>5, <3>7 DEF c
  <2> QED BY <2>2, <2>3
<1>4. Bad = {}
  <2> HIDE DEF Bad
  <2>1. Bad \in SUBSET SUBSET D
    BY DEF Bad
  <2> QED BY <1>3, <2>1, FiniteMin
<1>7. Ok(D)
  BY <1>4
<1> QED BY <1>2, <1>7

\* The rounded average of values between lo and hi is between these too.
LEMMA RoundedBetween ==
  ASSUME NEW sum \in Nat, NEW count \in Nat \ {0}, NEW lo \in Nat, NEW hi \in Nat,
         lo * count <= sum, sum <= hi * count
  PROVE  Rounded(sum, count) \in lo..hi
<1> DEFINE q == sum \div count
           r == sum % count
<1>1. q \in Nat /\ r \in 0..count - 1 /\ sum = q * count + r
  <2>1. r \in 0..count - 1
    OBVIOUS
  <2>2. q \in Int
    OBVIOUS
  <2>3. sum = count * q + r
    OBVIOUS
  <2>4. q >= 0
    OBVIOUS
  <2> QED BY <2>1, <2>2, <2>3, <2>4
<1>2. Rounded(sum, count) = q \/ (r > 0 /\ Rounded(sum, count) = q + 1)
  BY <1>1 DEF Rounded
<1> HIDE DEF q, r
<1>3. lo <= q
  <2>1. ~(q + 1 <= lo)
    <3>1. ASSUME q + 1 <= lo PROVE (q + 1) * count <= lo * count
      BY <1>1, <3>1
    <3>2. (q + 1) * count = q * count + count
      BY <1>1
    <3> QED BY <1>1, <3>1, <3>2
  <2> QED BY <1>1, <2>1
<1>4. q <= hi /\ (r > 0 => q + 1 <= hi)
  <2>1. ASSUME hi + 1 <= q PROVE FALSE
    <3>1. (hi + 1) * count <= q * count /\ (hi + 1) * count = hi * count + count
      BY <1>1, <2>1
    <3> QED BY <1>1, <3>1
  <2>2. ASSUME r > 0, hi <= q PROVE FALSE
    <3>1. hi * count <= q * count
      BY <1>1, <2>2
    <3> QED BY <1>1, <2>2, <3>1
  <2> QED BY <1>1, <2>1, <2>2
<1> QED BY <1>1, <1>2, <1>3, <1>4

USE CoversAssumption DEF CoversAssumption

-----------------------------------------------------------------------------
(* The installation, which never changes.                                  *)

Fixed == site \in Sites /\ groups = BuildGroups

LEMMA FixedInit == CoversInit => Fixed
BY DEF CoversInit, Fixed

LEMMA SiteUnchanged == [CoversNext]_coversVars => UNCHANGED <<site, groups>>
BY DEF CoversNext, ReadPosition, Move, Drop, Command, CommandEnds,
       UpdateListeners, coversVars

LEMMA FixedNext == Fixed /\ [CoversNext]_coversVars => Fixed'
<1> SUFFICES ASSUME Fixed, UNCHANGED <<site, groups>> PROVE Fixed'
  BY SiteUnchanged
<1>1. BuildGroups' = BuildGroups
  BY DEF BuildGroups, GroupsOf
<1> QED BY <1>1 DEF Fixed

LEMMA FixedAlways == CoversSpec => []Fixed
BY FixedInit, FixedNext, PTL DEF CoversSpec

LEMMA SiteFacts ==
  ASSUME Fixed
  PROVE  /\ site.found \subseteq Nodes /\ site.slides \subseteq Nodes
         /\ site.label \in [Nodes -> Labels]
         /\ site.lists \in [Nodes -> SUBSET GroupIds]
         /\ site.web \in BOOLEAN /\ site.commands \in Nat /\ site.failures \in Nat
BY DEF Fixed, SiteType

LEMMA UpperFacts ==
  ASSUME NEW g \in GroupIds
  PROVE  /\ Upper(g) \in GroupIds /\ Upper(g).upper = TRUE
         /\ Upper(g).formed = g.formed /\ Upper(g).index = g.index
         /\ g.formed \in BOOLEAN /\ g.index \in 0..255
BY DEF GroupIds, Upper

LEMMA SameGroup ==
  ASSUME NEW g \in GroupIds, NEW h \in GroupIds,
         g.formed = h.formed, g.index = h.index, g.upper = h.upper
  PROVE  g = h
BY DEF GroupIds

LEMMA AllGroup ==
  /\ ALL_GROUP_ID \in GroupIds /\ ALL_GROUP_ID.formed = TRUE
  /\ ALL_GROUP_ID.index = 1 /\ ALL_GROUP_ID.upper = TRUE
BY DEF ALL_GROUP_ID, GroupIds

\* Which groups there are, and of which motors.
LEMMA GroupFacts ==
  ASSUME Fixed
  PROVE  /\ \A g : g \in DOMAIN groups <=>
              \E n \in site.found : \E i \in site.lists[n] :
                 g = Upper(i) /\ g # ALL_GROUP_ID /\ IsGroup(g)
         /\ \A g \in DOMAIN groups :
              /\ groups[g] = {l \in site.found \X GroupIds :
                               /\ l[2] \in site.lists[l[1]]
                               /\ Upper(l[2]) = g /\ Upper(l[2]) # ALL_GROUP_ID}
              /\ Members(g) = {n \in site.found : \E h \in site.lists[n] :
                                Upper(h) = g /\ Upper(h) # ALL_GROUP_ID}
<1>1. /\ \A g : g \in DOMAIN groups <=>
           \E n \in site.found : \E i \in site.lists[n] :
              g = Upper(i) /\ g # ALL_GROUP_ID /\ IsGroup(g)
      /\ \A g \in DOMAIN groups :
           groups[g] = {l \in site.found \X GroupIds :
                          /\ l[2] \in site.lists[l[1]]
                          /\ Upper(l[2]) = g /\ Upper(l[2]) # ALL_GROUP_ID}
  BY DEF Fixed, BuildGroups, GroupsOf
<1>2. ASSUME NEW g \in DOMAIN groups
      PROVE  Members(g) = {n \in site.found : \E h \in site.lists[n] :
                             Upper(h) = g /\ Upper(h) # ALL_GROUP_ID}
  <2>1. ASSUME NEW n \in site.found, NEW h \in site.lists[n],
               Upper(h) = g, Upper(h) # ALL_GROUP_ID
        PROVE  n \in Members(g)
    <3>1. h \in GroupIds /\ <<n, h>>[1] = n /\ <<n, h>>[2] = h
      BY SiteFacts
    <3>2. <<n, h>> \in groups[g]
      BY <1>1, <2>1, <3>1
    <3> QED BY <3>1, <3>2 DEF Members
  <2>2. ASSUME NEW l \in groups[g]
        PROVE  /\ l[1] \in site.found /\ l[2] \in site.lists[l[1]]
               /\ Upper(l[2]) = g /\ Upper(l[2]) # ALL_GROUP_ID
    BY <1>1, <2>2
  <2>3. \A n \in Members(g) : \E l \in groups[g] : n = l[1]
    BY DEF Members
  <2> QED BY <2>1, <2>2, <2>3
<1> QED BY <1>1, <1>2

LEMMA GroupIsUpper ==
  ASSUME Fixed, NEW g \in DOMAIN groups
  PROVE  /\ g \in GroupIds /\ g.upper = TRUE /\ g.formed = TRUE
         /\ g.index # 0 /\ g # ALL_GROUP_ID /\ g.index # 1
<1> PICK n \in site.found : \E i \in site.lists[n] :
      g = Upper(i) /\ g # ALL_GROUP_ID /\ IsGroup(g)
  BY GroupFacts
<1> PICK i \in site.lists[n] : g = Upper(i) /\ g # ALL_GROUP_ID /\ IsGroup(g)
  OBVIOUS
<1>1. i \in GroupIds
  BY SiteFacts
<1>2. g \in GroupIds /\ g.upper = TRUE /\ g.formed \in BOOLEAN /\ g.index \in 0..255
  BY <1>1, UpperFacts
<1>3. g.formed = TRUE /\ g.index # 0
  BY <1>2 DEF IsGroup
<1>4. g.index # 1
  BY <1>2, <1>3, AllGroup, SameGroup
<1> QED BY <1>2, <1>3, <1>4

\* A motor that lists a group's address, in whatever spelling, is a member.
LEMMA ListedIsMember ==
  ASSUME Fixed, NEW h \in DOMAIN groups, NEW n \in site.found,
         NEW g \in site.lists[n], g.formed, g.index = h.index
  PROVE  n \in Members(h)
<1>1. g \in GroupIds
  BY SiteFacts
<1>2. /\ Upper(g) \in GroupIds /\ Upper(g).upper = TRUE
      /\ Upper(g).formed = TRUE /\ Upper(g).index = h.index
  BY <1>1, UpperFacts
<1>3. h \in GroupIds /\ h.upper = TRUE /\ h.formed = TRUE
  BY GroupIsUpper
<1>4. Upper(g) = h
  BY <1>2, <1>3, SameGroup
<1> QED BY <1>4, GroupFacts, GroupIsUpper

-----------------------------------------------------------------------------
(* Names and addresses.                                                    *)

\* No two motors are given the same display name because they share a label, or
\* have none (models.py, unique_slug_names).
THEOREM DisplayNamesAreDistinct == CoversSpec => []NamesAreDistinct
<1>1. Fixed => NamesAreDistinct
  <2> SUFFICES ASSUME Fixed, NEW m \in site.found, NEW n \in site.found,
                      m # n, DisplayName(m) = DisplayName(n)
               PROVE  Imitates(m, n) \/ Imitates(n, m)
    BY DEF NamesAreDistinct
  <2>1. /\ site.label[m] \in Seq(Texts \cup Nodes) /\ m \in Nodes
        /\ site.label[n] \in Seq(Texts \cup Nodes) /\ n \in Nodes
    BY SiteFacts DEF Labels
  <2>2. ASSUME NEW a \in Seq(Texts \cup Nodes), NEW b \in Nodes
        PROVE  /\ Append(a, b) # <<>> /\ Len(Append(a, b)) = Len(a) + 1
               /\ Append(a, b)[Len(Append(a, b))] = b
               /\ a # <<>> => Len(a) # 0
    BY <2>2
  <2>3. <<m>> # <<n>> /\ <<m>>[1] = m /\ <<n>>[1] = n /\ Len(<<m>>) = 1
        /\ Len(<<n>>) = 1 /\ <<m>> # <<>> /\ <<n>> # <<>>
    OBVIOUS
  <2>4. CASE site.label[m] = <<>>
    BY <2>1, <2>2, <2>3, <2>4, SMTT(30) DEF DisplayName, Imitates
  <2>5. CASE site.label[n] = <<>>
    BY <2>1, <2>2, <2>3, <2>5, SMTT(30) DEF DisplayName, Imitates
  <2>6. CASE site.label[m] # <<>> /\ site.label[n] # <<>>
    <3>1. CASE Shared(m) /\ Shared(n)
      <4>1. Append(site.label[m], m) = Append(site.label[n], n)
        BY <2>6, <3>1 DEF DisplayName
      <4> QED BY <2>1, <2>2, <4>1
    <3>2. CASE Shared(m) /\ ~Shared(n)
      <4>1. Append(site.label[m], m) = site.label[n]
        BY <2>6, <3>2 DEF DisplayName
      <4> QED BY <2>1, <2>2, <4>1 DEF Imitates
    <3>3. CASE ~Shared(m) /\ Shared(n)
      <4>1. site.label[m] = Append(site.label[n], n)
        BY <2>6, <3>3 DEF DisplayName
      <4> QED BY <2>1, <2>2, <4>1 DEF Imitates
    <3>4. CASE ~Shared(m) /\ ~Shared(n)
      <4>1. site.label[m] = site.label[n]
        BY <2>6, <3>4 DEF DisplayName
      <4> QED BY <3>4, <4>1 DEF Shared
    <3> QED BY <3>1, <3>2, <3>3, <3>4
  <2> QED BY <2>4, <2>5, <2>6
<1> QED BY <1>1, FixedAlways, PTL

\* Every group address that a motor lists has one cover, of exactly the motors
\* found that list it (coordinator.py, _build_groups).
THEOREM EveryGroupHasOneCover == CoversSpec => []OneCoverPerGroup
<1>1. Fixed => OneCoverPerGroup
  <2> SUFFICES ASSUME Fixed PROVE OneCoverPerGroup
    OBVIOUS
  <2> DEFINE listed == {g \in UNION {site.lists[n] : n \in site.found} : g.formed}
             users(i) == {n \in site.found : \E g \in site.lists[n] :
                                               g.formed /\ g.index = i}
             covers(i) == {g \in DOMAIN groups : g.index = i}
  <2>1. ASSUME NEW g \in listed, g.index \in {0, 1}
        PROVE  covers(g.index) = {}
    BY <2>1, GroupIsUpper
  <2>2. ASSUME NEW g \in listed, g.index \notin {0, 1}
        PROVE  \E h \in DOMAIN groups :
                 covers(g.index) = {h} /\ Members(h) = users(g.index)
    <3> PICK n \in site.found : g \in site.lists[n] /\ g.formed
      BY <2>2
    <3>1. g \in GroupIds
      BY SiteFacts
    <3>2. /\ Upper(g) \in GroupIds /\ Upper(g).formed /\ Upper(g).index = g.index
          /\ Upper(g).upper = TRUE /\ g.index \in 0..255
      BY <3>1, UpperFacts
    <3>3. Upper(g) # ALL_GROUP_ID /\ IsGroup(Upper(g))
      BY <2>2, <3>2, AllGroup DEF IsGroup
    <3>4. Upper(g) \in DOMAIN groups
      BY <3>3, GroupFacts
    <3>5. covers(g.index) = {Upper(g)}
      <4>1. ASSUME NEW h \in DOMAIN groups, h.index = g.index PROVE h = Upper(g)
        <5>1. h \in GroupIds /\ h.upper = TRUE /\ h.formed = TRUE
          BY GroupIsUpper
        <5>2. Upper(g).formed = TRUE
          BY <3>4, GroupIsUpper
        <5> QED BY <3>2, <4>1, <5>1, <5>2, SameGroup
      <4> QED BY <3>2, <3>4, <4>1
    <3>6. ASSUME NEW m \in site.found
          PROVE  m \in Members(Upper(g)) <=> m \in users(g.index)
      <4>1. ASSUME m \in Members(Upper(g)) PROVE m \in users(g.index)
        <5> PICK h \in site.lists[m] : Upper(h) = Upper(g)
          BY <3>4, <4>1, GroupFacts
        <5>1. h \in GroupIds
          BY SiteFacts
        <5>2. Upper(h).formed = h.formed /\ Upper(h).index = h.index
              /\ h.formed \in BOOLEAN
          BY <5>1, UpperFacts
        <5>3. h.formed /\ h.index = g.index
          <6>1. Upper(h).formed /\ Upper(h).index = g.index
            BY <3>2
          <6> QED BY <5>2, <6>1
        <5> QED BY <5>3
      <4>2. ASSUME m \in users(g.index) PROVE m \in Members(Upper(g))
        <5> PICK h \in site.lists[m] : h.formed /\ h.index = g.index
          BY <4>2
        <5> QED BY <3>2, <3>4, ListedIsMember
      <4> QED BY <4>1, <4>2
    <3>7. Members(Upper(g)) \subseteq site.found
      BY <3>4, GroupFacts
    <3>8. Members(Upper(g)) = users(g.index)
      BY <3>6, <3>7
    <3> QED BY <3>4, <3>5, <3>8
  <2>3. ASSUME NEW g \in DOMAIN groups
        PROVE  \E h \in listed : h.index = g.index
    <3> PICK n \in site.found : \E i \in site.lists[n] : g = Upper(i) /\ IsGroup(g)
      BY GroupFacts
    <3> PICK i \in site.lists[n] : g = Upper(i) /\ IsGroup(g)
      OBVIOUS
    <3>1. i \in GroupIds
      BY SiteFacts
    <3>2. i.formed /\ i.index = g.index
      BY <3>1, UpperFacts DEF IsGroup
    <3> QED BY <3>2
  <2> QED BY <2>1, <2>2, <2>3 DEF OneCoverPerGroup
<1> QED BY <1>1, FixedAlways, PTL

-----------------------------------------------------------------------------
(* What Home Assistant is shown.                                           *)

\* Told of the latest readings, an entity has written them; and what passed the
\* gate last is what is shown.
WritesInv ==
  /\ WritesAreNotLost
  /\ \A e \in Entities : last[e] \in {NotWritten, ha[e]}

LEMMA SnapshotUnchanged ==
  ASSUME UNCHANGED <<site, groups, known>>, NEW e
  PROVE  Snapshot(e)' = Snapshot(e)
BY DEF Snapshot, Position, MotorPosition, GroupPosition, Reporting, Sources,
       Closed, gateway_to_ha_position

LEMMA EntitiesUnchanged ==
  ASSUME UNCHANGED <<site, groups>> PROVE Entities' = Entities
BY DEF Entities

LEMMA SnapshotIsWritable == \A e : Snapshot(e) # NotWritten
<1> SUFFICES ASSUME NEW e, Snapshot(e) = NotWritten PROVE FALSE
  OBVIOUS
<1>1. Closed(Position(e)) = "not written"
  BY DEF Snapshot, NotWritten
<1>2. Closed(Position(e)) \in {"unknown", "closed", "open"}
  BY DEF Closed
<1> QED BY <1>1, <1>2

LEMMA WritesInvNext == WritesInv /\ [CoversNext]_coversVars => WritesInv'
<1> SUFFICES ASSUME WritesInv, [CoversNext]_coversVars PROVE WritesInv'
  OBVIOUS
<1>1. Entities' = Entities /\ UNCHANGED <<site, groups>>
  BY SiteUnchanged, EntitiesUnchanged
<1>2. ASSUME told' => told /\ known' = known, UNCHANGED <<ha, last>>
      PROVE  WritesInv'
  BY <1>1, <1>2, SnapshotUnchanged DEF WritesInv, WritesAreNotLost
<1>3. ASSUME UpdateListeners PROVE WritesInv'
  <2>1. UNCHANGED <<site, groups, known>>
    BY <1>3 DEF UpdateListeners
  <2>2. ASSUME NEW e \in Entities
        PROVE  ha'[e] = Snapshot(e) /\ last'[e] = Snapshot(e)
    <3>1. ha'[e] = Update(e) /\ last'[e] = Snapshot(e)
      BY <1>3 DEF UpdateListeners
    <3> QED BY <3>1, SnapshotIsWritable DEF Update, WritesInv
  <2> QED BY <1>1, <2>1, <2>2, SnapshotUnchanged DEF WritesInv, WritesAreNotLost
<1>4. ASSUME NEW n \in Nodes, ReadPosition(n) PROVE WritesInv'
  <2>1. told' = (told /\ known' = known) /\ UNCHANGED <<ha, last>>
    BY <1>4 DEF ReadPosition
  <2> QED BY <1>2, <2>1
<1> QED
  BY <1>2, <1>3, <1>4
     DEF CoversNext, Move, Drop, Command, CommandEnds, coversVars, entities

LEMMA WritesInvAlways == CoversSpec => []WritesInv
<1>1. CoversInit => WritesInv
  BY DEF CoversInit, WritesInv, WritesAreNotLost
<1> QED BY <1>1, WritesInvNext, PTL DEF CoversSpec

\* Once the entities have been told, each shows what is known, whatever the gate
\* has kept from Home Assistant (cover.py, _handle_coordinator_update).
THEOREM NoWriteIsLost == CoversSpec => []WritesAreNotLost
<1>1. WritesInv => WritesAreNotLost
  BY DEF WritesInv
<1> QED BY <1>1, WritesInvAlways, PTL

-----------------------------------------------------------------------------
(* What is read, and what a command does to a motor.                       *)

\* A motor goes where the last command obeyed sends it, and having come to rest
\* is as near as motors stop; a motor just read is where it was read.
Landing(n) ==
  /\ at[n] \in Positions /\ goal[n] \in Positions \cup {None}
  /\ wanted[n] \in Positions \cup {None}
  /\ known[n] \in Positions \cup {None}
  /\ goal[n] # None => wanted[n] = POSITION_MAX - goal[n]
  /\ goal[n] = None /\ wanted[n] # None =>
       /\ POSITION_MAX - at[n] <= wanted[n] + Slack
       /\ wanted[n] - Slack <= POSITION_MAX - at[n]
  /\ n \in read => goal[n] = None /\ known[n] = at[n] /\ n \in site.found

\* The variables that Landing speaks of element by element are functions.
LandInv ==
  /\ Fixed
  /\ at \in [Nodes -> Positions] /\ goal \in [Nodes -> Positions \cup {None}]
  /\ known \in [Nodes -> Positions \cup {None}] /\ read \subseteq site.found
  /\ \A n \in Nodes : Landing(n)

LEMMA PositionFacts ==
  /\ None \notin Positions /\ None \in Int /\ Positions \subseteq 0..100
  /\ 0..100 \subseteq Positions /\ POSITION_MIN = 0 /\ POSITION_MAX = 100
  /\ CLOSED_POSITION_THRESHOLD = 2
BY DEF None, Positions, POSITION_MIN, POSITION_MAX, CLOSED_POSITION_THRESHOLD

LEMMA BeyondFacts == Beyond \notin Positions /\ Beyond \in 0..255
BY DEF Beyond, Positions, POSITION_MIN, POSITION_MAX

\* int() gives back the position of which a number has tenths and a fraction.
LEMMA Truncates ==
  ASSUME NEW p \in 0..255
  PROVE  /\ Truncated(Number(p).val) = p /\ Truncated(Fraction(p).val) = p
         /\ Number(p).val \div 10 = p
         /\ Number(p).type = "number" /\ Fraction(p).type = "number"
<1>1. /\ 10 * p \in Int /\ 10 * p >= 0 /\ (10 * p) \div 10 = p
      /\ 10 * p + 5 >= 0 /\ (10 * p + 5) \div 10 = p
  OBVIOUS
<1> QED BY <1>1 DEF Truncated, Number, Fraction

\* Whatever the gateway answers, a read gives the motor's position or none.
LEMMA ReadGives ==
  ASSUME NEW n \in Nodes, at[n] \in Positions,
         NEW reply \in Failures(n) \cup Replies(n)
  PROVE  Parsed(n, reply) \in {None, at[n]}
<1>1. CASE OverTelnet(n)
  <2>1. \/ reply = Chatter \/ reply = Line(TRUE, Absent)
        \/ reply = Line(FALSE, Absent) \/ reply = Line(FALSE, False)
        \/ reply = Line(FALSE, Number(Beyond)) \/ reply = Line(FALSE, Number(at[n]))
        \/ reply = Line(FALSE, Fraction(at[n]))
    BY <1>1 DEF Failures, Replies
  <2>2. Parsed(n, reply) = TelnetPosition(reply)
    BY <1>1 DEF Parsed
  <2>3. /\ ParsePosition(Absent) = None /\ ParsePosition(False) = None
        /\ ParsePosition(Number(Beyond)) = None
        /\ ParsePosition(Number(at[n])) = at[n] /\ ParsePosition(Fraction(at[n])) = at[n]
    <3>1. at[n] \in 0..255
      <4>1. at[n] \in 0..100
        BY PositionFacts
      <4> QED BY <4>1
    <3>2. /\ Truncated(Number(at[n]).val) = at[n] /\ Number(at[n]).type = "number"
          /\ Truncated(Fraction(at[n]).val) = at[n] /\ Fraction(at[n]).type = "number"
      BY ONLY <3>1, Truncates
    <3>4. Truncated(Number(Beyond).val) = Beyond /\ Number(Beyond).type = "number"
      <4>1. Beyond \in 0..255
        BY BeyondFacts
      <4> QED BY ONLY <4>1, Truncates
    <3>3. Absent.type # "number" /\ False.type # "number"
      BY DEF Absent, False
    <3> QED BY <3>2, <3>3, <3>4, BeyondFacts DEF ParsePosition, InRange
  <2>4. /\ TelnetPosition(Line(TRUE, Absent)) = None
        /\ TelnetPosition(Line(FALSE, Absent)) = ParsePosition(Absent)
        /\ TelnetPosition(Line(FALSE, False)) = ParsePosition(False)
        /\ TelnetPosition(Line(FALSE, Number(Beyond))) = ParsePosition(Number(Beyond))
        /\ TelnetPosition(Line(FALSE, Number(at[n]))) = ParsePosition(Number(at[n]))
        /\ TelnetPosition(Line(FALSE, Fraction(at[n]))) = ParsePosition(Fraction(at[n]))
    BY DEF Line, TelnetPosition, ParseResponse
  <2>5. TelnetPosition(Chatter) = None
    <3>1. ~Chatter.json
      BY DEF Chatter
    <3> QED BY <3>1 DEF TelnetPosition
  <2>6. CASE reply = Chatter
    BY ONLY <2>2, <2>5, <2>6
  <2>7. CASE reply = Line(TRUE, Absent)
    BY ONLY <2>2, <2>4, <2>7
  <2>8. CASE reply = Line(FALSE, Absent)
    BY ONLY <2>2, <2>3, <2>4, <2>8
  <2>9. CASE reply = Line(FALSE, False)
    BY ONLY <2>2, <2>3, <2>4, <2>9
  <2>10. CASE reply = Line(FALSE, Number(Beyond))
    BY ONLY <2>2, <2>3, <2>4, <2>10
  <2>11. CASE reply = Line(FALSE, Number(at[n]))
    BY ONLY <2>2, <2>3, <2>4, <2>11
  <2>12. CASE reply = Line(FALSE, Fraction(at[n]))
    BY ONLY <2>2, <2>3, <2>4, <2>12
  <2> QED BY <2>1, <2>6, <2>7, <2>8, <2>9, <2>10, <2>11, <2>12
<1>2. CASE ~OverTelnet(n)
  <2>1. \/ reply = Absent \/ reply = Number(Beyond) \/ reply = Number(at[n])
    BY <1>2 DEF Failures, Replies
  <2>2. Parsed(n, reply) = ParseWebPosition(reply)
    BY <1>2 DEF Parsed
  <2>3. /\ Number(Beyond).val \div 10 = Beyond /\ Number(Beyond).type = "number"
        /\ Number(at[n]).val \div 10 = at[n] /\ Number(at[n]).type = "number"
    <3>1. at[n] \in 0..255
      <4>1. at[n] \in 0..100
        BY PositionFacts
      <4> QED BY <4>1
    <3>2. Number(at[n]).val \div 10 = at[n] /\ Number(at[n]).type = "number"
      BY ONLY <3>1, Truncates
    <3>3. Beyond \in 0..255
      BY BeyondFacts
    <3>4. Number(Beyond).val \div 10 = Beyond /\ Number(Beyond).type = "number"
      BY ONLY <3>3, Truncates
    <3> QED BY ONLY <3>2, <3>4
  <2>4. Absent.type # "number"
    BY DEF Absent
  <2> QED BY <2>1, <2>2, <2>3, <2>4, BeyondFacts DEF ParseWebPosition, InRange
<1> QED BY <1>1, <1>2

\* What a reading stores.
LEMMA ReadStores ==
  ASSUME LandInv, NEW n \in Nodes, ReadPosition(n)
  PROVE  /\ \/ UNCHANGED <<known, read>>
            \/ \E p \in {None, at[n]} :
                 /\ known' = [known EXCEPT ![n] = p]
                 /\ read' \subseteq read \cup {n}
                 /\ n \in read' => p = at[n] /\ goal[n] = None
         /\ n \in site.found /\ UNCHANGED <<site, groups, motors>>
<1> PICK reply \in Failures(n) \cup Replies(n) :
      LET p == Parsed(n, reply)
          kept == p = None /\ ~OverTelnet(n)
      IN /\ known' = IF kept THEN known ELSE [known EXCEPT ![n] = p]
         /\ read' = IF kept THEN read
                    ELSE IF p # None /\ goal[n] = None THEN read \cup {n}
                    ELSE read \ {n}
  BY DEF ReadPosition
<1>1. Parsed(n, reply) \in {None, at[n]}
  BY ReadGives DEF LandInv, Landing
<1>2. n \in site.found /\ UNCHANGED <<site, groups, motors>>
  BY DEF ReadPosition, Readable
<1> QED BY <1>1, <1>2

\* The position stored of a motor is where it is, or none: no answer is ever
\* taken for a position that it is not (models.py, parse_position).
LEMMA NeverInventedStep ==
  ASSUME LandInv, [CoversNext]_coversVars, NEW n \in Nodes
  PROVE  known'[n] \in {known[n], None, at[n]}
<1>1. ASSUME NEW m \in Nodes, ReadPosition(m)
      PROVE  known'[n] \in {known[n], None, at[n]}
  BY <1>1, ReadStores DEF LandInv
<1>2. CASE UNCHANGED known
  BY <1>2
<1> QED
  BY <1>1, <1>2
     DEF CoversNext, Move, Drop, Command, CommandEnds, UpdateListeners, coversVars

\* What a command asks of the motors it reaches.
LEMMA RequestLands ==
  ASSUME NEW e, NEW method \in Methods(e),
         NEW p \in IF method = "to" THEN Chosen ELSE {None}
  PROVE  LET g == GoalOf(Request(e, method, p))
             w == WishOf(method, p)
         IN \/ method = "stop" /\ g = None /\ w = None
            \/ /\ method # "stop" /\ g \in Positions /\ w \in Positions
               /\ w = POSITION_MAX - g
<1>1. method \in {"up", "down", "stop", "to"}
  BY DEF Methods
<1>2. CASE method = "to"
  <2>1. p \in 0..100 /\ POSITION_MAX - p \in 0..100
    BY <1>2, PositionFacts
  <2>2. Clamp(POSITION_MAX - p) = POSITION_MAX - p
    BY <2>1, PositionFacts DEF Clamp
  <2>3. GoalOf(Request(e, method, p)) = POSITION_MAX - p /\ WishOf(method, p) = p
    BY <1>2, <2>2 DEF GoalOf, Request, WishOf, ha_to_gateway_position
  <2> QED BY <1>2, <2>1, <2>3, PositionFacts
<1>3. CASE method = "up"
  <2>1. GoalOf(Request(e, method, p)) = 0 /\ WishOf(method, p) = 100
    BY <1>3, PositionFacts DEF GoalOf, Request, WishOf
  <2> QED BY <1>3, <2>1, PositionFacts
<1>4. CASE method = "down"
  <2>1. GoalOf(Request(e, method, p)) = 100 /\ WishOf(method, p) = 0
    BY <1>4, PositionFacts DEF GoalOf, Request, WishOf
  <2> QED BY <1>4, <2>1, PositionFacts
<1>5. CASE method = "stop"
  BY <1>5 DEF GoalOf, Request, WishOf
<1> QED BY <1>1, <1>2, <1>3, <1>4, <1>5

LEMMA ObeyLands ==
  ASSUME LandInv, NEW e, NEW method \in Methods(e),
         NEW p \in IF method = "to" THEN Chosen ELSE {None},
         Obey(Request(e, method, p), WishOf(method, p)),
         UNCHANGED <<site, groups, known>>
  PROVE  LandInv'
<1> DEFINE r == Request(e, method, p)
           g == GoalOf(r)
           w == WishOf(method, p)
<1>1. \/ method = "stop" /\ g = None /\ w = None
      \/ /\ method # "stop" /\ g \in Positions /\ w \in Positions
         /\ w = POSITION_MAX - g
  BY RequestLands
<1>2. r.method = method
  BY DEF Request
<1>3. /\ goal' = [n \in Nodes |-> IF n \in Addressed(r) THEN g ELSE goal[n]]
      /\ at' = [n \in Nodes |-> IF n \in Addressed(r) /\ r.method = "stop"
                                   /\ goal[n] # None THEN Stop ELSE at[n]]
      /\ wanted' = [n \in Nodes |-> IF n \in Addressed(r) THEN w ELSE wanted[n]]
      /\ read' = read \ Addressed(r)
  BY DEF Obey
<1> HIDE DEF r, g, w
<1>4. ASSUME NEW n \in Nodes PROVE Landing(n)'
  <2>1. Landing(n)
    BY DEF LandInv
  <2>2. CASE n \in Addressed(r)
    <3>1. n \notin read' /\ goal'[n] = g /\ wanted'[n] = w /\ at'[n] \in Positions
          /\ known'[n] = known[n]
      BY <1>3, <2>1, <2>2 DEF Landing
    <3> QED BY <1>1, <2>1, <3>1, PositionFacts DEF Landing
  <2>3. CASE n \notin Addressed(r)
    <3>1. /\ goal'[n] = goal[n] /\ wanted'[n] = wanted[n] /\ at'[n] = at[n]
          /\ known'[n] = known[n] /\ (n \in read' => n \in read)
      BY <1>3, <2>3
    <3> QED BY <2>1, <3>1 DEF Landing
  <2> QED BY <2>2, <2>3
<1>5. /\ at' \in [Nodes -> Positions] /\ goal' \in [Nodes -> Positions \cup {None}]
      /\ known' \in [Nodes -> Positions \cup {None}]
  BY <1>1, <1>3 DEF LandInv
<1>6. Fixed'
  BY DEF LandInv, Fixed, BuildGroups, GroupsOf
<1>7. read' \subseteq site'.found
  BY <1>3 DEF LandInv
<1> QED BY <1>4, <1>5, <1>6, <1>7 DEF LandInv

LEMMA MoveLands ==
  ASSUME LandInv, NEW m \in Nodes, Move(m)
  PROVE  LandInv'
<1>1. /\ goal[m] # None
      /\ UNCHANGED <<site, groups, wanted, known, read>>
      /\ \/ at' = [at EXCEPT ![m] = Stop] /\ UNCHANGED goal
         \/ /\ \E p \in {goal[m] - Slack, goal[m], goal[m] + Slack} \cap Positions :
                  at' = [at EXCEPT ![m] = p]
            /\ goal' = [goal EXCEPT ![m] = None]
  BY DEF Move
<1>2. Landing(m) /\ goal[m] \in Positions /\ m \notin read
  BY <1>1 DEF LandInv, Landing
<1>3. Landing(m)' /\ at'[m] \in Positions
  <2>1. CASE at' = [at EXCEPT ![m] = Stop] /\ UNCHANGED goal
    BY <1>1, <1>2, <2>1 DEF LandInv, Landing
  <2>2. CASE \E p \in {goal[m] - Slack, goal[m], goal[m] + Slack} \cap Positions :
               at' = [at EXCEPT ![m] = p] /\ goal' = [goal EXCEPT ![m] = None]
    <3> PICK p \in {goal[m] - Slack, goal[m], goal[m] + Slack} \cap Positions :
          at' = [at EXCEPT ![m] = p] /\ goal' = [goal EXCEPT ![m] = None]
      BY <2>2
    <3>1. /\ at'[m] = p /\ goal'[m] = None /\ wanted'[m] = POSITION_MAX - goal[m]
          /\ known'[m] = known[m] /\ m \notin read'
      BY <1>1, <1>2, PositionFacts DEF LandInv, Landing
    <3>2. /\ POSITION_MAX - p <= wanted'[m] + Slack
          /\ wanted'[m] - Slack <= POSITION_MAX - p
      <4>1. goal[m] \in 0..100 /\ Slack \in 0..2 /\ p \in 0..100
        BY <1>2, PositionFacts
      <4>2. p = goal[m] - Slack \/ p = goal[m] \/ p = goal[m] + Slack
        OBVIOUS
      <4> QED BY <3>1, <4>1, <4>2, PositionFacts
    <3> QED BY <1>1, <1>2, <3>1, <3>2, PositionFacts DEF Landing
  <2> QED BY <1>1, <2>1, <2>2
<1>4. ASSUME NEW n \in Nodes \ {m} PROVE Landing(n)'
  <2>1. at'[n] = at[n] /\ goal'[n] = goal[n] /\ Landing(n)
    BY <1>1 DEF LandInv
  <2> QED BY <1>1, <2>1 DEF Landing
<1>5. /\ at' \in [Nodes -> Positions] /\ goal' \in [Nodes -> Positions \cup {None}]
  BY <1>1, <1>3 DEF LandInv
<1>6. Fixed'
  BY <1>1 DEF LandInv, Fixed, BuildGroups, GroupsOf
<1> QED BY <1>1, <1>3, <1>4, <1>5, <1>6 DEF LandInv

LEMMA LandInvInit == CoversInit => LandInv
<1> SUFFICES ASSUME CoversInit PROVE LandInv
  OBVIOUS
<1>1. /\ at = [n \in Nodes |-> POSITION_MIN] /\ goal = [n \in Nodes |-> None]
      /\ wanted = [n \in Nodes |-> None] /\ read = {}
  BY DEF CoversInit
<1>2. at \in [Nodes -> Positions] /\ goal \in [Nodes -> Positions \cup {None}]
  BY <1>1, PositionFacts
<1>3. known \in [Nodes -> Positions \cup {None}]
  BY <1>2 DEF CoversInit
<1>4. ASSUME NEW n \in Nodes PROVE Landing(n)
  BY <1>1, <1>2, <1>3 DEF Landing
<1> QED BY <1>1, <1>2, <1>3, <1>4, FixedInit DEF LandInv

LEMMA LandInvNext == LandInv /\ [CoversNext]_coversVars => LandInv'
<1> SUFFICES ASSUME LandInv, [CoversNext]_coversVars PROVE LandInv'
  OBVIOUS
<1>1. Fixed' /\ UNCHANGED <<site, groups>>
  BY FixedNext, SiteUnchanged DEF LandInv
<1>2. CASE UNCHANGED <<motors, known, read>>
  BY <1>1, <1>2 DEF motors, LandInv, Landing
<1>3. ASSUME NEW n \in Nodes, ReadPosition(n) PROVE LandInv'
  <2>1. CASE UNCHANGED <<known, read>>
    BY <1>1, <1>3, <2>1 DEF ReadPosition, motors, LandInv, Landing
  <2>2. CASE \E p \in {None, at[n]} :
               /\ known' = [known EXCEPT ![n] = p]
               /\ read' \subseteq read \cup {n}
               /\ n \in read' => p = at[n] /\ goal[n] = None
    <3> PICK p \in {None, at[n]} :
               /\ known' = [known EXCEPT ![n] = p]
               /\ read' \subseteq read \cup {n}
               /\ n \in read' => p = at[n] /\ goal[n] = None
      BY <2>2
    <3>1. UNCHANGED <<at, goal, wanted>> /\ n \in site.found /\ site' = site
      BY <1>3, ReadStores DEF motors
    <3>2. ASSUME NEW m \in Nodes PROVE Landing(m)'
      BY <3>1, <3>2 DEF LandInv, Landing
    <3>3. known' \in [Nodes -> Positions \cup {None}]
      BY DEF LandInv
    <3>4. read' \subseteq site'.found
      BY <3>1 DEF LandInv
    <3> QED BY <1>1, <3>1, <3>2, <3>3, <3>4 DEF LandInv
  <2> QED BY <1>3, <2>1, <2>2, ReadStores
<1>4. ASSUME NEW n \in Nodes, Move(n) PROVE LandInv'
  BY <1>4, MoveLands
<1>5. ASSUME NEW e \in Entities, Command(e) PROVE LandInv'
  <2> PICK method \in Methods(e) : \E p \in IF method = "to" THEN Chosen ELSE {None} :
        \/ Obey(Request(e, method, p), WishOf(method, p))
        \/ UNCHANGED <<motors, read>>
    BY <1>5 DEF Command
  <2> PICK p \in IF method = "to" THEN Chosen ELSE {None} :
        \/ Obey(Request(e, method, p), WishOf(method, p))
        \/ UNCHANGED <<motors, read>>
    OBVIOUS
  <2>1. known' = known
    BY <1>5 DEF Command
  <2> QED BY <1>1, <1>2, <2>1, ObeyLands
<1> QED
  BY <1>2, <1>3, <1>4, <1>5
     DEF CoversNext, Drop, CommandEnds, UpdateListeners, coversVars, motors

LEMMA LandInvAlways == CoversSpec => []LandInv
BY LandInvInit, LandInvNext, PTL DEF CoversSpec

\* The position stored of a motor was its own when it was read, or there is none:
\* `false`, an error, silence and a number out of range never become one.
THEOREM PositionsAreNeverInvented == CoversSpec => NeverInvented
<1>1. LandInv /\ [CoversNext]_coversVars =>
        [\A n \in Nodes : known'[n] \in {known[n], None, at[n]}]_coversVars
  BY NeverInventedStep
<1> QED BY <1>1, LandInvAlways, PTL DEF CoversSpec, NeverInvented

\* A motor that has come to rest and been read is shown where its owner asked
\* for last, alone or with its group, as near as motors stop (const.py).
THEOREM CommandsDoLand == CoversSpec => []CommandsLand
<1>1. LandInv /\ WritesInv => CommandsLand
  <2> SUFFICES ASSUME LandInv, WritesInv, told, NEW n \in read, wanted[n] # None
               PROVE  /\ wanted[n] - Slack <= ha[n].position
                      /\ ha[n].position <= wanted[n] + Slack
                      /\ wanted[n] = 0 => ha[n].closed = "closed"
                      /\ wanted[n] = 100 => ha[n].closed = "open"
    BY DEF CommandsLand
  <2>1. n \in site.found /\ n \in Nodes /\ Landing(n)
    BY SiteFacts DEF LandInv
  <2>2. ha[n] = Snapshot(n)
    BY <2>1 DEF WritesInv, WritesAreNotLost, Entities
  <2>3. /\ ha[n].position = MotorPosition(n)
        /\ ha[n].closed = Closed(MotorPosition(n))
    BY <2>1, <2>2 DEF Snapshot, Position
  <2>4. /\ goal[n] = None /\ known[n] = at[n] /\ at[n] \in 0..100
        /\ Slack \in 0..2 /\ wanted[n] \in 0..100
        /\ POSITION_MAX - at[n] <= wanted[n] + Slack
        /\ wanted[n] - Slack <= POSITION_MAX - at[n]
    BY <2>1, PositionFacts DEF Landing
  <2>5. MotorPosition(n) = 100 - at[n] /\ 100 - at[n] # None
    BY <2>4, PositionFacts DEF MotorPosition, gateway_to_ha_position, None
  <2> QED BY <2>3, <2>4, <2>5, PositionFacts DEF Closed
<1> QED BY <1>1, LandInvAlways, WritesInvAlways, PTL

-----------------------------------------------------------------------------
(* What a group shows.                                                     *)

LEMMA SourcesAreFound ==
  ASSUME Fixed, NEW e \in Entities
  PROVE  Sources(e) \subseteq site.found /\ site.found \subseteq Nodes
<1>1. e \in DOMAIN groups => Members(e) \subseteq site.found
  BY GroupFacts
<1> QED BY <1>1, SiteFacts DEF Sources, Entities

\* A group's sources are its members: its id is no node's.
LEMMA GroupSources ==
  ASSUME Fixed, NEW g \in DOMAIN groups
  PROVE  g \in Entities /\ g \notin site.found /\ Sources(g) = Members(g)
<1>1. g \in GroupIds
  BY GroupIsUpper
<1> QED BY <1>1, SiteFacts DEF Entities, Sources

LEMMA MotorPositions ==
  ASSUME LandInv, NEW n \in Nodes
  PROVE  /\ MotorPosition(n) \in (0..100) \cup {None}
         /\ (MotorPosition(n) = None) <=> (known[n] = None)
<1>1. known[n] \in (0..100) \cup {None}
  BY PositionFacts DEF LandInv
<1> QED BY <1>1, PositionFacts DEF MotorPosition, gateway_to_ha_position, None

LEMMA IntervalFinite == ASSUME NEW n \in Nat PROVE IsFiniteSet(0..n)
<1>1. 0 \in Int /\ n \in Int
  OBVIOUS
<1> QED BY ONLY <1>1, FS_Interval

\* There are finitely many group ids.
LEMMA GroupIdsFinite == IsFiniteSet(GroupIds)
<1> DEFINE S == (BOOLEAN \X (0..255)) \X BOOLEAN
           f == [x \in S |-> [formed |-> x[1][1], index |-> x[1][2], upper |-> x[2]]]
<1>1. IsFiniteSet(S)
  <2>1. IsFiniteSet({TRUE, FALSE}) /\ BOOLEAN = {TRUE, FALSE}
    <3>1. IsFiniteSet({TRUE}) /\ {TRUE} \cup {FALSE} = {TRUE, FALSE}
      BY FS_Singleton
    <3>2. IsFiniteSet({TRUE} \cup {FALSE})
      BY <3>1, FS_AddElement
    <3> QED BY <3>1, <3>2
  <2>2. IsFiniteSet(BOOLEAN) /\ IsFiniteSet(0..255)
    <3>1. IsFiniteSet(0..255)
      <4>1. 255 \in Nat
        OBVIOUS
      <4> QED BY ONLY <4>1, IntervalFinite
    <3>2. IsFiniteSet(BOOLEAN)
      BY ONLY <2>1, Zenon
    <3> QED BY <3>1, <3>2
  <2>3. IsFiniteSet(BOOLEAN \X (0..255))
    BY <2>2, FS_Product
  <2> QED BY <2>2, <2>3, FS_Product
<1>2. f \in Surjection(S, GroupIds)
  <2>1. f \in [S -> GroupIds]
    BY DEF GroupIds
  <2>2. ASSUME NEW g \in GroupIds PROVE \E x \in S : f[x] = g
    <3>1. <<<<g.formed, g.index>>, g.upper>> \in S
      BY DEF GroupIds
    <3>2. f[<<<<g.formed, g.index>>, g.upper>>] = g
      BY <3>1 DEF GroupIds
    <3> QED BY <3>1, <3>2
  <2> QED BY <2>1, <2>2 DEF Surjection
<1> HIDE DEF S, f
<1> QED BY <1>1, <1>2, FS_Surjection

\* A group's position is none, without a member that reports one, or as high as
\* any bounds of theirs, however often each of them lists the group.
LEMMA GroupPositionBetween ==
  ASSUME LandInv, NEW g \in DOMAIN groups, Reporting(g) # {},
         NEW lo \in Nat, NEW hi \in Nat,
         \A l \in Reporting(g) : MotorPosition(l[1]) \in lo..hi
  PROVE  GroupPosition(g) \in lo..hi
<1> DEFINE R == Reporting(g)
           f == [l \in R |-> MotorPosition(l[1])]
<1>1. IsFiniteSet(R) /\ Cardinality(R) \in Nat \ {0}
  <2>1. R \in SUBSET (Nodes \X GroupIds)
    BY GroupFacts, SiteFacts DEF LandInv, Reporting
  <2>2. IsFiniteSet(Nodes \X GroupIds)
    BY GroupIdsFinite, FS_Product
  <2> HIDE DEF R
  <2>3. IsFiniteSet(R) /\ Cardinality(R) \in Nat
    BY <2>1, <2>2, FS_Subset, FS_CardinalityType
  <2> QED BY <2>3, FS_EmptySet DEF R
<1>2. f \in [R -> lo..hi]
  OBVIOUS
<1>3. GroupPosition(g) = Rounded(SumFunction(f), Cardinality(R))
  BY DEF GroupPosition
<1> HIDE DEF R, f
<1>4. /\ SumFunction(f) \in Nat /\ lo * Cardinality(R) <= SumFunction(f)
      /\ SumFunction(f) <= hi * Cardinality(R)
  BY <1>1, <1>2, SumBounds
<1> QED BY <1>1, <1>3, <1>4, RoundedBetween

\* Those of a group's members that report a position, once or twice.
LEMMA ReportingMembers ==
  ASSUME NEW g
  PROVE  /\ \A l \in Reporting(g) : l[1] \in Members(g) /\ known[l[1]] # None
         /\ \A n \in Members(g) :
              known[n] # None => \E l \in Reporting(g) : l[1] = n
BY DEF Reporting, Members

\* What an entity would write is a position and how it is shown.
LEMMA SnapshotIsState ==
  ASSUME LandInv, NEW e \in Entities
  PROVE  /\ Position(e) \in (0..100) \cup {None}
         /\ Snapshot(e) = [position |-> Position(e), closed |-> Closed(Position(e))]
         /\ Snapshot(e) \in States
<1>1. Position(e) \in (0..100) \cup {None}
  <2>1. CASE e \in site.found
    BY <2>1, MotorPositions, SiteFacts DEF Position, LandInv
  <2>2. CASE e \notin site.found /\ Reporting(e) = {}
    BY <2>2 DEF Position, GroupPosition
  <2>3. CASE e \notin site.found /\ Reporting(e) # {}
    <3>0. e \in DOMAIN groups
      BY <2>3 DEF Entities
    <3>1. ASSUME NEW l \in Reporting(e) PROVE MotorPosition(l[1]) \in 0..100
      <4>1. l[1] \in Nodes /\ known[l[1]] # None
        BY <2>3, ReportingMembers, SourcesAreFound DEF LandInv, Sources
      <4> QED BY <4>1, MotorPositions
    <3>2. GroupPosition(e) \in 0..100
      BY <2>3, <3>0, <3>1, GroupPositionBetween
    <3> QED BY <2>3, <3>2 DEF Position
  <2> QED BY <2>1, <2>2, <2>3
<1>2. Closed(Position(e)) \in {"unknown", "open", "closed"}
  BY DEF Closed
<1> QED BY <1>1, <1>2, PositionFacts DEF Snapshot, States, MaybePosition

\* A set of positions has a lowest and a highest one.
LEMMA Extremes ==
  ASSUME NEW S \in SUBSET (0..100), S # {}
  PROVE  \E p, q \in S : S \subseteq p..q
<1> PICK p \in S : \A r \in S : p <= r
  BY NatMin
<1> DEFINE T == {100 - r : r \in S}
<1>1. T \in SUBSET Nat /\ T # {}
  OBVIOUS
<1>2. PICK m \in T : \A r \in T : m <= r
  <2> HIDE DEF T
  <2> QED BY <1>1, NatMin
<1>3. PICK q \in S : m = 100 - q
  BY <1>2
<1>4. ASSUME NEW r \in S PROVE r \in p..q
  <2>1. m <= 100 - r
    BY <1>2
  <2> QED BY <1>3, <2>1
<1> QED BY <1>4

\* A group shows nothing if no member reports a position, and otherwise a
\* position between theirs; and it is shown closed, or open, where all of them
\* are (cover.py, current_cover_position of a group).
THEOREM GroupsSpeakForMembers == CoversSpec => []GroupShowsMembers
<1>1. LandInv /\ WritesInv => GroupShowsMembers
  <2> SUFFICES ASSUME LandInv, WritesInv, told, NEW g \in DOMAIN groups
               PROVE  LET shown == {ha[n].position : n \in Members(g)} \ {None}
                      IN /\ (ha[g].position = None) <=> (shown = {})
                         /\ shown # {} => \E p, q \in shown :
                                            p <= ha[g].position /\ ha[g].position <= q
                         /\ \A s \in {"closed", "open"} :
                              shown # {} /\ (\A n \in Members(g) :
                                               ha[n].closed \in {s, "unknown"})
                                => ha[g].closed = s
    BY DEF GroupShowsMembers
  <2> DEFINE shown == {ha[n].position : n \in Members(g)} \ {None}
  <2>1. g \in Entities /\ g \notin site.found /\ Sources(g) = Members(g) /\ Fixed
    BY GroupSources DEF LandInv
  <2>2. /\ ha[g].position = GroupPosition(g)
        /\ ha[g].closed = Closed(GroupPosition(g))
    <3>1. ha[g] = Snapshot(g)
      BY <2>1 DEF WritesInv, WritesAreNotLost
    <3>2. Position(g) = GroupPosition(g)
      BY <2>1 DEF Position
    <3> QED BY <3>1, <3>2 DEF Snapshot
  <2>3. ASSUME NEW n \in Members(g)
        PROVE  /\ n \in Nodes /\ ha[n].position = MotorPosition(n)
               /\ ha[n].closed = Closed(MotorPosition(n))
    <3>1. n \in site.found /\ n \in Nodes /\ n \in Entities
      BY <2>1, SourcesAreFound DEF Entities
    <3>2. ha[n] = Snapshot(n)
      BY <3>1 DEF WritesInv, WritesAreNotLost
    <3>3. Position(n) = MotorPosition(n)
      BY <3>1 DEF Position
    <3> QED BY <3>1, <3>2, <3>3 DEF Snapshot
  <2>4. shown = {MotorPosition(l[1]) : l \in Reporting(g)} /\ shown \subseteq 0..100
    <3>1. \A n \in Members(g) : /\ ha[n].position \in (0..100) \cup {None}
                               /\ (ha[n].position = None) <=> (known[n] = None)
      BY <2>3, MotorPositions
    <3>2. shown \subseteq 0..100
      <4>1. ASSUME NEW r \in shown PROVE r \in 0..100
        <5>1. PICK n \in Members(g) : r = ha[n].position /\ r # None
          OBVIOUS
        <5>2. ha[n].position = MotorPosition(n) /\ n \in Nodes
          BY <2>3
        <5>3. MotorPosition(n) \in (0..100) \cup {None}
          BY <5>2, MotorPositions
        <5> QED BY <5>1, <5>2, <5>3
      <4> QED BY <4>1
    <3>3. ASSUME NEW l \in Reporting(g) PROVE MotorPosition(l[1]) \in shown
      BY <2>3, <3>1, <3>3, ReportingMembers
    <3>4. ASSUME NEW n \in Members(g), ha[n].position # None
          PROVE  \E l \in Reporting(g) : ha[n].position = MotorPosition(l[1])
      BY <2>3, <3>1, <3>4, ReportingMembers
    <3> QED BY <3>2, <3>3, <3>4
  <2>5. CASE shown = {}
    <3>1. Reporting(g) = {}
      BY <2>4, <2>5
    <3> QED BY <2>2, <2>5, <3>1 DEF GroupPosition
  <2>6. CASE shown # {}
    <3>1. Reporting(g) # {}
      BY <2>4, <2>6
    <3>2. PICK p, q \in shown : shown \subseteq p..q
      <4>1. shown \in SUBSET (0..100)
        BY <2>4
      <4> HIDE DEF shown
      <4> QED BY <2>6, <4>1, Extremes
    <3>3. p \in 0..100 /\ q \in 0..100
      BY <2>4, <3>2
    <3>4. \A l \in Reporting(g) : MotorPosition(l[1]) \in p..q
      BY <2>4, <3>2
    <3>5. GroupPosition(g) \in p..q
      BY <2>1, <3>1, <3>3, <3>4, GroupPositionBetween
    <3>6. ASSUME NEW s \in {"closed", "open"},
                 \A n \in Members(g) : ha[n].closed \in {s, "unknown"}
          PROVE  ha[g].closed = s
      <4>1. ASSUME NEW r \in shown PROVE r \in 0..100 /\ Closed(r) = s
        <5> PICK n \in Members(g) : r = ha[n].position /\ r # None
          OBVIOUS
        <5>1. Closed(r) \in {s, "unknown"} /\ r \in 0..100
          BY <2>3, <2>4, <3>6
        <5> QED BY <5>1, PositionFacts DEF Closed
      <4>2. Closed(p) = s /\ Closed(q) = s
        BY <3>2, <4>1
      <4> QED BY <2>2, <3>3, <3>5, <4>2, PositionFacts DEF Closed, None
    <3>7. GroupPosition(g) # None
      BY <3>3, <3>5 DEF None
    <3> QED BY <2>2, <2>6, <3>2, <3>3, <3>5, <3>6, <3>7
  <2> QED BY <2>5, <2>6
<1> QED BY <1>1, LandInvAlways, WritesInvAlways, PTL

-----------------------------------------------------------------------------
(* Whom a command reaches, and who is followed.                            *)

\* A request names its cover the way the gateway understands it.
CallsInv ==
  /\ Fixed /\ failed \in Nat
  /\ \A r \in calls : r.target \in Entities /\ r.key = Key(r.target)

LEMMA CallsInvNext == CallsInv /\ [CoversNext]_coversVars => CallsInv'
<1> SUFFICES ASSUME CallsInv, [CoversNext]_coversVars PROVE CallsInv'
  OBVIOUS
<1>1. Fixed' /\ Entities' = Entities /\ UNCHANGED <<site, groups>>
  BY FixedNext, SiteUnchanged, EntitiesUnchanged DEF CallsInv
<1>2. \A e : Key(e)' = Key(e)
  BY <1>1 DEF Key
<1>3. failed' \in Nat
  <2>1. ASSUME NEW k \in Nat, Failure(k) PROVE failed' \in Nat
    BY <2>1 DEF Failure, CallsInv
  <2> QED
    BY <2>1 DEF CallsInv, CoversNext, ReadPosition, Move, Drop, Command,
                CommandEnds, UpdateListeners, coversVars, bounds
<1>4. ASSUME NEW r \in calls' PROVE r.target \in Entities /\ r.key = Key(r.target)
  <2>1. CASE r \in calls
    BY <2>1 DEF CallsInv
  <2>2. ASSUME NEW e \in Entities, Command(e), r \notin calls
        PROVE  r.target \in Entities /\ r.key = Key(r.target)
    <3> PICK method \in Methods(e) : \E p \in IF method = "to" THEN Chosen ELSE {None} :
          calls' = calls \cup {Request(e, method, p)}
      BY <2>2 DEF Command
    <3> PICK p \in IF method = "to" THEN Chosen ELSE {None} :
          calls' = calls \cup {Request(e, method, p)}
      OBVIOUS
    <3>1. r = Request(e, method, p)
      BY <2>2
    <3> QED BY <3>1 DEF Request
  <2> QED
    BY <2>1, <2>2 DEF CoversNext, ReadPosition, Move, Drop, CommandEnds,
                      UpdateListeners, coversVars
<1> QED BY <1>1, <1>2, <1>3, <1>4 DEF CallsInv

LEMMA CallsInvAlways == CoversSpec => []CallsInv
<1>1. CoversInit => CallsInv
  BY FixedInit DEF CoversInit, CallsInv
<1> QED BY <1>1, CallsInvNext, PTL DEF CoversSpec

\* Those a request moves, as far as they can be read, are its cover's sources.
LEMMA ReachedAreSources ==
  ASSUME CallsInv, NEW r \in calls, NEW n \in Addressed(r), Readable(n)
  PROVE  n \in Follow(r.target)
<1>1. n \in site.found /\ r.target \in Entities /\ r.key = Key(r.target) /\ Fixed
  BY DEF Readable, CallsInv
<1>2. CASE r.target \in site.found
  <2>1. r.target = n
    BY <1>1, <1>2 DEF Key, Addressed
  <2> QED BY <1>2, <2>1 DEF Follow, Sources
<1>3. CASE r.target \notin site.found
  <2>1. r.target \in DOMAIN groups /\ r.key = "groupID"
    BY <1>1, <1>3 DEF Entities, Key
  <2>2. \E g \in site.lists[n] : g.formed /\ g.index = r.target.index
    BY <2>1 DEF Addressed
  <2>3. n \in Members(r.target)
    BY <1>1, <2>1, <2>2, ListedIsMember
  <2> QED BY <1>3, <2>3 DEF Follow, Sources
<1> QED BY <1>2, <1>3

LEMMA FollowedStep ==
  ASSUME CallsInv, [CoversNext]_coversVars, NEW r \in calls \ calls', failed' = failed
  PROVE  {n \in Addressed(r) : Readable(n)} \subseteq following'
<1> PICK q \in calls : CommandEnds(q)
  BY DEF CoversNext, ReadPosition, Move, Drop, Command, UpdateListeners, coversVars
<1>1. q = r
  BY DEF CommandEnds
<1>2. following' = following \cup Follow(r.target)
  BY <1>1 DEF CommandEnds, Failure, CallsInv
<1> QED BY <1>2, ReachedAreSources

\* When a command's reply arrives, every motor it has moved that was found and
\* can be read is followed, however its group is spelt (cover.py, _follow).
THEOREM CommandedAreFollowed == CoversSpec => MovesAreFollowed
<1>1. CallsInv /\ [CoversNext]_coversVars =>
        [\A r \in calls \ calls' : failed' = failed =>
           {n \in Addressed(r) : Readable(n)} \subseteq following']_coversVars
  BY FollowedStep
<1> QED BY <1>1, CallsInvAlways, PTL DEF CoversSpec, MovesAreFollowed
-----------------------------------------------------------------------------
(* Types.                                                                  *)

\* What CoversTypeOK says besides what the other invariants say.
RestInv ==
  /\ wanted \in [Nodes -> MaybePosition]
  /\ ha \in [Entities -> States] /\ last \in [Entities -> States \cup {NotWritten}]
  /\ told \in BOOLEAN /\ \A r \in calls : r.position \in MaybePosition
  /\ following \subseteq site.found
  /\ given \in 0..site.commands /\ failed \in 0..site.failures

LEMMA FailureCounts ==
  ASSUME Fixed, failed \in 0..site.failures, NEW k \in Nat, Failure(k)
  PROVE  failed' \in 0..site.failures
BY SiteFacts DEF Failure

\* The position a request carries.
LEMMA RequestPosition ==
  ASSUME NEW e, NEW method \in Methods(e),
         NEW p \in IF method = "to" THEN Chosen ELSE {None}
  PROVE  /\ Request(e, method, p).position \in MaybePosition
         /\ WishOf(method, p) \in MaybePosition
<1>1. WishOf(method, p) \in MaybePosition
  BY RequestLands DEF MaybePosition
<1>2. CASE method = "to"
  <2>1. p \in 0..100
    BY <1>2, PositionFacts
  <2>2. Clamp(POSITION_MAX - p) \in Positions
    BY <2>1, PositionFacts DEF Clamp
  <2> QED BY <1>1, <1>2, <2>2 DEF Request, ha_to_gateway_position, MaybePosition
<1>3. CASE method # "to"
  BY <1>1, <1>3 DEF Request, MaybePosition
<1> QED BY <1>2, <1>3

LEMMA RestInvInit == CoversInit => RestInv
<1> SUFFICES ASSUME CoversInit PROVE RestInv
  OBVIOUS
<1>1. Fixed /\ LandInv
  BY FixedInit, LandInvInit
<1>2. \A e \in Entities : Snapshot(e) \in States
  BY <1>1, SnapshotIsState
<1>3. /\ ha = [e \in Entities |-> Snapshot(e)]
      /\ last = [e \in Entities |-> NotWritten]
  BY DEF CoversInit
<1>4. site.commands \in Nat /\ site.failures \in Nat
  BY <1>1, SiteFacts
<1>5. wanted = [n \in Nodes |-> None] /\ told = TRUE /\ calls = {} /\ following = {}
      /\ given = 0 /\ failed = 0
  BY DEF CoversInit
<1> QED BY <1>2, <1>3, <1>4, <1>5 DEF RestInv, MaybePosition

LEMMA RestInvNext == LandInv /\ RestInv /\ [CoversNext]_coversVars => RestInv'
<1> SUFFICES ASSUME LandInv, RestInv, [CoversNext]_coversVars PROVE RestInv'
  OBVIOUS
<1>1. Fixed /\ Entities' = Entities /\ UNCHANGED <<site, groups>>
  BY SiteUnchanged, EntitiesUnchanged DEF LandInv
<1>2. CASE UNCHANGED <<wanted, entities, calls, following, bounds>>
  BY <1>1, <1>2 DEF RestInv, entities, bounds
<1>3. ASSUME NEW n \in Nodes, ReadPosition(n) PROVE RestInv'
  <2>1. told' = (told /\ known' = known)
        /\ UNCHANGED <<wanted, ha, last, calls, following, given>>
    BY <1>3 DEF ReadPosition, motors
  <2>2. failed' \in 0..site.failures
    <3>1. PICK k \in {0, 1} : Failure(k)
      BY <1>3 DEF ReadPosition
    <3> QED BY <1>1, <3>1, FailureCounts DEF RestInv
  <2> QED BY <1>1, <2>1, <2>2 DEF RestInv
<1>4. ASSUME UpdateListeners PROVE RestInv'
  <2>1. /\ ha' = [e \in Entities |-> Update(e)]
        /\ last' = [e \in Entities |-> Snapshot(e)]
        /\ told' = TRUE /\ UNCHANGED <<wanted, calls, following, given, failed>>
    BY <1>4 DEF UpdateListeners, motors, bounds
  <2>2. ASSUME NEW e \in Entities PROVE Update(e) \in States /\ Snapshot(e) \in States
    <3>1. Snapshot(e) \in States
      BY SnapshotIsState
    <3> QED BY <3>1 DEF Update, RestInv
  <2> QED BY <1>1, <2>1, <2>2 DEF RestInv
<1>5. ASSUME NEW e \in Entities, Command(e) PROVE RestInv'
  <2>1. PICK method \in Methods(e) : \E p \in IF method = "to" THEN Chosen ELSE {None} :
          /\ calls' = calls \cup {Request(e, method, p)}
          /\ \/ Failure(0) /\ Obey(Request(e, method, p), WishOf(method, p))
             \/ Failure(1) /\ UNCHANGED <<motors, read>>
    BY <1>5 DEF Command
  <2>2. PICK p \in IF method = "to" THEN Chosen ELSE {None} :
          /\ calls' = calls \cup {Request(e, method, p)}
          /\ \/ Failure(0) /\ Obey(Request(e, method, p), WishOf(method, p))
             \/ Failure(1) /\ UNCHANGED <<motors, read>>
    BY <2>1
  <2> DEFINE r == Request(e, method, p)
             w == WishOf(method, p)
  <2>3. r.position \in MaybePosition /\ w \in MaybePosition
    BY RequestPosition
  <2>4. given' \in 0..site.commands
    BY <1>1, <1>5, SiteFacts DEF Command, RestInv
  <2>5. UNCHANGED <<ha, last, told, following>>
    BY <1>5 DEF Command, entities
  <2>6. failed' \in 0..site.failures
    BY <1>1, <2>2, FailureCounts DEF RestInv
  <2>7. wanted' \in [Nodes -> MaybePosition]
    <3>1. CASE wanted' = [n \in Nodes |-> IF n \in Addressed(r) THEN w ELSE wanted[n]]
      BY <2>3, <3>1 DEF RestInv
    <3>2. CASE wanted' = wanted
      BY <3>2 DEF RestInv
    <3> QED BY <2>2, <3>1, <3>2 DEF Obey, motors
  <2>8. \A q \in calls' : q.position \in MaybePosition
    BY <2>2, <2>3 DEF RestInv
  <2> QED BY <1>1, <2>4, <2>5, <2>6, <2>7, <2>8 DEF RestInv
<1>6. ASSUME NEW r \in calls, CommandEnds(r) PROVE RestInv'
  <2>1. calls' = calls \ {r} /\ UNCHANGED <<wanted, ha, last, told, given>>
    BY <1>6 DEF CommandEnds, motors, entities
  <2>2. following' \subseteq site.found
    BY <1>6 DEF CommandEnds, Follow, Readable, RestInv
  <2>3. failed' \in 0..site.failures
    BY <1>1, <1>6, FailureCounts DEF CommandEnds, RestInv
  <2> QED BY <1>1, <2>1, <2>2, <2>3 DEF RestInv
<1>7. ASSUME NEW n \in Nodes, Drop(n) PROVE RestInv'
  BY <1>1, <1>7 DEF Drop, RestInv, motors, entities, bounds
<1>8. ASSUME NEW n \in Nodes, Move(n) PROVE RestInv'
  BY <1>2, <1>8 DEF Move, entities, bounds
<1> QED
  BY <1>2, <1>3, <1>4, <1>5, <1>6, <1>7, <1>8
     DEF CoversNext, coversVars, motors

LEMMA RestInvAlways == CoversSpec => []RestInv
BY RestInvInit, RestInvNext, LandInvAlways, PTL DEF CoversSpec

\* Every variable has its type: every position parsed, turned, averaged or sent
\* is one, or none (models.py, const.py, cover.py).
THEOREM CoversTypesHold == CoversSpec => []CoversTypeOK
<1>1. LandInv /\ CallsInv /\ RestInv => CoversTypeOK
  <2> SUFFICES ASSUME LandInv, CallsInv, RestInv PROVE CoversTypeOK
    OBVIOUS
  <2>1. Fixed /\ site \in SiteType
    BY DEF LandInv, Fixed
  <2>2. groups \in [DOMAIN groups -> SUBSET (site.found \X GroupIds)]
    <3>1. \A g \in DOMAIN groups : groups[g] \subseteq site.found \X GroupIds
      BY <2>1, GroupFacts
    <3>2. groups = [g \in DOMAIN groups |-> groups[g]]
      BY <2>1 DEF Fixed, BuildGroups
    <3> QED BY <3>1, <3>2
  <2>3. /\ at \in [Nodes -> Positions] /\ goal \in [Nodes -> MaybePosition]
        /\ known \in [Nodes -> MaybePosition] /\ read \subseteq site.found
    BY DEF LandInv, MaybePosition
  <2>4. \A r \in calls : r.target \in Entities /\ r.position \in MaybePosition
    BY DEF CallsInv, RestInv
  <2> QED BY <2>1, <2>2, <2>3, <2>4 DEF RestInv, CoversTypeOK
<1> QED BY <1>1, LandInvAlways, CallsInvAlways, RestInvAlways, PTL
===============================================================================
