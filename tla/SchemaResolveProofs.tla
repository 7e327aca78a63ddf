------------------------- MODULE SchemaResolveProofs -------------------------
(***************************************************************************)
(* Proofs about the resolver, for every set of schemas.                    *)
(***************************************************************************)
EXTENDS SchemaResolve, FiniteSetTheorems, WellFoundedInduction, TLAPS

-----------------------------------------------------------------------------
\* Natural numbers.

\* A set of natural numbers has a least one.
LEMMA LeastOf ==
    ASSUME NEW S \in SUBSET Nat, S # {}
    PROVE  \E k \in S : \A l \in S : k <= l
<1> DEFINE R == OpToRel(<, Nat)
<1>1. PICK k \in S : \A l \in S : ~(<<l, k>> \in R)
  <2>1. IsWellFoundedOn(R, Nat)
    BY NatLessThanWellFounded
  <2> HIDE DEF R
  <2> QED BY <2>1, WFMin
<1>2. ASSUME NEW l \in S, ~(k <= l) PROVE FALSE
  <2>1. l \in Nat /\ k \in Nat /\ l < k
    BY <1>2
  <2>2. <<l, k>> \in R
    BY <2>1 DEF OpToRel
  <2> QED BY <1>1, <2>2
<1> QED BY <1>2

\* A set of natural numbers with a bound has a greatest one.
LEMMA GreatestOf ==
    ASSUME NEW N \in Nat, NEW S \in SUBSET (0 .. N), S # {}
    PROVE  \E k \in S : \A l \in S : l <= k
<1> DEFINE T == {n \in Nat : n <= N /\ N - n \in S}
<1>1. T \in SUBSET Nat
  OBVIOUS
<1>2. T # {}
  <2>1. PICK k \in S : TRUE
    OBVIOUS
  <2>2. N - k \in Nat /\ N - k <= N /\ N - (N - k) = k
    OBVIOUS
  <2> QED BY <2>1, <2>2
<1>3. PICK n \in T : \A l \in T : n <= l
  <2> HIDE DEF T
  <2> QED BY <1>1, <1>2, LeastOf
<1>4. ASSUME NEW l \in S PROVE l <= N - n
  <2>1. N - l \in Nat /\ N - l <= N /\ N - (N - l) = l
    OBVIOUS
  <2>2. n <= N - l
    BY <1>3, <2>1
  <2> QED BY <1>3, <2>1, <2>2
<1> QED BY <1>3, <1>4

\* What holds of m and of the successor of each number it holds of, up to N.
LEMMA FromTo ==
    ASSUME NEW m \in Nat, NEW N \in Nat, NEW S,
           m \in S, \A n \in m .. (N - 1) : n \in S => n + 1 \in S
    PROVE  \A n \in m .. N : n \in S
<1> DEFINE T == {n \in m .. N : n \notin S}
<1> SUFFICES ASSUME T # {} PROVE FALSE
  OBVIOUS
<1>1. T \in SUBSET Nat
  OBVIOUS
<1>2. PICK k \in T : \A l \in T : k <= l
  <2> HIDE DEF T
  <2> QED BY <1>1, LeastOf
<1>3. k \in Nat /\ k # m /\ k - 1 \in m .. (N - 1) /\ k - 1 \notin T
  BY <1>2
<1> QED BY <1>3

\* A value, what a function makes of it, and so on.
IsWalk(f, S, x, g, N) ==
    f \in [0 .. N -> S] /\ f[0] = x /\ \A n \in 1 .. N : f[n] = g[f[n - 1]]

\* A function that can be applied again to what it makes can be applied any number of
\* times.
LEMMA Iterates ==
    ASSUME NEW S, NEW x \in S, NEW g \in [S -> S], NEW N \in Nat
    PROVE  \E f : IsWalk(f, S, x, g, N)
<1> DEFINE Upto(m, f) == f[0] = x /\ \A n \in 1 .. m : f[n] = g[f[n - 1]]
           Good == {m \in Nat : \E f \in [0 .. m -> S] : Upto(m, f)}
<1>1. 0 \in Good
  <2> DEFINE f == [n \in 0 .. 0 |-> x]
  <2>1. f \in [0 .. 0 -> S] /\ Upto(0, f)
    OBVIOUS
  <2> QED BY <2>1
<1>2. ASSUME NEW n \in 0 .. (N - 1), n \in Good PROVE n + 1 \in Good
  <2>1. PICK f \in [0 .. n -> S] : Upto(n, f)
    BY <1>2
  <2> DEFINE h == [k \in 0 .. (n + 1) |-> IF k = n + 1 THEN g[f[n]] ELSE f[k]]
  <2>2. h \in [0 .. (n + 1) -> S] /\ h[n + 1] = g[f[n]] /\ \A k \in 0 .. n : h[k] = f[k]
    OBVIOUS
  <2> HIDE DEF h
  <2>3. ASSUME NEW k \in 1 .. (n + 1) PROVE h[k] = g[h[k - 1]]
    <3>1. CASE k = n + 1
      BY <2>2, <3>1
    <3>2. CASE k # n + 1
      <4>1. k \in 1 .. n /\ k - 1 \in 0 .. n
        BY <3>2
      <4> QED BY <2>1, <2>2, <4>1
    <3> QED BY <3>1, <3>2
  <2>4. h[0] = x
    BY <2>1, <2>2
  <2> QED BY <2>2, <2>3, <2>4
<1>3. N \in Good
  <2> HIDE DEF Good
  <2> QED BY <1>1, <1>2, FromTo
<1> QED BY <1>3 DEF IsWalk

\* In one more step than a set has elements a walk over it meets one of them again.
LEMMA Repeats ==
    ASSUME NEW P, IsFiniteSet(P), NEW f \in [0 .. Cardinality(P) -> P]
    PROVE  \E i, j \in 0 .. Cardinality(P) : i < j /\ f[i] = f[j]
<1> DEFINE N == Cardinality(P)
<1>1. N \in Nat
  BY FS_CardinalityType
<1>2. IsFiniteSet(0 .. N) /\ Cardinality(0 .. N) = N + 1
  BY <1>1, FS_Interval
<1>3. \E i, j \in 0 .. N : i # j /\ f[i] = f[j]
  <2> HIDE DEF N
  <2>1. Cardinality(P) < Cardinality(0 .. N)
    BY <1>1, <1>2 DEF N
  <2> QED BY <1>2, <2>1, FS_PigeonHole DEF N
<1> QED BY <1>1, <1>3

-----------------------------------------------------------------------------
\* The definitions before d in the order of the iterator: all of them at its end.
Passed(d) == {q \in Positions : d = Nil \/ (Before(q, d) /\ q # d)}

\* The group a group inherits from, through the typedefs between them.
Parent(g) == Terminal(links[<<g, 0>>])

\* The references of the definitions in D are resolved.
ResolvedIn(D) ==
    \A place \in AllPlaces :
        place[1] \in D => links[place] = Resolve(Reference(place)) /\ links[place] \in Positions

\* Typedefs that lead to each other only, and a definition that leads to none such.
Looped(C) == \A p \in C : IsTypedefRef(p) /\ links[<<p, 0>>] \in C
Ending(p) == \A C \in SUBSET Positions : Looped(C) => p \notin C

\* What the test of a group has found out: it inherits from a group, not by a sequence
\* or a dynamic reference; and A, which holds all it inherits from at whatever distance,
\* neither holds the group itself nor a field of a name the group has.
Clean(g) ==
    HasReference(g, 0) =>
        /\ Parent(g) \in Groups
        /\ ~BySequence(links[<<g, 0>>]) /\ ~ByDynamic(links[<<g, 0>>])
Inherited(g, A) == g \notin A /\ \A h \in A \union {g} : HasReference(h, 0) => Parent(h) \in A
SameName(f, e) == FieldName(f) = FieldName(e)
Apart(g, A) == \A h \in A : \A f \in FieldsOf(g), e \in FieldsOf(h) : ~SameName(f, e)
Tested(g) == Clean(g) /\ \E A \in SUBSET Groups : Inherited(g, A) /\ Apart(g, A)

\* A line of groups each of which inherits from the next; groups that only inherit
\* from each other.
Line(s) == \A i \in 1 .. (Len(s) - 1) : HasReference(s[i], 0) /\ s[i + 1] = Parent(s[i])
Ring(C) == \A c \in C : HasReference(c, 0) /\ Parent(c) \in C

\* The levels of a walk past its index have no fields left, and of the fields it has
\* given at the levels of supergroups none has a name of the group g.
Exhausted(w) == \A i \in DOMAIN w.stack : i > w.index => ~Left(w.stack[i])
GivenApart(g, w) ==
    \A i \in DOMAIN w.stack : i > 1 =>
        \A k \in 1 .. (w.stack[i][2] - 1) :
            k \in DOMAIN Def(w.stack[i][1]).fields =>
                \A f \in FieldsOf(g) : ~SameName(f, <<w.stack[i][1], k>>)

-----------------------------------------------------------------------------
\* A schema whose names tell its definitions apart: none stands twice where it is looked
\* for, none that is referred to begins another, and a name alone is used only in the
\* first namespace, the one it is looked for in.
NamesAreTold ==
    /\ \A n, m \in DOMAIN schema : schema[n].name = schema[m].name => n = m
    /\ \A p, q \in Positions : p[1] = q[1] /\ Def(p).name = Def(q).name => p = q
    /\ \A place \in AllPlaces :
        LET cname == Split[Reference(place)]
        IN  /\ cname[2] # NoName
            /\ cname[1] = NoName => place[1][1] = 1
            /\ \A n \in DOMAIN schema : <<cname[1], schema[n].name>> \notin NamePrefixes
            /\ \A p \in Positions : <<cname[2], Def(p).name>> \notin NamePrefixes

-----------------------------------------------------------------------------
Scanning == {"resolve", "reference", "typedef", "super", "shadow count", "shadow"}
Accepted == {"schema", "fields count", "fields", "groups", "done"}
Walking == {"shadow", "fields"}

Walks == [stack : Seq(Positions \X (Nat \ {0})), index : Nat]

\* The definition iterator is one definition ahead, but at the start of a loop.
ScanOK == at \in Scanning => iter = After(def) \/ (def = FirstDefinition /\ iter = FirstDefinition)

LinksOK ==
    /\ at = "resolve" => ResolvedIn(Passed(def))
    /\ at \notin {"resolve", "refused"} => ResolvedIn(Positions)

\* The chain that is followed ends if that of the typedef under test does, or rather:
\* while that leads into a loop it is in it.
TypedefsOK ==
    /\ at \in {"reference", "typedef"} => \A p \in Passed(def) : Ending(p)
    /\ at = "typedef" =>
        /\ def \in Positions /\ slow \in Positions
        /\ \A C \in SUBSET Positions : Looped(C) /\ def \in C => slow \in C
    /\ at \in {"super", "shadow count", "shadow"} \union Accepted => \A p \in Positions : Ending(p)

GroupsOK ==
    /\ at \in {"super", "shadow count", "shadow"} => \A g \in Passed(def) \intersect Groups : Tested(g)
    /\ at \in Accepted => \A g \in Groups : Tested(g)

\* supers is the line of what a group inherits from, or it has been cut and then the
\* line has no end.
CountOK ==
    /\ supers \in Seq(Groups)
    /\ at \in {"shadow count", "fields count", "shadow"} => supers # <<>>
    /\ at \in {"shadow count", "shadow"} => def \in Groups /\ HasReference(def, 0) /\ Clean(def)
    /\ at = "shadow count" =>
        \/ supers[1] = def /\ Line(supers)
        \/ \E C \in SUBSET Groups : Last \in C /\ Ring(C)

WalkOK ==
    /\ walk \in Walks
    /\ at \in Walking => walk.index \in 1 .. Len(walk.stack)
    /\ at = "shadow" =>
        /\ supers[1] = def /\ Line(supers) /\ ~HasReference(Last, 0)
        /\ Len(walk.stack) = Len(supers)
        /\ \A i \in DOMAIN supers : walk.stack[i][1] = supers[i]
        /\ walk.stack[1] = <<def, 1>>
        /\ Exhausted(walk)
        /\ GivenApart(def, walk)

IInv == TypeOK /\ ScanOK /\ LinksOK /\ TypedefsOK /\ GroupsOK /\ CountOK /\ WalkOK

-----------------------------------------------------------------------------
\* Definitions, by position.

\* The lists of a schema, and the positions in them.
LEMMA Lists ==
    ASSUME schema \in Schemas
    PROVE  /\ Len(schema) \in Nat /\ DOMAIN schema = 1 .. Len(schema)
           /\ \A n \in DOMAIN schema :
                 Len(schema[n].defs) \in Nat /\ DOMAIN schema[n].defs = 1 .. Len(schema[n].defs)
<1>1. IsList(schema) /\ \A n \in DOMAIN schema : IsList(schema[n].defs)
  BY ResolveAssumption
<1>2. ASSUME NEW s, IsList(s) PROVE Len(s) \in Nat /\ DOMAIN s = 1 .. Len(s)
  BY <1>2 DEF IsList
<1> QED BY <1>1, <1>2

\* A position is a namespace of the schema and a definition of it, and all of these
\* are positions.
LEMMA InPositions ==
    /\ \A p \in Positions : /\ p = <<p[1], p[2]>>
                            /\ p[1] \in DOMAIN schema /\ p[2] \in DOMAIN schema[p[1]].defs
    /\ \A n \in DOMAIN schema : \A k \in DOMAIN schema[n].defs : <<n, k>> \in Positions
  BY DEF Positions

\* Both halves of a position are numbers within the lists they index; no position is
\* Nil.
LEMMA PositionTypes ==
    ASSUME schema \in Schemas, NEW p \in Positions
    PROVE  /\ p = <<p[1], p[2]>> /\ p # Nil
           /\ p[1] \in 1 .. Len(schema) /\ p[2] \in 1 .. Len(schema[p[1]].defs)
           /\ p[1] \in Nat /\ p[2] \in Nat
           /\ Len(schema) \in Nat /\ Len(schema[p[1]].defs) \in Nat
<1>1. p = <<p[1], p[2]>> /\ p[1] \in DOMAIN schema /\ p[2] \in DOMAIN schema[p[1]].defs
  BY InPositions
<1>2. p[1] \in 1 .. Len(schema) /\ p[2] \in 1 .. Len(schema[p[1]].defs)
      /\ Len(schema) \in Nat /\ Len(schema[p[1]].defs) \in Nat
  BY <1>1, Lists
<1> QED BY <1>1, <1>2 DEF Nil

\* The fields of a definition are a list, and the marks of its type are truth values.
LEMMA DefTypes ==
    ASSUME schema \in Schemas, NEW p \in Positions
    PROVE  /\ Len(Def(p).fields) \in Nat /\ DOMAIN Def(p).fields = 1 .. Len(Def(p).fields)
           /\ Def(p).type.dyn \in BOOLEAN /\ Def(p).type.seq \in BOOLEAN
<1>1. p[1] \in DOMAIN schema /\ p[2] \in DOMAIN schema[p[1]].defs
  BY InPositions
<1> DEFINE d == schema[p[1]].defs[p[2]]
<1>2. IsList(d.fields) /\ {d.type.dyn, d.type.seq} \subseteq BOOLEAN
  BY <1>1, ResolveAssumption
<1>3. ASSUME NEW s, IsList(s) PROVE Len(s) \in Nat /\ DOMAIN s = 1 .. Len(s)
  BY <1>3 DEF IsList
<1> QED BY <1>2, <1>3 DEF Def

\* No definition and no field gives itself a tag that only a reference can lead to.
LEMMA TagTypes ==
    ASSUME schema \in Schemas, NEW p \in Positions
    PROVE  Def(p).type.tag \notin Defined /\ \A l \in DOMAIN Def(p).fields : Def(p).fields[l].type.tag \notin Defined
<1>1. p[1] \in DOMAIN schema /\ p[2] \in DOMAIN schema[p[1]].defs
  BY InPositions
<1> QED BY <1>1, ResolveAssumption DEF Def

\* A schema has finitely many definitions.
LEMMA PositionsFinite ==
    ASSUME schema \in Schemas
    PROVE  IsFiniteSet(Positions) /\ Cardinality(Positions) \in Nat
<1> DEFINE f == [n \in DOMAIN schema |-> {n} \X DOMAIN schema[n].defs]
           T == {f[n] : n \in DOMAIN schema}
<1>1. IsFiniteSet(DOMAIN schema)
  BY Lists, FS_Interval
<1>2. IsFiniteSet(T)
  <2>1. f \in Surjection(DOMAIN schema, T)
    BY DEF Surjection
  <2> HIDE DEF f, T
  <2> QED BY <1>1, <2>1, FS_Surjection
<1>3. ASSUME NEW n \in DOMAIN schema PROVE IsFiniteSet(f[n])
  <2>1. IsFiniteSet({n})
    BY FS_Singleton
  <2>2. IsFiniteSet(DOMAIN schema[n].defs)
    <3>1. Len(schema[n].defs) \in Nat /\ DOMAIN schema[n].defs = 1 .. Len(schema[n].defs)
      BY Lists
    <3> QED BY <3>1, FS_Interval
  <2>3. IsFiniteSet({n} \X DOMAIN schema[n].defs)
    BY <2>1, <2>2, FS_Product
  <2> QED BY <2>3
<1>4. IsFiniteSet(UNION T)
  <2>1. \A t \in T : IsFiniteSet(t)
    BY <1>3
  <2> HIDE DEF T
  <2> QED BY <1>2, <2>1, FS_UNION
<1>5. Positions = UNION T
  BY DEF Positions
<1> QED BY <1>4, <1>5, FS_CardinalityType

\* A place of a reference belongs to a definition.
LEMMA InPlaces ==
    /\ \A place \in AllPlaces : place[1] \in Positions /\ place = <<place[1], place[2]>>
    /\ \A p \in Positions : \A place \in Places(p) : place \in AllPlaces /\ place[1] = p
    /\ \A place \in AllPlaces : place \in Places(place[1])
  BY DEF AllPlaces, Places

\* The supergroup of a group and the type of a typedef are places when there is a
\* reference.
LEMMA FirstPlace ==
    ASSUME schema \in Schemas, NEW p \in Positions, HasReference(p, 0)
    PROVE  <<p, 0>> \in AllPlaces /\ <<p, 0>> \in Places(p)
<1>1. 0 \in 0 .. Len(Def(p).fields)
  BY DefTypes
<1> QED BY <1>1 DEF AllPlaces, Places

\* The first entry of a list whose name is found, if there is one.
LEMMA SearchFinds ==
    ASSUME NEW list, NEW m \in Nat, DOMAIN list = 1 .. m, NEW sought
    PROVE  \/ Search(list, sought) = 0 /\ \A k \in 1 .. m : ~Finds(sought, list[k].name)
           \/ /\ Search(list, sought) \in 1 .. m
              /\ Finds(sought, list[Search(list, sought)].name)
              /\ \A k \in 1 .. m : Finds(sought, list[k].name) => Search(list, sought) <= k
<1> DEFINE found == {k \in DOMAIN list : Finds(sought, list[k].name)}
<1>1. CASE found = {}
  BY <1>1 DEF Search
<1>2. CASE found # {}
  <2>1. found \in SUBSET Nat
    OBVIOUS
  <2>2. \E k \in found : \A l \in found : k <= l
    <3> HIDE DEF found
    <3> QED BY <1>2, <2>1, LeastOf
  <2>3. Search(list, sought) = CHOOSE k \in found : \A l \in found : k <= l
    BY <1>2 DEF Search
  <2>4. Search(list, sought) \in found /\ \A k \in found : Search(list, sought) <= k
    <3> HIDE DEF found
    <3> QED BY <2>2, <2>3
  <2> QED BY <2>4
<1> QED BY <1>1, <1>2

\* A name is resolved to a definition or to none.
LEMMA ResolveType ==
    ASSUME schema \in Schemas, NEW reference
    PROVE  Resolve(reference) \in Positions \union {Nil}
<1> DEFINE n == Search(schema, Split[reference][1])
           k == Search(schema[n].defs, Split[reference][2])
<1>1. n = 0 \/ n \in DOMAIN schema
  BY Lists, SearchFinds
<1>2. n # 0 => k = 0 \/ k \in DOMAIN schema[n].defs
  <2> SUFFICES ASSUME n # 0 PROVE k = 0 \/ k \in DOMAIN schema[n].defs
    OBVIOUS
  <2> HIDE DEF n
  <2>1. Len(schema[n].defs) \in Nat /\ DOMAIN schema[n].defs = 1 .. Len(schema[n].defs)
    BY <1>1, Lists
  <2> QED BY <2>1, SearchFinds
<1>3. Resolve(reference) = IF n = 0 THEN Nil ELSE IF k = 0 THEN Nil ELSE <<n, k>>
  BY DEF Resolve
<1> HIDE DEF n, k
<1> QED BY <1>1, <1>2, <1>3, InPositions

\* The iterator over the definitions leaves none out.
LEMMA FromPasses ==
    ASSUME schema \in Schemas, NEW n \in Nat
    PROVE  /\ DefinitionFrom(n) \in Positions \union {Nil}
           /\ \A q \in Passed(DefinitionFrom(n)) : q[1] < n
<1> DEFINE later == {m \in DOMAIN schema : m >= n /\ schema[m].defs # <<>>}
           m == CHOOSE m \in later : \A l \in later : m <= l
<1>1. ASSUME NEW q \in Positions PROVE schema[q[1]].defs # <<>> /\ q[1] \in DOMAIN schema /\ q[1] \in Nat
  BY PositionTypes, InPositions
<1>2. CASE later = {}
  <2>1. DefinitionFrom(n) = Nil
    BY <1>2 DEF DefinitionFrom
  <2> QED BY <1>1, <1>2, <2>1 DEF Passed
<1>3. CASE later # {}
  <2>1. later \in SUBSET Nat
    BY Lists
  <2>2. m \in later /\ \A l \in later : m <= l
    <3>1. \E k \in later : \A l \in later : k <= l
      <4> HIDE DEF later
      <4> QED BY <1>3, <2>1, LeastOf
    <3> QED BY <3>1
  <2>3. DefinitionFrom(n) = <<m, 1>>
    BY <1>3 DEF DefinitionFrom
  <2> HIDE DEF m
  <2>4. m \in DOMAIN schema /\ m \in Nat /\ m >= n /\ schema[m].defs # <<>>
    BY <2>1, <2>2
  <2>5. <<m, 1>> \in Positions
    <3>1. Len(schema[m].defs) \in Nat /\ DOMAIN schema[m].defs = 1 .. Len(schema[m].defs)
      BY <2>4, Lists
    <3>2. IsList(schema[m].defs)
      BY <2>4, ResolveAssumption
    <3>3. 1 \in DOMAIN schema[m].defs
      BY <2>4, <3>1, <3>2 DEF IsList
    <3> QED BY <2>4, <3>3, InPositions
  <2>6. ASSUME NEW q \in Positions, Before(q, <<m, 1>>), q # <<m, 1>>, ~(q[1] < n) PROVE FALSE
    <3>1. q = <<q[1], q[2]>> /\ q[1] \in Nat /\ q[2] \in Nat /\ q[2] >= 1
      BY PositionTypes
    <3>2. q[1] \in later
      BY <1>1, <2>6, <3>1
    <3>3. m <= q[1]
      BY <2>2, <3>2
    <3>4. q[1] = m /\ q[2] = 1
      BY <2>4, <2>6, <3>1, <3>3 DEF Before
    <3> QED BY <2>6, <3>1, <3>4
  <2>7. <<m, 1>> # Nil
    BY DEF Nil
  <2> QED BY <2>3, <2>5, <2>6, <2>7 DEF Passed
<1> QED BY <1>2, <1>3

\* The iterator starts at a definition, or at none when there is none, and has passed
\* nothing.
LEMMA FirstPasses ==
    ASSUME schema \in Schemas
    PROVE  FirstDefinition \in Positions \union {Nil} /\ Passed(FirstDefinition) = {}
<1>1. /\ FirstDefinition \in Positions \union {Nil}
      /\ \A q \in Passed(FirstDefinition) : q[1] < 1
  BY FromPasses DEF FirstDefinition
<1>2. \A q \in Passed(FirstDefinition) : q[1] \in 1 .. Len(schema)
  BY PositionTypes DEF Passed
<1>3. \A q \in Passed(FirstDefinition) : FALSE
  BY <1>1, <1>2
<1> QED BY <1>1, <1>3

\* The iterator passes one definition at a time.
LEMMA AfterPasses ==
    ASSUME schema \in Schemas, NEW p \in Positions
    PROVE  /\ After(p) \in Positions \union {Nil}
           /\ Passed(After(p)) \subseteq Passed(p) \union {p}
<1>1. /\ p # Nil /\ p = <<p[1], p[2]>> /\ p[1] \in Nat /\ p[2] \in Nat
      /\ Len(schema[p[1]].defs) \in Nat /\ p[2] \in 1 .. Len(schema[p[1]].defs)
  BY PositionTypes
<1>2. CASE p[2] < Len(schema[p[1]].defs)
  <2> DEFINE a == <<p[1], p[2] + 1>>
  <2>1. After(p) = a
    BY <1>1, <1>2 DEF After
  <2>2. a \in Positions
    BY <1>1, <1>2, InPositions, Lists
  <2>3. ASSUME NEW q \in Positions, Before(q, a), q # a PROVE q \in Passed(p) \union {p}
    <3>1. q = <<q[1], q[2]>> /\ q[1] \in Nat /\ q[2] \in Nat
      BY PositionTypes
    <3>2. q[1] < p[1] \/ (q[1] = p[1] /\ q[2] <= p[2])
      BY <1>1, <2>3, <3>1 DEF Before
    <3> QED BY <3>2 DEF Passed, Before
  <2>4. a # Nil
    BY <2>2, PositionTypes
  <2> HIDE DEF a
  <2>5. ASSUME NEW q \in Passed(a) PROVE q \in Passed(p) \union {p}
    BY <2>3, <2>4 DEF Passed
  <2> QED BY <2>1, <2>2, <2>5
<1>3. CASE ~(p[2] < Len(schema[p[1]].defs))
  <2>1. After(p) = DefinitionFrom(p[1] + 1)
    BY <1>1, <1>3 DEF After
  <2>2. /\ After(p) \in Positions \union {Nil}
        /\ \A q \in Passed(After(p)) : q[1] < p[1] + 1
    BY <1>1, <2>1, FromPasses
  <2>3. ASSUME NEW q \in Passed(After(p)) PROVE q \in Passed(p) \union {p}
    <3>1. q \in Positions /\ q[1] < p[1] + 1
      BY <2>2 DEF Passed
    <3>2. /\ q = <<q[1], q[2]>> /\ q[1] \in Nat /\ q[2] \in Nat
          /\ q[2] \in 1 .. Len(schema[q[1]].defs)
      BY <3>1, PositionTypes
    <3>3. q[1] < p[1] \/ (q[1] = p[1] /\ q[2] <= p[2])
      BY <1>1, <1>3, <3>1, <3>2
    <3> QED BY <3>1, <3>3 DEF Passed, Before
  <2> QED BY <2>2, <2>3
<1> QED BY <1>2, <1>3

-----------------------------------------------------------------------------
\* Chains of typedefs.

\* The pointer of a resolved reference is the definition its name is resolved to.
LEMMA LinkIn ==
    ASSUME schema \in Schemas, ResolvedIn(Positions), NEW p \in Positions, HasReference(p, 0)
    PROVE  links[<<p, 0>>] \in Positions /\ links[<<p, 0>>] = Resolve(Reference(<<p, 0>>))
<1>1. <<p, 0>> \in AllPlaces
  BY FirstPlace
<1>2. <<p, 0>>[1] = p
  OBVIOUS
<1> QED BY <1>1, <1>2 DEF ResolvedIn

\* Followed is a walk along the references of typedefs, that stays where it ends.
NextFollowed(q) == IF IsTypedefRef(q) THEN links[<<q, 0>>] ELSE q

\* The definitions that getTerminal comes to are those of one walk along the pointers,
\* as many steps as there are definitions.
LEMMA FollowedIs ==
    ASSUME schema \in Schemas, ResolvedIn(Positions), NEW p \in Positions
    PROVE  \E to \in [0 .. Cardinality(Positions) -> Positions] :
              /\ to[0] = p
              /\ \A n \in 1 .. Cardinality(Positions) : to[n] = NextFollowed(to[n - 1])
              /\ Followed(p) = {to[n] : n \in 0 .. Cardinality(Positions)}
<1> DEFINE N == Cardinality(Positions)
           g == [q \in Positions |-> NextFollowed(q)]
           Defines(f) == f = [n \in 0 .. N |-> IF n = 0 THEN p
                                               ELSE IF IsTypedefRef(f[n - 1]) THEN links[<<f[n - 1], 0>>]
                                               ELSE f[n - 1]]
           to == CHOOSE f : Defines(f)
<1>1. N \in Nat
  BY PositionsFinite
<1>2. g \in [Positions -> Positions]
  <2>1. \A q \in Positions : IsTypedefRef(q) => links[<<q, 0>>] \in Positions
    BY LinkIn DEF HasReference
  <2> QED BY <2>1 DEF NextFollowed
<1>3. PICK f : f \in [0 .. N -> Positions] /\ f[0] = p /\ \A n \in 1 .. N : f[n] = g[f[n - 1]]
  <2>1. \E f : IsWalk(f, Positions, p, g, N)
    <3> HIDE DEF g, N
    <3> QED BY <1>1, <1>2, Iterates
  <2> QED BY <2>1 DEF IsWalk
<1>4. Defines(f)
  <2>1. ASSUME NEW n \in 0 .. N
        PROVE  f[n] = IF n = 0 THEN p ELSE IF IsTypedefRef(f[n - 1]) THEN links[<<f[n - 1], 0>>] ELSE f[n - 1]
    <3>1. CASE n = 0
      BY <1>3, <3>1
    <3>2. CASE n # 0
      <4>1. n \in 1 .. N /\ n - 1 \in 0 .. N
        BY <1>1, <3>2
      <4>2. f[n] = g[f[n - 1]] /\ f[n - 1] \in Positions
        BY <1>3, <4>1
      <4> QED BY <3>2, <4>2 DEF NextFollowed
    <3> QED BY <3>1, <3>2
  <2> HIDE DEF N
  <2> QED BY <1>3, <2>1
<1>5. Defines(to)
  <2> HIDE DEF Defines
  <2> QED BY <1>4
<1>6. Followed(p) = {to[n] : n \in 0 .. N}
  BY DEF Followed
<1>7. to[0] = p /\ \A n \in 1 .. N : to[n] = NextFollowed(to[n - 1])
  <2> HIDE DEF to, N
  <2>1. 0 \in 0 .. N /\ \A n \in 1 .. N : n \in 0 .. N /\ n # 0
    BY <1>1
  <2> QED BY <1>5, <2>1 DEF NextFollowed
<1>8. to \in [0 .. N -> Positions]
  <2> DEFINE T == {n \in 0 .. N : to[n] \in Positions}
  <2> HIDE DEF to
  <2>1. 0 \in T
    BY <1>1, <1>7
  <2>2. ASSUME NEW n \in 0 .. (N - 1), n \in T PROVE n + 1 \in T
    <3>1. n + 1 \in 1 .. N /\ (n + 1) - 1 = n
      BY <1>1
    <3>2. to[n + 1] = NextFollowed(to[n]) /\ to[n] \in Positions
      BY <1>7, <2>2, <3>1
    <3>3. NextFollowed(to[n]) \in Positions
      BY <1>2, <3>2
    <3> QED BY <1>1, <3>1, <3>2, <3>3
  <2>3. \A n \in 0 .. N : n \in T
    <3> HIDE DEF T, N
    <3> QED BY <1>1, <2>1, <2>2, FromTo
  <2>4. DOMAIN to = 0 .. N /\ to = [n \in DOMAIN to |-> to[n]]
    BY <1>5
  <2> QED BY <2>3, <2>4
<1> QED BY <1>6, <1>7, <1>8

\* A chain of typedefs that does not lead into a loop ends at one definition, which
\* getTerminal gives, and has been followed that far.
LEMMA TerminalIs ==
    ASSUME schema \in Schemas, ResolvedIn(Positions), NEW p \in Positions, Ending(p)
    PROVE  /\ p \in Followed(p) /\ Followed(p) \subseteq Positions
           /\ Terminal(p) \in Followed(p) /\ ~IsTypedefRef(Terminal(p))
           /\ \A q \in Followed(p) : ~IsTypedefRef(q) => q = Terminal(p)
           /\ \A q \in Followed(p) : IsTypedefRef(q) => links[<<q, 0>>] \in Followed(p)
<1> DEFINE N == Cardinality(Positions)
<1>1. N \in Nat /\ IsFiniteSet(Positions)
  BY PositionsFinite
<1>2. PICK to \in [0 .. N -> Positions] :
              /\ to[0] = p
              /\ \A n \in 1 .. N : to[n] = NextFollowed(to[n - 1])
              /\ Followed(p) = {to[n] : n \in 0 .. N}
  BY FollowedIs
<1> HIDE DEF N
<1>3. ASSUME NEW n \in 0 .. (N - 1) PROVE to[n + 1] = NextFollowed(to[n])
  <2>1. n + 1 \in 1 .. N /\ (n + 1) - 1 = n
    BY <1>1
  <2> QED BY <1>2, <2>1
<1>4. \E n \in 0 .. N : ~IsTypedefRef(to[n])
  <2> SUFFICES ASSUME \A n \in 0 .. N : IsTypedefRef(to[n]) PROVE FALSE
    OBVIOUS
  <2>1. PICK i, j \in 0 .. N : i < j /\ to[i] = to[j]
    BY <1>1, <1>2, Repeats DEF N
  <2> DEFINE C == {to[k] : k \in 0 .. (j - 1)}
  <2>2. ASSUME NEW k \in 0 .. (j - 1) PROVE IsTypedefRef(to[k]) /\ links[<<to[k], 0>>] \in C
    <3>1. k \in 0 .. (N - 1) /\ k \in 0 .. N
      BY <1>1
    <3>2. IsTypedefRef(to[k]) /\ to[k + 1] = links[<<to[k], 0>>]
      BY <1>3, <3>1 DEF NextFollowed
    <3>3. CASE k + 1 \in 0 .. (j - 1)
      BY <3>2, <3>3
    <3>4. CASE k + 1 = j
      BY <1>1, <2>1, <3>2, <3>4
    <3>5. k + 1 \in 0 .. (j - 1) \/ k + 1 = j
      BY <1>1
    <3> HIDE DEF C
    <3> QED BY <3>2, <3>3, <3>4, <3>5
  <2>3. C \in SUBSET Positions /\ p \in C
    BY <1>1, <1>2, <2>1
  <2>4. Looped(C)
    BY <2>2 DEF Looped
  <2> QED BY <2>3, <2>4 DEF Ending
<1>5. ASSUME NEW m \in 0 .. N, ~IsTypedefRef(to[m]), NEW n \in m .. N PROVE to[n] = to[m]
  <2> DEFINE T == {k \in m .. N : to[k] = to[m]}
  <2>1. m \in T /\ m \in Nat
    BY <1>1
  <2>2. ASSUME NEW k \in m .. (N - 1), k \in T PROVE k + 1 \in T
    <3>1. k \in 0 .. (N - 1) /\ k + 1 \in m .. N
      BY <1>1
    <3>2. to[k + 1] = to[k] /\ to[k] = to[m]
      BY <1>3, <1>5, <2>2, <3>1 DEF NextFollowed
    <3> QED BY <3>1, <3>2
  <2>3. \A k \in m .. N : k \in T
    <3> HIDE DEF T
    <3> QED BY <1>1, <2>1, <2>2, FromTo
  <2> QED BY <2>3
<1>6. ASSUME NEW i \in 0 .. N, NEW j \in 0 .. N, ~IsTypedefRef(to[i]), ~IsTypedefRef(to[j])
      PROVE  to[i] = to[j]
  <2>1. CASE i <= j
    <3>1. j \in i .. N
      BY <1>1, <2>1
    <3> QED BY <1>5, <1>6, <3>1
  <2>2. CASE j <= i
    <3>1. i \in j .. N
      BY <1>1, <2>2
    <3> QED BY <1>5, <1>6, <3>1
  <2> QED BY <1>1, <2>1, <2>2
<1>7. Followed(p) = {to[n] : n \in 0 .. N}
  BY <1>2 DEF N
<1>8. /\ Terminal(p) \in Followed(p) /\ ~IsTypedefRef(Terminal(p))
      /\ \A q \in Followed(p) : ~IsTypedefRef(q) => q = Terminal(p)
  <2>1. \E q \in Followed(p) : ~IsTypedefRef(q)
    BY <1>4, <1>7
  <2>2. Terminal(p) \in Followed(p) /\ ~IsTypedefRef(Terminal(p))
    BY <2>1 DEF Terminal
  <2> QED BY <1>6, <1>7, <2>2
<1>9. ASSUME NEW q \in Followed(p), IsTypedefRef(q) PROVE links[<<q, 0>>] \in Followed(p)
  <2>1. PICK n \in 0 .. N : q = to[n]
    BY <1>7
  <2>2. n # N
    <3>1. PICK m \in 0 .. N : ~IsTypedefRef(to[m])
      BY <1>4
    <3>2. N \in m .. N
      BY <1>1
    <3>3. to[N] = to[m]
      BY <1>5, <3>1, <3>2
    <3> QED BY <1>9, <2>1, <3>1, <3>3
  <2>3. n \in 0 .. (N - 1) /\ n + 1 \in 0 .. N
    BY <1>1, <2>2
  <2>4. links[<<q, 0>>] = to[n + 1]
    BY <1>3, <1>9, <2>1, <2>3 DEF NextFollowed
  <2> QED BY <1>7, <2>3, <2>4
<1>10. p \in Followed(p) /\ Followed(p) \subseteq Positions
  BY <1>1, <1>2, <1>7
<1> QED BY <1>8, <1>9, <1>10

\* Every definition after the first of a chain ends where the first does.
LEMMA TerminalNext ==
    ASSUME schema \in Schemas, ResolvedIn(Positions), NEW p \in Positions, Ending(p), IsTypedefRef(p)
    PROVE  Terminal(links[<<p, 0>>]) = Terminal(p)
<1> DEFINE l == links[<<p, 0>>]
           N == Cardinality(Positions)
<1>1. l \in Positions
  BY LinkIn DEF HasReference
<1>2. Ending(l)
  <2> SUFFICES ASSUME NEW C \in SUBSET Positions, Looped(C), l \in C PROVE FALSE
    BY DEF Ending
  <2>1. Looped(C \union {p}) /\ C \union {p} \in SUBSET Positions
    BY DEF Looped
  <2> QED BY <2>1 DEF Ending
<1>3. N \in Nat
  BY PositionsFinite
<1>4. PICK to \in [0 .. N -> Positions] :
              /\ to[0] = p
              /\ \A n \in 1 .. N : to[n] = NextFollowed(to[n - 1])
              /\ Followed(p) = {to[n] : n \in 0 .. N}
  BY FollowedIs
<1>5. /\ l \in Followed(l)
      /\ \A q \in Followed(l) : ~IsTypedefRef(q) => q = Terminal(l)
      /\ \A q \in Followed(l) : IsTypedefRef(q) => links[<<q, 0>>] \in Followed(l)
  BY <1>1, <1>2, TerminalIs
<1> DEFINE T == {n \in 0 .. N : to[n] \in Followed(l) \union {p}}
<1> HIDE DEF N, l
<1>6. 0 \in T
  BY <1>3, <1>4
<1>7. ASSUME NEW n \in 0 .. (N - 1), n \in T PROVE n + 1 \in T
  <2>1. n + 1 \in 1 .. N /\ (n + 1) - 1 = n
    BY <1>3
  <2>2. to[n + 1] = NextFollowed(to[n]) /\ to[n] \in Followed(l) \union {p}
    BY <1>4, <1>7, <2>1
  <2>3. NextFollowed(to[n]) \in Followed(l) \union {p}
    BY <1>5, <2>2 DEF NextFollowed, l
  <2> QED BY <2>1, <2>2, <2>3
<1>8. \A n \in 0 .. N : n \in T
  <2> HIDE DEF T
  <2> QED BY <1>3, <1>6, <1>7, FromTo
<1>9. Terminal(p) \in Followed(p) /\ ~IsTypedefRef(Terminal(p))
  BY TerminalIs
<1>10. Terminal(p) \in Followed(l)
  BY <1>4, <1>8, <1>9 DEF N
<1> QED BY <1>5, <1>9, <1>10 DEF l

-----------------------------------------------------------------------------
\* What leads where as it is written.

\* What is written names definitions of the schema.
LEMMA WrittenIn ==
    ASSUME NEW q
    PROVE  Written(q) \subseteq Positions
  BY DEF Written, Denoted

\* Beyond grows from what the definition itself names, by what is named there.
LEMMA BeyondIs ==
    ASSUME schema \in Schemas, NEW p
    PROVE  \E to \in [0 .. Cardinality(Positions) -> SUBSET Positions] :
              /\ to[0] = Written(p)
              /\ \A n \in 1 .. Cardinality(Positions) :
                    to[n] = to[n - 1] \union UNION {Written(q) : q \in to[n - 1]}
              /\ Beyond(p) = to[Cardinality(Positions)]
<1> DEFINE N == Cardinality(Positions)
           g == [S \in SUBSET Positions |-> S \union UNION {Written(q) : q \in S}]
           Defines(f) == f = [n \in 0 .. N |-> IF n = 0 THEN Written(p)
                                               ELSE f[n - 1] \union UNION {Written(q) : q \in f[n - 1]}]
           to == CHOOSE f : Defines(f)
<1>1. N \in Nat
  BY PositionsFinite
<1>2. g \in [SUBSET Positions -> SUBSET Positions]
  BY WrittenIn
<1>3. PICK f : f \in [0 .. N -> SUBSET Positions] /\ f[0] = Written(p) /\ \A n \in 1 .. N : f[n] = g[f[n - 1]]
  <2>1. \E f : IsWalk(f, SUBSET Positions, Written(p), g, N)
    <3>1. Written(p) \in SUBSET Positions
      BY WrittenIn
    <3> HIDE DEF g, N
    <3> QED BY <1>1, <1>2, <3>1, Iterates
  <2> QED BY <2>1 DEF IsWalk
<1>4. Defines(f)
  <2>1. ASSUME NEW n \in 0 .. N
        PROVE  f[n] = IF n = 0 THEN Written(p)
                      ELSE f[n - 1] \union UNION {Written(q) : q \in f[n - 1]}
    <3>1. CASE n = 0
      BY <1>3, <3>1
    <3>2. CASE n # 0
      <4>1. n \in 1 .. N /\ n - 1 \in 0 .. N
        BY <1>1, <3>2
      <4>2. f[n] = g[f[n - 1]] /\ f[n - 1] \in SUBSET Positions
        BY <1>3, <4>1
      <4> QED BY <3>2, <4>2
    <3> QED BY <3>1, <3>2
  <2> HIDE DEF N
  <2> QED BY <1>3, <2>1
<1>5. Defines(to)
  <2> HIDE DEF Defines
  <2> QED BY <1>4
<1>6. Beyond(p) = to[N]
  BY DEF Beyond
<1>7. /\ to[0] = Written(p)
      /\ \A n \in 1 .. N : to[n] = to[n - 1] \union UNION {Written(q) : q \in to[n - 1]}
  <2> HIDE DEF to, N
  <2>1. 0 \in 0 .. N /\ \A n \in 1 .. N : n \in 0 .. N /\ n # 0
    BY <1>1
  <2> QED BY <1>5, <2>1
<1>8. to \in [0 .. N -> SUBSET Positions]
  <2> DEFINE T == {n \in 0 .. N : to[n] \in SUBSET Positions}
  <2> HIDE DEF to
  <2>1. 0 \in T
    BY <1>1, <1>7, WrittenIn
  <2>2. ASSUME NEW n \in 0 .. (N - 1), n \in T PROVE n + 1 \in T
    <3>1. n + 1 \in 1 .. N /\ (n + 1) - 1 = n
      BY <1>1
    <3>2. to[n + 1] = to[n] \union UNION {Written(q) : q \in to[n]} /\ to[n] \in SUBSET Positions
      BY <1>7, <2>2, <3>1
    <3>3. to[n + 1] \in SUBSET Positions
      BY <3>2, WrittenIn
    <3> QED BY <1>1, <3>1, <3>3
  <2>3. \A n \in 0 .. N : n \in T
    <3> HIDE DEF T, N
    <3> QED BY <1>1, <2>1, <2>2, FromTo
  <2>4. DOMAIN to = 0 .. N /\ to = [n \in DOMAIN to |-> to[n]]
    BY <1>5
  <2> QED BY <2>3, <2>4
<1> QED BY <1>6, <1>7, <1>8

\* Beyond a definition lies only what any set holds that holds what the definition
\* names and what is named in it.
LEMMA BeyondWithin ==
    ASSUME schema \in Schemas, NEW p, NEW B,
           Written(p) \subseteq B, \A q \in B : Written(q) \subseteq B
    PROVE  Beyond(p) \subseteq B
<1> DEFINE N == Cardinality(Positions)
<1>1. N \in Nat
  BY PositionsFinite
<1>2. PICK to \in [0 .. N -> SUBSET Positions] :
              /\ to[0] = Written(p)
              /\ \A n \in 1 .. N : to[n] = to[n - 1] \union UNION {Written(q) : q \in to[n - 1]}
              /\ Beyond(p) = to[N]
  BY BeyondIs
<1> DEFINE T == {n \in 0 .. N : to[n] \subseteq B}
<1> HIDE DEF N
<1>3. 0 \in T
  BY <1>1, <1>2
<1>4. ASSUME NEW n \in 0 .. (N - 1), n \in T PROVE n + 1 \in T
  <2>1. n + 1 \in 1 .. N /\ (n + 1) - 1 = n /\ n + 1 \in 0 .. N
    BY <1>1
  <2>2. to[n + 1] = to[n] \union UNION {Written(q) : q \in to[n]} /\ to[n] \subseteq B
    BY <1>2, <1>4, <2>1
  <2>3. to[n + 1] \subseteq B
    BY <2>2
  <2> QED BY <2>1, <2>3
<1>5. \A n \in 0 .. N : n \in T
  <2> HIDE DEF T
  <2> QED BY <1>1, <1>3, <1>4, FromTo
<1> QED BY <1>1, <1>2, <1>5

\* Beyond a definition lies all that is named there: in as many steps as there are
\* definitions nothing more is found.
Closed(S) == \A q \in S : Written(q) \subseteq S

\* What lies beyond a definition has what it names and what is named there.
LEMMA BeyondClosed ==
    ASSUME schema \in Schemas, NEW p
    PROVE  Written(p) \subseteq Beyond(p) /\ Closed(Beyond(p)) /\ Beyond(p) \subseteq Positions
<1> DEFINE N == Cardinality(Positions)
<1>1. N \in Nat /\ IsFiniteSet(Positions)
  BY PositionsFinite
<1>2. PICK to \in [0 .. N -> SUBSET Positions] :
              /\ to[0] = Written(p)
              /\ \A n \in 1 .. N : to[n] = to[n - 1] \union UNION {Written(q) : q \in to[n - 1]}
              /\ Beyond(p) = to[N]
  BY BeyondIs
<1> DEFINE T == {n \in 0 .. N : /\ Written(p) \subseteq to[n]
                                /\ Cardinality(to[n]) >= n \/ Closed(to[n])}
<1>3. ASSUME NEW n \in 0 .. N
      PROVE  to[n] \in SUBSET Positions /\ IsFiniteSet(to[n]) /\ Cardinality(to[n]) \in Nat
  <2>1. to[n] \in SUBSET Positions
    BY <1>2
  <2> HIDE DEF N
  <2> QED BY <1>1, <2>1, FS_Subset, FS_CardinalityType
<1>4. 0 \in T
  <2>1. 0 \in 0 .. N
    BY <1>1
  <2> QED BY <1>2, <1>3, <2>1
<1>5. ASSUME NEW n \in 0 .. (N - 1), n \in T PROVE n + 1 \in T
  <2>1. n + 1 \in 1 .. N /\ (n + 1) - 1 = n /\ n + 1 \in 0 .. N /\ n \in 0 .. N /\ n \in Nat
    BY <1>1
  <2>2. to[n + 1] = to[n] \union UNION {Written(q) : q \in to[n]} /\ Written(p) \subseteq to[n]
    BY <1>2, <1>5, <2>1
  <2>3. CASE Closed(to[n])
    <3>1. to[n + 1] = to[n]
      BY <2>2, <2>3 DEF Closed
    <3> QED BY <2>1, <2>2, <2>3, <3>1
  <2>4. CASE ~Closed(to[n])
    <3>1. to[n] \subseteq to[n + 1] /\ to[n] # to[n + 1]
      BY <2>2, <2>4 DEF Closed
    <3>2. /\ IsFiniteSet(to[n + 1]) /\ Cardinality(to[n]) \in Nat /\ Cardinality(to[n + 1]) \in Nat
      BY <1>3, <2>1
    <3>3. Cardinality(to[n]) <= Cardinality(to[n + 1]) /\ Cardinality(to[n]) # Cardinality(to[n + 1])
      <4> DEFINE a == to[n]
                 b == to[n + 1]
      <4>1. a \in SUBSET b /\ a # b /\ IsFiniteSet(b)
        BY <3>1, <3>2
      <4> HIDE DEF a, b
      <4>2. Cardinality(a) <= Cardinality(b) /\ (Cardinality(b) = Cardinality(a) => b = a)
        BY <4>1, FS_Subset
      <4> QED BY <4>1, <4>2 DEF a, b
    <3>4. Cardinality(to[n]) >= n
      BY <1>5, <2>4
    <3>5. Cardinality(to[n + 1]) >= n + 1
      BY <2>1, <3>2, <3>3, <3>4
    <3> QED BY <2>1, <2>2, <3>1, <3>5
  <2> QED BY <2>3, <2>4
<1>6. \A n \in 0 .. N : n \in T
  <2> HIDE DEF T, N
  <2> QED BY <1>1, <1>4, <1>5, FromTo
<1>7. N \in 0 .. N
  BY <1>1
<1>8. Written(p) \subseteq Beyond(p) /\ (Cardinality(Beyond(p)) >= N \/ Closed(Beyond(p)))
  BY <1>2, <1>6, <1>7
<1>9. Beyond(p) \in SUBSET Positions /\ Cardinality(Beyond(p)) \in Nat
  BY <1>2, <1>3, <1>7
<1>10. CASE Cardinality(Beyond(p)) >= N
  <2>1. Cardinality(Beyond(p)) <= Cardinality(Positions)
        /\ (Cardinality(Positions) = Cardinality(Beyond(p)) => Positions = Beyond(p))
    BY <1>1, <1>9, FS_Subset
  <2>2. Beyond(p) = Positions
    <3> HIDE DEF T
    <3> QED BY <1>1, <1>9, <1>10, <2>1
  <2> QED BY <1>8, <2>2, WrittenIn DEF Closed
<1> QED BY <1>8, <1>9, <1>10

\* A reference is resolved to the one definition that has its name, if there is one.
LEMMA ResolveFinds ==
    ASSUME schema \in Schemas, NamesAreTold, NEW place \in AllPlaces
    PROVE  Denoted(place) = {Resolve(Reference(place))} \ {Nil}
<1> DEFINE c == Split[Reference(place)]
           n == Search(schema, c[1])
           k == Search(schema[n].defs, c[2])
           Space(q) == IF c[1] = NoName THEN q[1] = place[1][1] ELSE schema[q[1]].name = c[1]
<1>1. /\ c[2] # NoName
      /\ c[1] = NoName => place[1][1] = 1
      /\ \A m \in DOMAIN schema : <<c[1], schema[m].name>> \notin NamePrefixes
      /\ \A p \in Positions : <<c[2], Def(p).name>> \notin NamePrefixes
  BY DEF NamesAreTold
<1>2. Denoted(place) = {q \in Positions : Def(q).name = c[2] /\ Space(q)}
  BY DEF Denoted
<1>3. Resolve(Reference(place)) = IF n = 0 THEN Nil ELSE IF k = 0 THEN Nil ELSE <<n, k>>
  BY DEF Resolve
<1>4. Len(schema) \in Nat /\ DOMAIN schema = 1 .. Len(schema)
  BY Lists
<1>5. place[1] \in Positions
  BY InPlaces
<1>6. \/ n = 0 /\ \A m \in DOMAIN schema : ~Finds(c[1], schema[m].name)
      \/ /\ n \in DOMAIN schema /\ Finds(c[1], schema[n].name)
         /\ \A m \in DOMAIN schema : Finds(c[1], schema[m].name) => n <= m
  BY <1>4, SearchFinds
<1>7. ASSUME n # 0
      PROVE  \/ k = 0 /\ \A l \in DOMAIN schema[n].defs : ~Finds(c[2], schema[n].defs[l].name)
             \/ k \in DOMAIN schema[n].defs /\ Finds(c[2], schema[n].defs[k].name)
  <2> HIDE DEF n, c
  <2>1. Len(schema[n].defs) \in Nat /\ DOMAIN schema[n].defs = 1 .. Len(schema[n].defs)
    BY <1>6, <1>7, Lists
  <2> QED BY <2>1, SearchFinds
<1>8. \A q \in Positions : q[1] \in DOMAIN schema /\ q[2] \in DOMAIN schema[q[1]].defs /\ q = <<q[1], q[2]>>
  BY InPositions
<1> HIDE DEF c, n, k
<1>9. ASSUME NEW q \in Positions PROVE Space(q) <=> n # 0 /\ q[1] = n
  <2>1. CASE c[1] = NoName
    <3>1. Finds(c[1], schema[1].name) /\ 1 \in DOMAIN schema
      BY <1>1, <1>5, <1>8, <2>1 DEF Finds
    <3>2. n = 1
      BY <1>4, <1>6, <3>1
    <3> QED BY <1>1, <2>1, <3>2
  <2>2. CASE c[1] # NoName
    <3>1. \A m \in DOMAIN schema : Finds(c[1], schema[m].name) <=> c[1] = schema[m].name
      BY <1>1, <2>2 DEF Finds
    <3>2. \A m, l \in DOMAIN schema : schema[m].name = schema[l].name => m = l
      BY DEF NamesAreTold
    <3>3. 0 \notin DOMAIN schema
      BY <1>4
    <3> QED BY <1>6, <1>8, <2>2, <3>1, <3>2, <3>3
  <2> QED BY <2>1, <2>2
<1>10. ASSUME NEW q \in Positions, n # 0, q[1] = n PROVE Def(q).name = c[2] <=> k # 0 /\ q[2] = k
  <2>1. \A l \in DOMAIN schema[n].defs : <<n, l>> \in Positions /\ Def(<<n, l>>) = schema[n].defs[l]
    BY <1>8, <1>10, InPositions DEF Def
  <2>2. \A l \in DOMAIN schema[n].defs : Finds(c[2], schema[n].defs[l].name) <=> c[2] = schema[n].defs[l].name
    BY <1>1, <2>1 DEF Finds
  <2>3. q[2] \in DOMAIN schema[n].defs /\ q = <<n, q[2]>>
    BY <1>8, <1>10
  <2>4. ASSUME NEW l \in DOMAIN schema[n].defs, schema[n].defs[l].name = Def(q).name PROVE q = <<n, l>>
    <3>1. <<n, l>>[1] = q[1]
      BY <1>10
    <3>2. \A o, p \in Positions : o[1] = p[1] /\ Def(o).name = Def(p).name => o = p
      BY DEF NamesAreTold
    <3>3. <<n, l>> \in Positions /\ Def(<<n, l>>).name = Def(q).name
      BY <2>1, <2>4
    <3> QED BY <3>1, <3>2, <3>3
  <2>5. 0 \notin DOMAIN schema[n].defs
    BY <1>8, <1>10, Lists
  <2>6. Def(q) = schema[n].defs[q[2]]
    BY <2>1, <2>3
  <2>7. CASE k = 0
    BY <1>7, <1>10, <2>2, <2>3, <2>5, <2>6, <2>7
  <2>8. CASE k # 0
    <3>1. k \in DOMAIN schema[n].defs /\ schema[n].defs[k].name = c[2]
      BY <1>7, <1>10, <2>2, <2>8
    <3>2. ASSUME Def(q).name = c[2] PROVE q[2] = k
      BY <2>3, <2>4, <3>1, <3>2
    <3> QED BY <2>6, <2>8, <3>1, <3>2
  <2> QED BY <2>7, <2>8
<1>11. CASE n = 0
  BY <1>2, <1>3, <1>9, <1>11
<1>12. CASE n # 0 /\ k = 0
  BY <1>2, <1>3, <1>9, <1>10, <1>12
<1>13. CASE n # 0 /\ k # 0
  <2>1. <<n, k>> \in Positions
    BY <1>6, <1>7, <1>13, InPositions
  <2>2. ASSUME NEW q \in Positions PROVE Def(q).name = c[2] /\ Space(q) <=> q = <<n, k>>
    <3>1. Def(q).name = c[2] /\ Space(q) <=> q[1] = n /\ q[2] = k
      BY <1>9, <1>10, <1>13
    <3> QED BY <1>8, <3>1
  <2>3. <<n, k>> # Nil
    BY <1>13 DEF Nil
  <2> QED BY <1>2, <1>3, <1>13, <2>1, <2>2, <2>3
<1> QED BY <1>11, <1>12, <1>13

-----------------------------------------------------------------------------
\* What depends on the schema and its pointers only stays as it is while they do.

\* Operators over the schema alone have the same value after a step that keeps the
\* schema.
LEMMA SchemaFrame ==
    ASSUME schema' = schema
    PROVE  /\ Positions' = Positions /\ AllPlaces' = AllPlaces /\ Groups' = Groups
           /\ MaxSupers' = MaxSupers /\ FirstDefinition' = FirstDefinition /\ Walks' = Walks
           /\ \A d : After(d)' = After(d) /\ Passed(d)' = Passed(d) /\ Def(d)' = Def(d)
           /\ \A p : Places(p)' = Places(p) /\ HasReference(p, 0)' = HasReference(p, 0)
           /\ \A r : Resolve(r)' = Resolve(r)
           /\ \A place : Reference(place)' = Reference(place)
<1>1. \A n : DefinitionFrom(n)' = DefinitionFrom(n)
  BY DEF DefinitionFrom
<1>2. Positions' = Positions /\ \A d : Def(d)' = Def(d)
  BY DEF Positions, Def
<1>3. FirstDefinition' = FirstDefinition /\ \A d : After(d)' = After(d) /\ Passed(d)' = Passed(d)
  BY <1>1, <1>2 DEF FirstDefinition, After, Passed, Before
<1>4. Groups' = Groups /\ MaxSupers' = MaxSupers /\ Walks' = Walks
  BY <1>2 DEF Groups, MaxSupers, Walks, Is
<1>5. \A p : \A k : HasReference(p, k)' = HasReference(p, k)
  BY <1>2 DEF HasReference, IsTypedefRef, Is, Ref
<1>6. AllPlaces' = AllPlaces /\ \A p : Places(p)' = Places(p)
  BY <1>2, <1>5 DEF AllPlaces, Places
<1>7. \A place : Reference(place)' = Reference(place)
  BY <1>2 DEF Reference
<1>8. \A r : Resolve(r)' = Resolve(r)
  BY DEF Resolve, Search
<1> QED BY <1>2, <1>3, <1>4, <1>5, <1>6, <1>7, <1>8

\* So have the walks along its pointers after a step that keeps these too.
LEMMA FollowedFrame ==
    ASSUME schema' = schema, links' = links
    PROVE  \A p : /\ IsTypedefRef(p)' = IsTypedefRef(p) /\ Terminal(p)' = Terminal(p)
                  /\ BySequence(p)' = BySequence(p) /\ ByDynamic(p)' = ByDynamic(p)
<1>1. Positions' = Positions /\ \A p : Def(p)' = Def(p)
  BY SchemaFrame
<1>2. \A p : IsTypedefRef(p)' = IsTypedefRef(p)
  BY <1>1 DEF IsTypedefRef, Is, Ref
<1>3. \A p : Followed(p)' = Followed(p)
  <2> TAKE p
  <2>1. Cardinality(Positions)' = Cardinality(Positions)
    BY <1>1
  <2> QED BY <1>2, <2>1 DEF Followed
<1> QED BY <1>1, <1>2, <1>3 DEF Terminal, BySequence, ByDynamic

\* Operators over the schema and its pointers have the same value after a step that
\* keeps both.
LEMMA LinksFrame ==
    ASSUME schema' = schema, links' = links
    PROVE  /\ \A p : Ending(p)' = Ending(p) /\ Clean(p)' = Clean(p) /\ Tested(p)' = Tested(p)
           /\ \A D : ResolvedIn(D)' = ResolvedIn(D) /\ Looped(D)' = Looped(D) /\ Ring(D)' = Ring(D)
           /\ \A s : Line(s)' = Line(s)
           /\ \A w : Exhausted(w)' = Exhausted(w)
           /\ \A g, w : GivenApart(g, w)' = GivenApart(g, w)
<1>1. /\ Positions' = Positions /\ AllPlaces' = AllPlaces /\ Groups' = Groups
      /\ \A p : Def(p)' = Def(p) /\ HasReference(p, 0)' = HasReference(p, 0)
      /\ \A r : Resolve(r)' = Resolve(r)
      /\ \A place : Reference(place)' = Reference(place)
  BY SchemaFrame
<1>2. \A p : IsTypedefRef(p)' = IsTypedefRef(p)
  BY FollowedFrame
<1>4. \A p : Terminal(p)' = Terminal(p) /\ BySequence(p)' = BySequence(p) /\ ByDynamic(p)' = ByDynamic(p)
  BY FollowedFrame
<1>5. \A p : Parent(p)' = Parent(p) /\ Clean(p)' = Clean(p)
  BY <1>1, <1>4 DEF Parent, Clean
<1>6. \A C : Looped(C)' = Looped(C) /\ Ring(C)' = Ring(C)
  BY <1>1, <1>2, <1>5 DEF Looped, Ring
<1>7. \A p : Ending(p)' = Ending(p)
  BY <1>1, <1>6 DEF Ending
<1>8. \A g, A : Inherited(g, A)' = Inherited(g, A) /\ Apart(g, A)' = Apart(g, A)
  BY <1>1, <1>5 DEF Inherited, Apart, SameName, FieldName, FieldsOf
<1>9. \A p : Tested(p)' = Tested(p)
  BY <1>1, <1>5, <1>8 DEF Tested
<1>10. \A D : ResolvedIn(D)' = ResolvedIn(D)
  BY <1>1 DEF ResolvedIn
<1>11. \A s : Line(s)' = Line(s)
  BY <1>1, <1>5 DEF Line
<1>12. \A w : Exhausted(w)' = Exhausted(w)
  BY <1>1 DEF Exhausted, Left
<1>13. \A g, w : GivenApart(g, w)' = GivenApart(g, w)
  BY <1>1 DEF GivenApart, SameName, FieldName, FieldsOf
<1> QED BY <1>5, <1>6, <1>7, <1>9, <1>10, <1>11, <1>12, <1>13

\* A loop over the definitions goes on to the next one.
LEMMA Advances ==
    ASSUME schema \in Schemas, def \in Positions, iter \in Positions \union {Nil},
           iter = After(def) \/ (def = FirstDefinition /\ iter = FirstDefinition),
           NextDefinition
    PROVE  /\ def' \in Positions \union {Nil} /\ iter' \in Positions \union {Nil}
           /\ iter' = After(def') /\ Passed(def') \subseteq Passed(def) \union {def}
<1>1. def' = iter /\ iter' = After(iter)
  BY DEF NextDefinition
<1>2. After(iter) \in Positions \union {Nil}
  <2>1. After(Nil) = Nil
    BY DEF After
  <2> QED BY <2>1, AfterPasses
<1>3. CASE iter = After(def)
  BY <1>1, <1>2, <1>3, AfterPasses
<1>4. CASE iter = FirstDefinition
  BY <1>1, <1>2, <1>4, FirstPasses
<1> QED BY <1>1, <1>2, <1>3, <1>4

-----------------------------------------------------------------------------
\* The invariant, action by action.

\* A field iterator has one level for each group it is given and stands at the first
\* fields.
LEMMA IteratorType ==
    ASSUME NEW groups \in Seq(Positions)
    PROVE  /\ FieldIterator(groups) \in Walks
           /\ FieldIterator(groups).index = Len(groups)
           /\ Len(FieldIterator(groups).stack) = Len(groups)
           /\ \A i \in DOMAIN groups : FieldIterator(groups).stack[i] = <<groups[i], 1>>
<1> DEFINE stack == [i \in DOMAIN groups |-> <<groups[i], 1>>]
<1>1. stack \in Seq(Positions \X (Nat \ {0})) /\ Len(stack) = Len(groups) /\ DOMAIN stack = DOMAIN groups
  OBVIOUS
<1>2. FieldIterator(groups) = [stack |-> stack, index |-> Len(groups)]
  BY DEF FieldIterator
<1> HIDE DEF stack
<1>3. FieldIterator(groups) \in Walks
  BY <1>1, <1>2 DEF Walks
<1> QED BY <1>1, <1>2, <1>3 DEF stack

\* The invariant holds of a schema whose resolution begins.
LEMMA InitOK == Init => IInv
<1> SUFFICES ASSUME Init PROVE IInv
  OBVIOUS
<1> USE DEF Init
<1>1. schema \in Schemas
  OBVIOUS
<1>2. FirstDefinition \in Positions \union {Nil} /\ Passed(FirstDefinition) = {}
  BY <1>1, FirstPasses
<1>3. MaxSupers \in Nat /\ MaxSupers >= 1
  BY <1>1, PositionsFinite DEF MaxSupers
<1>4. <<>> \in Seq(Positions) /\ <<>> \in Seq(Groups) /\ Len(<<>>) = 0 /\ DOMAIN <<>> = {}
  OBVIOUS
<1>5. walk \in Walks /\ walk.index = 0 /\ Len(walk.stack) = 0
  BY <1>4, IteratorType
<1>6. TypeOK
  <2>1. links \in [AllPlaces -> Positions \union {Nil}]
    OBVIOUS
  <2>2. Len(supers) <= MaxSupers /\ \A i \in DOMAIN supers : supers[i] \in Groups
    BY <1>3, <1>4
  <2>3. Len(walk.stack) <= MaxSupers /\ walk.index <= Len(walk.stack)
    BY <1>3, <1>5
  <2> QED BY <1>1, <1>2, <2>1, <2>2, <2>3 DEF TypeOK
<1>7. ScanOK
  BY DEF ScanOK
<1>8. LinksOK
  BY <1>2 DEF LinksOK, ResolvedIn
<1>9. TypedefsOK /\ GroupsOK
  BY DEF TypedefsOK, GroupsOK, Accepted
<1>10. CountOK /\ WalkOK
  BY <1>4, <1>5 DEF CountOK, WalkOK, Walking
<1> QED BY <1>6, <1>7, <1>8, <1>9, <1>10 DEF IInv

\* resolveDefinitions adds the definition it is at to those that are resolved, or
\* refuses the schema.
LEMMA ResolveDefinitionKeeps == IInv /\ ResolveDefinition => IInv'
<1> SUFFICES ASSUME IInv, ResolveDefinition PROVE IInv'
  OBVIOUS
<1>1. /\ schema \in Schemas /\ def \in Positions /\ iter \in Positions \union {Nil}
      /\ links \in [AllPlaces -> Positions \union {Nil}]
  BY DEF IInv, TypeOK, ResolveDefinition
<1>2. /\ at = "resolve" /\ schema' = schema
      /\ UNCHANGED <<slow, fast, dynamic, sequence, supers, walk, asked, out>>
      /\ links' = [place \in AllPlaces |->
                    IF place[1] = def THEN Resolve(Reference(place)) ELSE links[place]]
  BY DEF ResolveDefinition, In, pointers, request
<1>3. \/ at' = "refused" /\ errors' = {"unresolved"} /\ UNCHANGED <<def, iter>>
      \/ /\ NextDefinition /\ UNCHANGED <<at, errors>>
         /\ \A place \in Places(def) : links'[place] # Nil
  BY DEF ResolveDefinition, Refuse
<1>4. Positions' = Positions /\ AllPlaces' = AllPlaces /\ Groups' = Groups
      /\ MaxSupers' = MaxSupers /\ Walks' = Walks
      /\ FirstDefinition' = FirstDefinition
      /\ (\A d : After(d)' = After(d) /\ Passed(d)' = Passed(d))
      /\ (\A r : Resolve(r)' = Resolve(r))
      /\ (\A place : Reference(place)' = Reference(place))
  BY <1>2, SchemaFrame
<1>5. iter = After(def) \/ (def = FirstDefinition /\ iter = FirstDefinition)
  BY <1>2 DEF IInv, ScanOK, Scanning
<1>6. \/ def' = def /\ iter' = iter /\ at' = "refused"
      \/ /\ def' \in Positions \union {Nil} /\ iter' \in Positions \union {Nil}
         /\ iter' = After(def') /\ Passed(def') \subseteq Passed(def) \union {def}
         /\ at' = "resolve"
  BY <1>1, <1>2, <1>3, <1>5, Advances
<1>7. links' \in [AllPlaces -> Positions \union {Nil}]
  <2>1. \A place \in AllPlaces : links[place] \in Positions \union {Nil}
    BY <1>1
  <2>2. \A place \in AllPlaces : Resolve(Reference(place)) \in Positions \union {Nil}
    BY <1>1, ResolveType
  <2> QED BY <1>2, <2>1, <2>2
<1>8. TypeOK'
  <2>1. def' \in Positions \union {Nil} /\ iter' \in Positions \union {Nil}
    BY <1>1, <1>6
  <2>2. at' \in {"resolve", "refused"} /\ errors' \in {errors, {"unresolved"}}
    BY <1>2, <1>3
  <2> QED BY <1>1, <1>2, <1>4, <1>7, <2>1, <2>2 DEF IInv, TypeOK
<1>9. ScanOK'
  BY <1>4, <1>6 DEF ScanOK, Scanning
<1>10. LinksOK'
  <2>1. CASE at' = "refused"
    BY <2>1 DEF LinksOK
  <2>2. CASE at' # "refused"
    <3>1. ASSUME NEW place \in AllPlaces, place[1] \in Passed(def')
          PROVE  links'[place] = Resolve(Reference(place)) /\ links'[place] \in Positions
      <4>1. CASE place[1] = def
        <5>1. place \in Places(def)
          BY <4>1, InPlaces
        <5>2. links'[place] # Nil
          BY <1>2, <1>3, <2>2, <5>1
        <5>3. links'[place] = Resolve(Reference(place))
          BY <1>2, <4>1
        <5> QED BY <1>7, <5>2, <5>3
      <4>2. CASE place[1] # def
        <5>1. place[1] \in Passed(def)
          BY <1>6, <2>2, <3>1, <4>2
        <5>2. links'[place] = links[place]
          BY <1>2, <4>2
        <5>3. ResolvedIn(Passed(def))
          BY <1>2 DEF IInv, LinksOK
        <5> QED BY <5>1, <5>2, <5>3 DEF ResolvedIn
      <4> QED BY <4>1, <4>2
    <3>2. ResolvedIn(Passed(def))'
      BY <1>4, <3>1 DEF ResolvedIn
    <3> QED BY <1>6, <2>2, <3>2 DEF LinksOK
  <2> QED BY <2>1, <2>2
<1>11. TypedefsOK' /\ GroupsOK'
  BY <1>6 DEF TypedefsOK, GroupsOK, Accepted
<1>12. CountOK' /\ WalkOK'
  BY <1>2, <1>4, <1>6 DEF IInv, CountOK, WalkOK, Walking
<1> QED BY <1>8, <1>9, <1>10, <1>11, <1>12 DEF IInv

\* What a step that leaves the schema and the pointers alone finds.
LEMMA Given ==
    ASSUME IInv, schema' = schema, links' = links
    PROVE  /\ schema \in Schemas /\ links \in [AllPlaces -> Positions \union {Nil}]
           /\ def \in Positions \union {Nil} /\ iter \in Positions \union {Nil}
           /\ Positions' = Positions /\ AllPlaces' = AllPlaces /\ Groups' = Groups
           /\ MaxSupers' = MaxSupers /\ Walks' = Walks /\ FirstDefinition' = FirstDefinition
           /\ \A d : After(d)' = After(d) /\ Passed(d)' = Passed(d)
           /\ MaxSupers \in Nat /\ MaxSupers >= 1
<1>1. /\ schema \in Schemas /\ links \in [AllPlaces -> Positions \union {Nil}]
      /\ def \in Positions \union {Nil} /\ iter \in Positions \union {Nil}
  BY DEF IInv, TypeOK
<1>2. MaxSupers \in Nat /\ MaxSupers >= 1
  BY <1>1, PositionsFinite DEF MaxSupers
<1> QED BY <1>1, <1>2, SchemaFrame

\* The end of a loop over the definitions.
LoopOver(from, to) == Loop(from, to) /\ <<from, to>> \in {<<"resolve", "reference">>, <<"reference", "super">>, <<"super", "schema">>}

\* When a loop over the definitions is over, what it has found out of those passed is
\* so of all.
LEMMA LoopKeeps == ASSUME NEW from, NEW to, IInv, LoopOver(from, to) PROVE IInv'
<1>1. /\ at = from /\ at' = to /\ def = Nil /\ def' = FirstDefinition /\ iter' = FirstDefinition
      /\ schema' = schema /\ links' = links
      /\ UNCHANGED <<slow, fast, dynamic, sequence, errors, supers, walk, asked, out>>
  BY DEF LoopOver, Loop, In, Restart, pointers, request
<1>2. \/ at = "resolve" /\ at' = "reference"
      \/ at = "reference" /\ at' = "super"
      \/ at = "super" /\ at' = "schema"
  BY <1>1 DEF LoopOver
<1>3. /\ schema \in Schemas /\ links \in [AllPlaces -> Positions \union {Nil}]
      /\ def \in Positions \union {Nil} /\ iter \in Positions \union {Nil}
      /\ Positions' = Positions /\ AllPlaces' = AllPlaces /\ Groups' = Groups
      /\ MaxSupers' = MaxSupers /\ Walks' = Walks /\ FirstDefinition' = FirstDefinition
      /\ \A d : After(d)' = After(d) /\ Passed(d)' = Passed(d)
  BY <1>1, Given
<1>4. FirstDefinition \in Positions \union {Nil} /\ Passed(FirstDefinition) = {} /\ Passed(Nil) = Positions
  BY <1>3, FirstPasses DEF Passed
<1>5. TypeOK'
  BY <1>1, <1>2, <1>3, <1>4 DEF IInv, TypeOK
<1>6. ScanOK'
  BY <1>1, <1>3 DEF ScanOK
<1>7. LinksOK'
  <2>1. ResolvedIn(Positions)
    BY <1>1, <1>2, <1>4 DEF IInv, LinksOK
  <2>2. ResolvedIn(Positions)' = ResolvedIn(Positions)
    BY <1>1, <1>3, LinksFrame
  <2> QED BY <1>2, <2>1, <2>2 DEF LinksOK
<1>8. TypedefsOK'
  <2>1. \A p : Ending(p)' = Ending(p)
    BY <1>1, LinksFrame
  <2>2. at \in {"reference", "super"} => \A p \in Positions : Ending(p)
    BY <1>1, <1>2, <1>4 DEF IInv, TypedefsOK
  <2> QED BY <1>1, <1>2, <1>3, <1>4, <2>1, <2>2 DEF TypedefsOK, Accepted
<1>9. GroupsOK'
  <2>1. \A p : Tested(p)' = Tested(p)
    BY <1>1, LinksFrame
  <2>2. at = "super" => \A g \in Groups : Tested(g)
    BY <1>1, <1>4 DEF IInv, GroupsOK, Groups
  <2> QED BY <1>1, <1>2, <1>3, <1>4, <2>1, <2>2 DEF GroupsOK, Accepted
<1>10. CountOK' /\ WalkOK'
  BY <1>1, <1>2, <1>3 DEF IInv, CountOK, WalkOK, Walking
<1> QED BY <1>5, <1>6, <1>7, <1>8, <1>9, <1>10 DEF IInv

\* testReferenceConstraint passes what is no typedef, and starts at a typedef with
\* both pointers on it.
LEMMA TestReferenceKeeps == IInv /\ TestReference => IInv'
<1> SUFFICES ASSUME IInv, TestReference PROVE IInv'
  OBVIOUS
<1>1. /\ at = "reference" /\ schema' = schema /\ links' = links /\ def # Nil
      /\ UNCHANGED <<errors, supers, walk, asked, out>>
  BY DEF TestReference, In, request
<1>2. \/ /\ Is(def, "typedef") /\ at' = "typedef" /\ UNCHANGED <<def, iter>>
         /\ slow' = def /\ fast' = def /\ dynamic' = FALSE /\ sequence' = FALSE
      \/ /\ ~Is(def, "typedef") /\ NextDefinition
         /\ UNCHANGED <<at, slow, fast, dynamic, sequence>>
  BY DEF TestReference, pointers
<1>3. /\ schema \in Schemas /\ links \in [AllPlaces -> Positions \union {Nil}]
      /\ def \in Positions \union {Nil} /\ iter \in Positions \union {Nil}
      /\ Positions' = Positions /\ AllPlaces' = AllPlaces /\ Groups' = Groups
      /\ MaxSupers' = MaxSupers /\ Walks' = Walks /\ FirstDefinition' = FirstDefinition
      /\ \A d : After(d)' = After(d) /\ Passed(d)' = Passed(d)
  BY <1>1, Given
<1>4. def \in Positions
  BY <1>1, <1>3
<1>5. iter = After(def) \/ (def = FirstDefinition /\ iter = FirstDefinition)
  BY <1>1 DEF IInv, ScanOK, Scanning
<1>6. \/ /\ Is(def, "typedef") /\ at' = "typedef" /\ def' = def /\ iter' = iter /\ slow' = def
      \/ /\ ~Is(def, "typedef") /\ at' = "reference"
         /\ def' \in Positions \union {Nil} /\ iter' \in Positions \union {Nil}
         /\ iter' = After(def') /\ Passed(def') \subseteq Passed(def) \union {def}
  BY <1>1, <1>2, <1>3, <1>4, <1>5, Advances
<1>7. TypeOK'
  BY <1>1, <1>2, <1>3, <1>4, <1>6 DEF IInv, TypeOK
<1>8. ScanOK'
  BY <1>3, <1>5, <1>6 DEF ScanOK
<1>9. LinksOK'
  <2>1. ResolvedIn(Positions)' = ResolvedIn(Positions) /\ ResolvedIn(Positions)
    BY <1>1, <1>3, LinksFrame DEF IInv, LinksOK
  <2> QED BY <1>6, <2>1 DEF LinksOK
<1>10. TypedefsOK'
  <2>1. (\A p : Ending(p)' = Ending(p)) /\ \A C : Looped(C)' = Looped(C)
    BY <1>1, LinksFrame
  <2>2. \A p \in Passed(def) : Ending(p)
    BY <1>1 DEF IInv, TypedefsOK
  <2>3. ASSUME ~Is(def, "typedef") PROVE Ending(def)
    BY <2>3 DEF Ending, Looped, IsTypedefRef
  <2> QED BY <1>3, <1>4, <1>6, <2>1, <2>2, <2>3 DEF TypedefsOK, Accepted
<1>11. GroupsOK' /\ CountOK' /\ WalkOK'
  BY <1>1, <1>3, <1>6 DEF IInv, GroupsOK, CountOK, WalkOK, Walking, Accepted
<1> QED BY <1>7, <1>8, <1>9, <1>10, <1>11 DEF IInv

\* A turn of its loop moves along the chain of the typedef; where the chain ends, the
\* typedef belongs to no ring of typedefs.
LEMMA FollowTypedefKeeps == IInv /\ FollowTypedef => IInv'
<1> SUFFICES ASSUME IInv, FollowTypedef PROVE IInv'
  OBVIOUS
<1>1. /\ at = "typedef" /\ schema' = schema /\ links' = links
      /\ UNCHANGED <<supers, walk, asked, out>>
  BY DEF FollowTypedef, In, request
<1>2. \/ /\ at' = "stopped" /\ UNCHANGED <<errors, def, iter, slow, fast, dynamic, sequence>>
      \/ /\ IsTypedefRef(slow) /\ NamesTypedef(slow) /\ slow' = links[<<slow, 0>>]
         /\ fast' = Moved(Moved(fast))
         /\ dynamic' = (dynamic \/ Def(slow).type.dyn)
         /\ sequence' = (sequence \/ Def(slow).type.seq)
         /\ at' \in {"typedef", "refused"} /\ UNCHANGED <<def, iter>>
      \/ /\ IsTypedefRef(slow) /\ ~NamesTypedef(slow)
         /\ \/ at' = "refused" /\ UNCHANGED <<def, iter>>
            \/ at' = "reference" /\ NextDefinition
         /\ UNCHANGED <<slow, fast, dynamic, sequence>>
  <2>1. slow # Nil
    BY <1>1, PositionTypes DEF IInv, TypedefsOK, TypeOK
  <2> QED BY <1>1, <2>1 DEF FollowTypedef, Refuse, Stop, pointers, Readable
<1>3. /\ schema \in Schemas /\ links \in [AllPlaces -> Positions \union {Nil}]
      /\ def \in Positions \union {Nil} /\ iter \in Positions \union {Nil}
      /\ Positions' = Positions /\ AllPlaces' = AllPlaces /\ Groups' = Groups
      /\ MaxSupers' = MaxSupers /\ Walks' = Walks /\ FirstDefinition' = FirstDefinition
      /\ \A d : After(d)' = After(d) /\ Passed(d)' = Passed(d)
  BY <1>1, Given
<1>4. def \in Positions /\ slow \in Positions /\ ResolvedIn(Positions)
  BY <1>1 DEF IInv, TypedefsOK, LinksOK
<1>5. errors' \subseteq {"unresolved", "double dynamic", "double sequence", "dynamic type", "cycle",
                         "not a group", "own supergroup", "sequence", "dynamic", "shadowed"}
  BY DEF FollowTypedef, Refuse, Stop, IInv, TypeOK
<1>6. iter = After(def) \/ (def = FirstDefinition /\ iter = FirstDefinition)
  BY <1>1 DEF IInv, ScanOK, Scanning
<1>7. IsTypedefRef(slow) => links[<<slow, 0>>] \in Positions
  BY <1>3, <1>4, LinkIn DEF HasReference
<1>8. fast' \in Positions \union {Nil} /\ slow' \in Positions \union {Nil}
  <2>1. fast \in Positions \union {Nil} /\ slow \in Positions \union {Nil}
    BY DEF IInv, TypeOK
  <2>2. IsTypedefRef(slow) => Moved(Moved(fast)) \in Positions \union {Nil}
    BY <1>7 DEF Moved
  <2> QED BY <1>2, <1>7, <2>1, <2>2
<1>9. {dynamic', sequence'} \subseteq BOOLEAN
  <2>1. dynamic \in BOOLEAN /\ sequence \in BOOLEAN
    BY DEF IInv, TypeOK
  <2>2. Def(slow).type.dyn \in BOOLEAN /\ Def(slow).type.seq \in BOOLEAN
    BY <1>3, <1>4, DefTypes
  <2> QED BY <1>2, <2>1, <2>2
<1>10. \/ /\ at' \in {"stopped", "refused"} /\ def' = def /\ iter' = iter
       \/ /\ at' = "typedef" /\ def' = def /\ iter' = iter /\ slow' = links[<<slow, 0>>]
          /\ IsTypedefRef(slow)
       \/ /\ at' = "reference" /\ IsTypedefRef(slow) /\ ~NamesTypedef(slow)
          /\ def' \in Positions \union {Nil} /\ iter' \in Positions \union {Nil}
          /\ iter' = After(def') /\ Passed(def') \subseteq Passed(def) \union {def}
  BY <1>2, <1>3, <1>4, <1>6, Advances
<1>11. TypeOK'
  <2>1. def' \in Positions \union {Nil} /\ iter' \in Positions \union {Nil}
    BY <1>3, <1>10
  <2> QED BY <1>1, <1>3, <1>5, <1>8, <1>9, <1>10, <2>1 DEF IInv, TypeOK
<1>12. ScanOK'
  BY <1>3, <1>6, <1>10 DEF ScanOK, Scanning
<1>13. LinksOK'
  <2>1. ResolvedIn(Positions)' = ResolvedIn(Positions)
    BY <1>1, <1>3, LinksFrame
  <2> QED BY <1>4, <1>10, <2>1 DEF LinksOK
<1>14. TypedefsOK'
  <2>1. (\A p : Ending(p)' = Ending(p)) /\ \A C : Looped(C)' = Looped(C)
    BY <1>1, LinksFrame
  <2>2. /\ \A p \in Passed(def) : Ending(p)
        /\ \A C \in SUBSET Positions : Looped(C) /\ def \in C => slow \in C
    BY <1>1 DEF IInv, TypedefsOK
  <2>3. CASE at' \in {"stopped", "refused"}
    BY <2>3 DEF TypedefsOK, Accepted
  <2>4. CASE at' = "typedef"
    <3>1. \A C \in SUBSET Positions : Looped(C) /\ slow \in C => links[<<slow, 0>>] \in C
      BY DEF Looped
    <3>2. \A C \in SUBSET Positions : Looped(C) /\ def \in C => slow' \in C
      BY <1>10, <2>2, <2>4, <3>1
    <3> QED BY <1>3, <1>4, <1>7, <1>10, <2>1, <2>2, <2>4, <3>2 DEF TypedefsOK, Accepted
  <2>5. CASE at' = "reference"
    <3>1. Ending(def)
      <4>1. \A C \in SUBSET Positions : Looped(C) => slow \notin C
        BY <1>10, <2>5 DEF Looped, NamesTypedef, IsTypedefRef
      <4> QED BY <2>2, <4>1 DEF Ending
    <3> QED BY <1>3, <1>10, <2>1, <2>2, <2>5, <3>1 DEF TypedefsOK, Accepted
  <2> QED BY <1>10, <2>3, <2>4, <2>5
<1>15. GroupsOK' /\ CountOK' /\ WalkOK'
  BY <1>1, <1>3, <1>10 DEF IInv, GroupsOK, CountOK, WalkOK, Walking, Accepted
<1> QED BY <1>11, <1>12, <1>13, <1>14, <1>15 DEF IInv

\* The group a group inherits from, where typedefs do not form loops.
LEMMA ParentIs ==
    ASSUME schema \in Schemas, ResolvedIn(Positions), \A p \in Positions : Ending(p),
           NEW g \in Positions, HasReference(g, 0)
    PROVE  links[<<g, 0>>] \in Positions /\ Parent(g) \in Positions
<1>1. links[<<g, 0>>] \in Positions
  BY LinkIn
<1> QED BY <1>1, TerminalIs DEF Parent

\* testSuperGroupReferenceConstraint lets a group pass when it has no supergroup;
\* otherwise the supergroup is a group other than itself that is reached by no
\* sequence and no dynamic reference.
LEMMA TestSuperKeeps == IInv /\ TestSuper => IInv'
<1> SUFFICES ASSUME IInv, TestSuper PROVE IInv'
  OBVIOUS
<1>1. /\ at = "super" /\ schema' = schema /\ links' = links /\ def # Nil
      /\ UNCHANGED <<slow, fast, dynamic, sequence, walk, asked, out>>
  BY DEF TestSuper, In, pointers, request
<1>2. \/ /\ ~(Is(def, "group") /\ HasReference(def, 0)) /\ NextDefinition
         /\ UNCHANGED <<at, errors, supers>>
      \/ /\ Is(def, "group") /\ HasReference(def, 0) /\ UNCHANGED <<def, iter>>
         /\ at' = "refused" /\ supers' = supers
         /\ errors' \subseteq {"not a group", "own supergroup", "sequence", "dynamic"}
      \/ /\ Is(def, "group") /\ HasReference(def, 0) /\ UNCHANGED <<def, iter>>
         /\ at' = "shadow count" /\ supers' = <<def>> /\ UNCHANGED errors
         /\ Is(Parent(def), "group")
         /\ ~BySequence(links[<<def, 0>>]) /\ ~ByDynamic(links[<<def, 0>>])
  BY DEF TestSuper, Refuse, Parent
<1>3. /\ schema \in Schemas /\ links \in [AllPlaces -> Positions \union {Nil}]
      /\ def \in Positions \union {Nil} /\ iter \in Positions \union {Nil}
      /\ Positions' = Positions /\ AllPlaces' = AllPlaces /\ Groups' = Groups
      /\ MaxSupers' = MaxSupers /\ Walks' = Walks /\ FirstDefinition' = FirstDefinition
      /\ \A d : After(d)' = After(d) /\ Passed(d)' = Passed(d)
      /\ MaxSupers \in Nat /\ MaxSupers >= 1
  BY <1>1, Given
<1>4. def \in Positions /\ ResolvedIn(Positions) /\ (\A p \in Positions : Ending(p))
      /\ \A g \in Passed(def) \intersect Groups : Tested(g)
  BY <1>1, <1>3 DEF IInv, LinksOK, TypedefsOK, GroupsOK
<1>5. iter = After(def) \/ (def = FirstDefinition /\ iter = FirstDefinition)
  BY <1>1 DEF IInv, ScanOK, Scanning
<1>6. \/ /\ def' \in Positions \union {Nil} /\ iter' \in Positions \union {Nil}
         /\ iter' = After(def') /\ Passed(def') \subseteq Passed(def) \union {def}
         /\ at' = "super" /\ (def \in Groups => ~HasReference(def, 0)) /\ supers' = supers
      \/ at' = "refused" /\ def' = def /\ iter' = iter /\ supers' = supers
      \/ at' = "shadow count" /\ def' = def /\ iter' = iter /\ supers' = <<def>>
         /\ def \in Groups /\ HasReference(def, 0) /\ Clean(def)
  <2>1. HasReference(def, 0) => Parent(def) \in Positions
    BY <1>3, <1>4, ParentIs
  <2>2. def \in Groups <=> Is(def, "group")
    BY <1>4 DEF Groups
  <2>3. HasReference(def, 0) /\ Is(Parent(def), "group") => Parent(def) \in Groups
    BY <2>1 DEF Groups
  <2>4. CASE ~(Is(def, "group") /\ HasReference(def, 0))
    BY <1>1, <1>2, <1>3, <1>4, <1>5, <2>2, <2>4, Advances
  <2>5. CASE Is(def, "group") /\ HasReference(def, 0)
    BY <1>2, <2>2, <2>3, <2>5 DEF Clean
  <2> QED BY <2>4, <2>5
<1>7. supers' \in Seq(Groups) /\ Len(supers') <= MaxSupers /\ \A i \in DOMAIN supers' : supers'[i] \in Groups
  <2>1. CASE supers' = supers
    BY <2>1 DEF IInv, TypeOK, CountOK
  <2>2. CASE supers' = <<def>> /\ def \in Groups
    <3>1. <<def>> \in Seq(Groups) /\ Len(<<def>>) = 1 /\ DOMAIN <<def>> = {1} /\ <<def>>[1] = def
      BY <2>2
    <3> QED BY <1>3, <2>2, <3>1
  <2> QED BY <1>6, <2>1, <2>2
<1>8. TypeOK'
  <2>1. def' \in Positions \union {Nil} /\ iter' \in Positions \union {Nil}
    BY <1>3, <1>6
  <2>2. errors' \subseteq {"unresolved", "double dynamic", "double sequence", "dynamic type", "cycle",
                           "not a group", "own supergroup", "sequence", "dynamic", "shadowed"}
    BY <1>2 DEF IInv, TypeOK
  <2> QED BY <1>1, <1>3, <1>6, <1>7, <2>1, <2>2 DEF IInv, TypeOK
<1>9. ScanOK'
  BY <1>3, <1>5, <1>6 DEF ScanOK, Scanning
<1>10. LinksOK'
  <2>1. ResolvedIn(Positions)' = ResolvedIn(Positions)
    BY <1>1, <1>3, LinksFrame
  <2> QED BY <1>4, <1>6, <2>1 DEF LinksOK
<1>11. TypedefsOK'
  <2>1. \A p : Ending(p)' = Ending(p)
    BY <1>1, LinksFrame
  <2> QED BY <1>3, <1>4, <1>6, <2>1 DEF TypedefsOK, Accepted
<1>12. GroupsOK'
  <2>1. \A p : Tested(p)' = Tested(p)
    BY <1>1, LinksFrame
  <2>2. ASSUME def \in Groups, ~HasReference(def, 0) PROVE Tested(def)
    <3>1. Clean(def) /\ Inherited(def, {}) /\ Apart(def, {})
      BY <2>2 DEF Clean, Inherited, Apart
    <3> QED BY <3>1 DEF Tested
  <2> QED BY <1>3, <1>4, <1>6, <2>1, <2>2 DEF GroupsOK, Accepted
<1>13. CountOK'
  <2>1. /\ \A p : Clean(p)' = Clean(p) /\ HasReference(p, 0)' = HasReference(p, 0)
        /\ \A s : Line(s)' = Line(s)
    BY <1>1, LinksFrame, SchemaFrame
  <2>2. CASE at' = "shadow count"
    <3>0. supers' = <<def>> /\ def' = def
      BY <1>6, <2>2
    <3>1. supers' # <<>> /\ supers'[1] = def' /\ Len(supers') = 1
      BY <3>0
    <3>2. Line(supers')
      BY <3>1 DEF Line
    <3> QED BY <1>3, <1>6, <1>7, <2>1, <2>2, <3>1, <3>2 DEF CountOK
  <2>3. CASE at' # "shadow count"
    BY <1>3, <1>6, <1>7, <2>3 DEF CountOK
  <2> QED BY <2>2, <2>3
<1>14. WalkOK'
  BY <1>1, <1>3, <1>6 DEF IInv, WalkOK, Walking
<1> QED BY <1>8, <1>9, <1>10, <1>11, <1>12, <1>13, <1>14 DEF IInv

\* A line with an end never comes back to its first group.
LEMMA LineEnds ==
    ASSUME NEW s \in Seq(Groups), Line(s), ~HasReference(s[Len(s)], 0), NEW i \in 2 .. Len(s)
    PROVE  s[i] # s[1]
<1> SUFFICES ASSUME s[i] = s[1] PROVE FALSE
  OBVIOUS
<1> DEFINE N == Len(s) - i
           T == {k \in 0 .. N : s[1 + k] = s[i + k]}
<1>1. N \in Nat /\ Len(s) \in Nat
  OBVIOUS
<1>2. 0 \in T
  BY <1>1
<1>3. ASSUME NEW k \in 0 .. (N - 1), k \in T PROVE k + 1 \in T
  <2>1. 1 + k \in 1 .. (Len(s) - 1) /\ i + k \in 1 .. (Len(s) - 1) /\ k + 1 \in 0 .. N
    BY <1>1
  <2>2. s[(1 + k) + 1] = Parent(s[1 + k]) /\ s[(i + k) + 1] = Parent(s[i + k])
    BY <2>1 DEF Line
  <2>3. (1 + k) + 1 = 1 + (k + 1) /\ (i + k) + 1 = i + (k + 1)
    BY <1>1
  <2>4. s[1 + (k + 1)] = s[i + (k + 1)]
    BY <1>3, <2>2, <2>3
  <2> QED BY <2>1, <2>4
<1>4. \A k \in 0 .. N : k \in T
  <2> HIDE DEF T, N
  <2> QED BY <1>1, <1>2, <1>3, FromTo
<1>5. s[1 + N] = s[Len(s)]
  <2>1. N \in 0 .. N /\ i + N = Len(s)
    BY <1>1
  <2> QED BY <1>4, <2>1
<1>6. 1 + N \in 1 .. (Len(s) - 1)
  BY <1>1
<1> QED BY <1>5, <1>6 DEF Line

\* A line longer than there are definitions has a ring at its end.
LEMMA LineInRing ==
    ASSUME schema \in Schemas, NEW s \in Seq(Groups), Line(s), Len(s) = MaxSupers
    PROVE  \E C \in SUBSET Groups : s[Len(s)] \in C /\ Ring(C)
<1> DEFINE N == Cardinality(Positions)
           f == [n \in 0 .. N |-> s[n + 1]]
<1>1. N \in Nat /\ IsFiniteSet(Positions) /\ Len(s) = N + 1
  BY PositionsFinite DEF MaxSupers
<1>2. f \in [0 .. N -> Positions]
  BY <1>1 DEF Groups
<1>3. PICK i, j \in 0 .. N : i < j /\ f[i] = f[j]
  <2> HIDE DEF f
  <2> QED BY <1>1, <1>2, Repeats DEF N
<1> HIDE DEF N
<1> DEFINE C == {s[k] : k \in (i + 1) .. j}
<1>4. s[j + 1] = s[i + 1] /\ i + 1 \in (i + 1) .. j /\ i + 1 \in Nat
  BY <1>1, <1>3
<1>5. ASSUME NEW k \in (i + 1) .. j PROVE HasReference(s[k], 0) /\ Parent(s[k]) \in C
  <2>1. k \in 1 .. (Len(s) - 1)
    BY <1>1
  <2>2. HasReference(s[k], 0) /\ Parent(s[k]) = s[k + 1]
    BY <2>1 DEF Line
  <2>3. k + 1 \in (i + 1) .. j \/ k = j
    BY <1>1
  <2>4. s[k + 1] \in C
    BY <1>4, <2>3
  <2> QED BY <2>2, <2>4
<1>6. Ring(C)
  BY <1>5 DEF Ring
<1>7. C \in SUBSET Groups
  BY <1>1
<1> DEFINE M == N + 1
           m == i + 1
           T == {k \in m .. M : s[k] \in C}
<1>8. m \in T /\ m \in Nat /\ M \in Nat
  BY <1>1, <1>4
<1>9. ASSUME NEW k \in m .. (M - 1), k \in T PROVE k + 1 \in T
  <2>1. k \in 1 .. (Len(s) - 1) /\ k + 1 \in m .. M
    BY <1>1
  <2>2. s[k + 1] = Parent(s[k])
    BY <2>1 DEF Line
  <2>3. s[k + 1] \in C
    <3> HIDE DEF C
    <3> QED BY <1>6, <1>9, <2>2 DEF Ring
  <2> QED BY <2>1, <2>3
<1>10. \A k \in m .. M : k \in T
  <2> HIDE DEF T, m, M
  <2> QED BY <1>8, <1>9, FromTo
<1>11. s[Len(s)] \in C
  BY <1>1, <1>10
<1> HIDE DEF C
<1> QED BY <1>6, <1>7, <1>11

\* A list and one entry more.
Longer(t, s, x) ==
    Len(t) = Len(s) + 1 /\ t[Len(t)] = x /\ \A i \in 1 .. Len(s) : t[i] = s[i]

\* A list to which an entry is appended.
LEMMA Appended ==
    ASSUME NEW S, NEW s \in Seq(S), NEW x \in S
    PROVE  Append(s, x) \in Seq(S) /\ Longer(Append(s, x), s, x)
  BY DEF Longer

\* The next group of the line, after which it is cut when it has all the groups there
\* are and one of them twice.
CountOver(from, to) ==
    CountSuper(from, to) /\ <<from, to>> \in {<<"shadow count", "shadow">>, <<"fields count", "fields">>}

\* numberOfSuperGroup goes along a line of groups, each the supergroup of the one
\* before, or has been cut and is in a ring that it does not leave; when it ends the
\* iterator stands at the line it has passed.
LEMMA CountKeeps == ASSUME NEW from, NEW to, IInv, CountOver(from, to) PROVE IInv'
<1> DEFINE super == Parent(Last)
<1>1. /\ at = from /\ schema' = schema /\ links' = links
      /\ UNCHANGED <<def, iter, slow, fast, dynamic, sequence, asked, out>>
  BY DEF CountOver, CountSuper, In, pointers, request
<1>2. \/ at = "shadow count" /\ to = "shadow"
      \/ at = "fields count" /\ to = "fields"
  BY <1>1 DEF CountOver
<1>3. \/ /\ ~HasReference(Last, 0) /\ at' = to /\ walk' = FieldIterator(supers)
         /\ UNCHANGED <<errors, supers>>
      \/ /\ HasReference(Last, 0) /\ Is(super, "group") /\ walk' = walk
         /\ supers' = IF Len(supers) < MaxSupers THEN Append(supers, super)
                      ELSE Append(Tail(supers), super)
         /\ UNCHANGED <<at, errors>>
      \/ at' = "stopped" /\ UNCHANGED <<errors, walk, supers>>
  BY DEF CountOver, CountSuper, Stop, Parent
<1> HIDE DEF super
<1>4. /\ schema \in Schemas /\ links \in [AllPlaces -> Positions \union {Nil}]
      /\ def \in Positions \union {Nil} /\ iter \in Positions \union {Nil}
      /\ Positions' = Positions /\ AllPlaces' = AllPlaces /\ Groups' = Groups
      /\ MaxSupers' = MaxSupers /\ Walks' = Walks /\ FirstDefinition' = FirstDefinition
      /\ \A d : After(d)' = After(d) /\ Passed(d)' = Passed(d)
      /\ MaxSupers \in Nat /\ MaxSupers >= 1
  BY <1>1, Given
<1>5. /\ ResolvedIn(Positions) /\ \A p \in Positions : Ending(p)
      /\ supers \in Seq(Groups) /\ supers # <<>> /\ Len(supers) <= MaxSupers
      /\ walk \in Walks
  BY <1>1, <1>2 DEF IInv, LinksOK, TypedefsOK, CountOK, WalkOK, TypeOK, Accepted
<1>6. Last \in Groups /\ Last \in Positions
  <2>1. Last \in Groups
    BY <1>5 DEF Last
  <2> QED BY <2>1 DEF Groups
<1>7. HasReference(Last, 0) /\ Is(super, "group") => super \in Groups
  <2>1. HasReference(Last, 0) => Parent(Last) \in Positions
    BY <1>4, <1>5, <1>6, ParentIs
  <2> QED BY <2>1 DEF Groups, super
<1>8. supers' \in Seq(Groups) /\ Len(supers') <= MaxSupers /\ supers' # <<>>
  <2>1. CASE supers' = supers
    BY <1>5, <2>1
  <2>2. CASE super \in Groups /\ supers' = Append(supers, super) /\ Len(supers) < MaxSupers
    BY <1>4, <1>5, <2>2
  <2>3. CASE super \in Groups /\ supers' = Append(Tail(supers), super) /\ ~(Len(supers) < MaxSupers)
    <3>1. Tail(supers) \in Seq(Groups) /\ Len(Tail(supers)) = Len(supers) - 1
      BY <1>5
    <3> QED BY <1>4, <1>5, <2>3, <3>1
  <2> QED BY <1>3, <1>7, <2>1, <2>2, <2>3
<1>9. /\ FieldIterator(supers) \in Walks
      /\ FieldIterator(supers).index = Len(supers)
      /\ Len(FieldIterator(supers).stack) = Len(supers)
      /\ \A i \in DOMAIN supers : FieldIterator(supers).stack[i] = <<supers[i], 1>>
  <2>1. supers \in Seq(Positions)
    BY <1>5 DEF Groups
  <2> QED BY <2>1, IteratorType
<1>10. walk' \in Walks /\ Len(walk'.stack) <= MaxSupers /\ walk'.index <= Len(walk'.stack)
  <2>1. Len(walk.stack) <= MaxSupers /\ walk.index <= Len(walk.stack)
    BY DEF IInv, TypeOK
  <2>2. Len(supers) \in Nat
    BY <1>5
  <2> QED BY <1>3, <1>5, <1>9, <2>1, <2>2
<1>11. at' \in {"stopped", "fields", "shadow"} \/ at' = at
  BY <1>2, <1>3
<1>12. TypeOK'
  <2>1. \A i \in DOMAIN supers' : supers'[i] \in Groups
    BY <1>8
  <2>2. errors' = errors
    BY <1>3
  <2> QED BY <1>1, <1>2, <1>4, <1>8, <1>10, <1>11, <2>1, <2>2 DEF IInv, TypeOK
<1>13. ScanOK'
  BY <1>1, <1>2, <1>3, <1>4 DEF IInv, ScanOK, Scanning
<1>14. LinksOK'
  <2>1. ResolvedIn(Positions)' = ResolvedIn(Positions)
    BY <1>1, <1>4, LinksFrame
  <2> QED BY <1>2, <1>5, <1>11, <2>1 DEF LinksOK
<1>15. TypedefsOK'
  <2>1. \A p : Ending(p)' = Ending(p)
    BY <1>1, LinksFrame
  <2> QED BY <1>2, <1>4, <1>5, <1>11, <2>1 DEF TypedefsOK, Accepted
<1>16. GroupsOK'
  <2>1. \A p : Tested(p)' = Tested(p)
    BY <1>1, LinksFrame
  <2>2. \/ at' \in {"shadow count", "shadow"} /\ at = "shadow count"
        \/ at' \in {"fields count", "fields"} /\ at = "fields count"
        \/ at' = "stopped"
    BY <1>2, <1>3
  <2> QED BY <1>1, <1>4, <2>1, <2>2 DEF IInv, GroupsOK, Accepted
<1>17. \/ at' \in {"shadow count", "shadow"} /\ at = "shadow count" /\ def \in Groups
          /\ HasReference(def, 0) /\ Clean(def)
       \/ at' \in {"fields count", "fields", "stopped"}
  BY <1>1, <1>2, <1>3 DEF IInv, CountOK
<1>18. at = "shadow count" =>
        \/ supers[1] = def /\ Line(supers)
        \/ \E C \in SUBSET Groups : Last \in C /\ Ring(C)
  BY DEF IInv, CountOK
<1>19. /\ \A p : Clean(p)' = Clean(p) /\ HasReference(p, 0)' = HasReference(p, 0)
       /\ \A D : Ring(D)' = Ring(D)
       /\ \A s : Line(s)' = Line(s)
       /\ \A w : Exhausted(w)' = Exhausted(w)
       /\ \A g, w : GivenApart(g, w)' = GivenApart(g, w)
  BY <1>1, LinksFrame, SchemaFrame
<1>20. CountOK'
  <2>1. ASSUME at' = "shadow count"
        PROVE  \/ supers'[1] = def /\ Line(supers')
               \/ \E C \in SUBSET Groups : supers'[Len(supers')] \in C /\ Ring(C)
    <3>1. HasReference(Last, 0) /\ super \in Groups /\ at = "shadow count"
          /\ supers' = IF Len(supers) < MaxSupers THEN Append(supers, super)
                       ELSE Append(Tail(supers), super)
      BY <1>2, <1>3, <1>7, <2>1
    <3>2. supers'[Len(supers')] = super
      <4>1. Tail(supers) \in Seq(Groups)
        BY <1>5
      <4>2. CASE supers' = Append(supers, super)
        <5>1. Longer(Append(supers, super), supers, super)
          BY <1>5, <3>1, Appended
        <5>2. Longer(supers', supers, super)
          BY <4>2, <5>1
        <5> QED BY <5>2 DEF Longer
      <4>3. CASE supers' = Append(Tail(supers), super)
        <5>1. Longer(Append(Tail(supers), super), Tail(supers), super)
          BY <3>1, <4>1, Appended
        <5>2. Longer(supers', Tail(supers), super)
          BY <4>3, <5>1
        <5> QED BY <5>2 DEF Longer
      <4> QED BY <3>1, <4>2, <4>3
    <3>3. ASSUME NEW C \in SUBSET Groups, Last \in C, Ring(C) PROVE supers'[Len(supers')] \in C
      BY <3>2, <3>3 DEF Ring, super
    <3>4. CASE supers[1] = def /\ Line(supers) /\ Len(supers) < MaxSupers
      <4>1. supers' = Append(supers, super)
        BY <3>1, <3>4
      <4>2. Len(supers') = Len(supers) + 1 /\ supers'[1] = def
            /\ \A i \in 1 .. Len(supers) : supers'[i] = supers[i]
        <5>1. Len(supers) \in Nat /\ 1 \in 1 .. Len(supers)
          BY <1>5
        <5>2. Longer(Append(supers, super), supers, super)
          BY <1>5, <3>1, Appended
        <5>3. Longer(supers', supers, super)
          BY <4>1, <5>2
        <5> QED BY <3>4, <5>1, <5>3 DEF Longer
      <4>3. ASSUME NEW i \in 1 .. (Len(supers') - 1)
            PROVE  HasReference(supers'[i], 0) /\ supers'[i + 1] = Parent(supers'[i])
        <5>1. CASE i = Len(supers)
          <6>1. Len(supers) \in Nat /\ i \in 1 .. Len(supers) /\ i + 1 = Len(supers')
            BY <1>5, <4>2, <5>1
          <6>2. supers'[i] = Last
            BY <4>2, <5>1, <6>1 DEF Last
          <6>3. supers'[i + 1] = super
            BY <3>2, <6>1
          <6> QED BY <3>1, <6>2, <6>3 DEF super
        <5>2. CASE i # Len(supers)
          <6>1. i \in 1 .. (Len(supers) - 1) /\ i \in 1 .. Len(supers) /\ i + 1 \in 1 .. Len(supers)
            BY <1>5, <4>2, <5>2
          <6> QED BY <3>4, <4>2, <6>1 DEF Line
        <5> QED BY <5>1, <5>2
      <4> QED BY <4>2, <4>3 DEF Line
    <3>5. CASE Line(supers) /\ ~(Len(supers) < MaxSupers)
      <4>1. Len(supers) = MaxSupers
        BY <1>4, <1>5, <3>5
      <4>2. PICK C \in SUBSET Groups : Last \in C /\ Ring(C)
        BY <1>4, <1>5, <3>5, <4>1, LineInRing DEF Last
      <4> QED BY <3>3, <4>2
    <3> QED BY <1>18, <3>1, <3>3, <3>4, <3>5
  <2> QED BY <1>1, <1>4, <1>8, <1>17, <1>19, <2>1 DEF CountOK, Last
<1>21. WalkOK'
  <2>1. CASE at' \notin Walking
    BY <1>4, <1>10, <2>1 DEF WalkOK, Walking
  <2>2. CASE at' \in Walking
    <3>1. ~HasReference(Last, 0) /\ at' = to /\ walk' = FieldIterator(supers) /\ supers' = supers
      BY <1>2, <1>3, <2>2 DEF Walking
    <3>2. Len(supers) \in Nat /\ Len(supers) >= 1 /\ 1 \in DOMAIN supers /\ DOMAIN supers = 1 .. Len(supers)
      BY <1>5
    <3>3. walk'.index \in 1 .. Len(walk'.stack) /\ DOMAIN walk'.stack = 1 .. Len(supers)
      <4>1. walk'.stack \in Seq(Positions \X (Nat \ {0})) /\ walk'.index = Len(walk'.stack)
        BY <1>9, <1>10, <3>1 DEF Walks
      <4> QED BY <1>9, <3>1, <3>2, <4>1
    <3>4. ASSUME at' = "shadow" PROVE supers[1] = def /\ Line(supers)
      <4>1. at = "shadow count"
        BY <1>2, <3>1, <3>4
      <4>2. ~\E C \in SUBSET Groups : Last \in C /\ Ring(C)
        BY <3>1 DEF Ring
      <4> QED BY <1>18, <4>1, <4>2
    <3>5. Exhausted(walk') /\ GivenApart(def, walk')
      BY <1>9, <3>1, <3>2, <3>3 DEF Exhausted, GivenApart
    <3>6. Last' = Last
      BY <3>1 DEF Last
    <3> QED BY <1>1, <1>4, <1>9, <1>10, <1>19, <3>1, <3>2, <3>3, <3>4, <3>5, <3>6 DEF WalkOK
  <2> QED BY <2>1, <2>2
<1> QED BY <1>12, <1>13, <1>14, <1>15, <1>16, <1>20, <1>21 DEF IInv

-----------------------------------------------------------------------------
\* Field iterators.

\* A turn of an iterator: all its levels are behind it, or it gives the next field of
\* the last one that has some left.
TurnEnds(w) ==
    /\ Levels(w) = {} /\ NextField(w) = NoField
    /\ Stepped(w).stack = w.stack /\ Stepped(w).index = 1
    /\ \A i \in 1 .. w.index : ~Left(w.stack[i])
TurnGives(w, n) ==
    /\ n \in 1 .. w.index /\ Left(w.stack[n]) /\ NextField(w) = w.stack[n] /\ NextField(w) # NoField
    /\ \A i \in (n + 1) .. w.index : ~Left(w.stack[i])
    /\ Stepped(w).index = n
    /\ Stepped(w).stack[n] = <<w.stack[n][1], w.stack[n][2] + 1>>
    /\ \A i \in 1 .. Len(w.stack) : i # n => Stepped(w).stack[i] = w.stack[i]

\* A turn of an iterator either finds no field left or gives the next one of the
\* deepest level that has any.
LEMMA Turn ==
    ASSUME NEW w \in Walks, w.index \in 1 .. Len(w.stack)
    PROVE  /\ TurnEnds(w) \/ \E n \in Levels(w) : TurnGives(w, n)
           /\ Stepped(w) \in Walks /\ Stepped(w).index \in 1 .. Len(w.stack)
           /\ Len(Stepped(w).stack) = Len(w.stack)
           /\ \A i \in 1 .. Len(w.stack) : Stepped(w).stack[i][1] = w.stack[i][1]
<1>1. /\ w.index \in Nat /\ Len(w.stack) \in Nat /\ DOMAIN w.stack = 1 .. Len(w.stack)
      /\ w.stack \in Seq(Positions \X (Nat \ {0})) /\ DOMAIN w = {"stack", "index"}
      /\ w = [stack |-> w.stack, index |-> w.index]
  BY DEF Walks
<1>2. CASE Levels(w) = {}
  <2>1. Stepped(w) = [w EXCEPT !.index = 1] /\ NextField(w) = NoField
    BY <1>2 DEF Stepped, NextField
  <2>2. Stepped(w) = [stack |-> w.stack, index |-> 1]
    BY <1>1, <2>1
  <2>3. TurnEnds(w)
    BY <1>2, <2>1, <2>2 DEF TurnEnds, Levels
  <2>4. Stepped(w) \in Walks
    BY <1>1, <2>2 DEF Walks
  <2> QED BY <1>1, <2>2, <2>3, <2>4
<1>3. CASE Levels(w) # {}
  <2> DEFINE n == Top(w)
  <2>1. n \in Levels(w) /\ \A j \in Levels(w) : j <= n
    <3>1. Levels(w) \in SUBSET (0 .. w.index)
      BY <1>1 DEF Levels
    <3>2. \E k \in Levels(w) : \A l \in Levels(w) : l <= k
      BY <1>1, <1>3, <3>1, GreatestOf
    <3>3. n = CHOOSE i \in Levels(w) : \A j \in Levels(w) : j <= i
      BY <1>3 DEF Top
    <3> QED BY <3>2, <3>3
  <2>2. /\ Stepped(w) = [w EXCEPT !.stack[n][2] = @ + 1, !.index = n]
        /\ NextField(w) = w.stack[n]
    BY <1>3 DEF Stepped, NextField
  <2> HIDE DEF n
  <2>3. n \in 1 .. w.index /\ Left(w.stack[n]) /\ n \in 1 .. Len(w.stack) /\ n \in Nat
    BY <1>1, <2>1 DEF Levels
  <2>4. \A i \in (n + 1) .. w.index : ~Left(w.stack[i])
    <3> DEFINE m == w.index
    <3>1. \A i \in (n + 1) .. m : i \in 1 .. m /\ ~(i <= n)
      <4>1. m \in Nat /\ n \in 1 .. m
        BY <1>1, <2>3
      <4> HIDE DEF m
      <4> QED BY <4>1
    <3> QED BY <2>1, <3>1 DEF Levels
  <2>5. w.stack[n] \in Positions \X (Nat \ {0})
    BY <1>1, <2>3
  <2> DEFINE stack == [w.stack EXCEPT ![n][2] = @ + 1]
  <2>6. Stepped(w) = [stack |-> stack, index |-> n]
    BY <1>1, <2>2
  <2>7. [w.stack[n] EXCEPT ![2] = @ + 1] = <<w.stack[n][1], w.stack[n][2] + 1>>
    BY <2>5
  <2>8. <<w.stack[n][1], w.stack[n][2] + 1>> \in Positions \X (Nat \ {0})
    BY <2>5
  <2>9. /\ stack \in Seq(Positions \X (Nat \ {0})) /\ Len(stack) = Len(w.stack)
        /\ stack[n] = <<w.stack[n][1], w.stack[n][2] + 1>>
        /\ \A i \in 1 .. Len(w.stack) : i # n => stack[i] = w.stack[i]
    <3>1. stack = [w.stack EXCEPT ![n] = <<w.stack[n][1], w.stack[n][2] + 1>>]
      BY <2>7
    <3> QED BY <1>1, <2>3, <2>8, <3>1
  <2> HIDE DEF stack
  <2>10. NextField(w) # NoField
    BY <2>2, <2>5 DEF NoField
  <2>11. TurnGives(w, n)
    <3>1. Stepped(w).index = n /\ Stepped(w).stack = stack
      BY <2>6
    <3> QED BY <2>2, <2>3, <2>4, <2>9, <2>10, <3>1 DEF TurnGives
  <2>12. Stepped(w) \in Walks
    BY <2>3, <2>6, <2>9 DEF Walks
  <2>13. ASSUME NEW i \in 1 .. Len(w.stack) PROVE stack[i][1] = w.stack[i][1]
    <3>1. CASE i = n
      BY <2>9, <3>1
    <3>2. CASE i # n
      BY <2>9, <3>2
    <3> QED BY <3>1, <3>2
  <2>14. Len(Stepped(w).stack) = Len(w.stack)
    BY <2>6, <2>9
  <2>15. \A i \in 1 .. Len(w.stack) : Stepped(w).stack[i][1] = w.stack[i][1]
    BY <2>6, <2>13
  <2> QED BY <2>1, <2>3, <2>6, <2>11, <2>12, <2>14, <2>15
<1> QED BY <1>2, <1>3

\* A walk over the supergroups of a group that has met no field of a name the group has
\* until it comes to the group itself has tested the group.
LEMMA WalkTests ==
    ASSUME schema \in Schemas, NEW g \in Groups, Clean(g),
           NEW s \in Seq(Groups), s # <<>>, s[1] = g, Line(s), ~HasReference(s[Len(s)], 0),
           NEW w \in Walks, Len(w.stack) = Len(s), \A i \in DOMAIN s : w.stack[i][1] = s[i],
           GivenApart(g, w), \A i \in 2 .. Len(s) : ~Left(w.stack[i])
    PROVE  Tested(g)
<1> DEFINE A == {s[i] : i \in 2 .. Len(s)}
<1>1. /\ Len(s) \in Nat /\ Len(s) >= 1 /\ DOMAIN s = 1 .. Len(s)
      /\ w.stack \in Seq(Positions \X (Nat \ {0})) /\ DOMAIN w.stack = 1 .. Len(s)
  BY DEF Walks
<1>2. A \in SUBSET Groups
  BY <1>1
<1>3. g \notin A
  <2>1. \A i \in 2 .. Len(s) : s[i] # s[1]
    BY LineEnds
  <2> QED BY <2>1
<1>4. ASSUME NEW i \in 1 .. Len(s), HasReference(s[i], 0) PROVE Parent(s[i]) \in A
  <2>1. i # Len(s)
    BY <1>4
  <2>2. i \in 1 .. (Len(s) - 1) /\ i + 1 \in 2 .. Len(s)
    <3>1. Len(s) \in Nat
      BY <1>1
    <3> QED BY <2>1, <3>1
  <2>3. Parent(s[i]) = s[i + 1]
    BY <2>2 DEF Line
  <2> QED BY <2>2, <2>3
<1>5. Inherited(g, A)
  <2>1. ASSUME NEW h \in A \union {g}, HasReference(h, 0) PROVE Parent(h) \in A
    <3>1. PICK i \in 1 .. Len(s) : h = s[i]
      BY <1>1
    <3> HIDE DEF A
    <3> QED BY <1>4, <2>1, <3>1
  <2> HIDE DEF A
  <2> QED BY <1>3, <2>1 DEF Inherited
<1>6. Apart(g, A)
  <2> SUFFICES ASSUME NEW i \in 2 .. Len(s), NEW f \in FieldsOf(g), NEW e \in FieldsOf(s[i])
               PROVE  ~SameName(f, e)
    BY DEF Apart
  <2>1. PICK k \in DOMAIN Def(s[i]).fields : e = <<s[i], k>>
    BY DEF FieldsOf
  <2>2. i \in 1 .. Len(s) /\ i > 1 /\ s[i] \in Positions
    BY <1>1 DEF Groups
  <2>3. w.stack[i] \in Positions \X (Nat \ {0}) /\ w.stack[i][1] = s[i] /\ ~Left(w.stack[i])
    BY <1>1, <2>2
  <2>4. Len(Def(s[i]).fields) \in Nat /\ k \in 1 .. Len(Def(s[i]).fields)
    BY <2>1, <2>2, DefTypes
  <2>5. k \in 1 .. (w.stack[i][2] - 1)
    BY <2>3, <2>4 DEF Left
  <2> QED BY <1>1, <2>1, <2>2, <2>3, <2>5 DEF GivenApart
<1> HIDE DEF A
<1> QED BY <1>2, <1>5, <1>6 DEF Tested

\* A turn of testSuperGroupShadowConstraint refuses the schema, sets one more field of
\* the supergroups apart from those of the group, or has tested them all.
LEMMA ShadowKeeps == IInv /\ Shadow => IInv'
<1> SUFFICES ASSUME IInv, Shadow PROVE IInv'
  OBVIOUS
<1> DEFINE field == NextField(walk)
           met == {k \in DOMAIN Def(def).fields : <<def, k>> = field \/ FieldName(<<def, k>>) = FieldName(field)}
           first == CHOOSE k \in met : \A l \in met : k <= l
<1>1. /\ at = "shadow" /\ schema' = schema /\ links' = links /\ walk' = Stepped(walk)
      /\ UNCHANGED <<slow, fast, dynamic, sequence, supers, asked, out>>
  BY DEF Shadow, In, pointers, request
<1>2. \/ field # NoField /\ met = {} /\ UNCHANGED <<at, def, iter, errors>>
      \/ at' = "refused" /\ errors' = {"shadowed"} /\ UNCHANGED <<def, iter>>
      \/ /\ field # NoField => <<def, first>> = field
         /\ at' = "super" /\ NextDefinition /\ UNCHANGED errors
  BY DEF Shadow, Refuse
<1> HIDE DEF first
<1>3. /\ schema \in Schemas /\ links \in [AllPlaces -> Positions \union {Nil}]
      /\ def \in Positions \union {Nil} /\ iter \in Positions \union {Nil}
      /\ Positions' = Positions /\ AllPlaces' = AllPlaces /\ Groups' = Groups
      /\ MaxSupers' = MaxSupers /\ Walks' = Walks /\ FirstDefinition' = FirstDefinition
      /\ \A d : After(d)' = After(d) /\ Passed(d)' = Passed(d)
      /\ MaxSupers \in Nat /\ MaxSupers >= 1
  BY <1>1, Given
<1>4. /\ ResolvedIn(Positions) /\ (\A p \in Positions : Ending(p))
      /\ \A g \in Passed(def) \intersect Groups : Tested(g)
      /\ def \in Groups /\ def \in Positions /\ HasReference(def, 0) /\ Clean(def)
  <2>1. def \in Groups /\ HasReference(def, 0) /\ Clean(def)
    BY <1>1 DEF IInv, CountOK
  <2> QED BY <1>1, <2>1 DEF IInv, LinksOK, TypedefsOK, GroupsOK, Groups
<1>5. iter = After(def) \/ (def = FirstDefinition /\ iter = FirstDefinition)
  BY <1>1 DEF IInv, ScanOK, Scanning
<1>6. /\ supers \in Seq(Groups) /\ supers # <<>> /\ Len(supers) <= MaxSupers
      /\ \A i \in DOMAIN supers : supers[i] \in Groups
      /\ Len(supers) \in Nat /\ Len(supers) >= 1 /\ DOMAIN supers = 1 .. Len(supers)
  <2>1. /\ supers \in Seq(Groups) /\ supers # <<>> /\ Len(supers) <= MaxSupers
        /\ \A i \in DOMAIN supers : supers[i] \in Groups
    BY <1>1 DEF IInv, CountOK, TypeOK
  <2> QED BY <2>1
<1>7. /\ walk \in Walks /\ walk.index \in 1 .. Len(walk.stack)
      /\ supers[1] = def /\ Line(supers) /\ ~HasReference(supers[Len(supers)], 0)
      /\ Len(walk.stack) = Len(supers)
      /\ \A i \in DOMAIN supers : walk.stack[i][1] = supers[i]
      /\ walk.stack[1] = <<def, 1>>
      /\ Exhausted(walk) /\ GivenApart(def, walk)
  BY <1>1 DEF IInv, WalkOK, Walking, Last
<1>8. /\ TurnEnds(walk) \/ \E n \in Levels(walk) : TurnGives(walk, n)
      /\ walk' \in Walks /\ walk'.index \in 1 .. Len(walk.stack)
      /\ Len(walk'.stack) = Len(walk.stack)
      /\ \A i \in 1 .. Len(walk.stack) : walk'.stack[i][1] = walk.stack[i][1]
  BY <1>1, <1>7, Turn
<1>9. DOMAIN walk.stack = 1 .. Len(supers) /\ DOMAIN walk'.stack = 1 .. Len(supers)
  <2>1. \A w \in Walks : DOMAIN w.stack = 1 .. Len(w.stack)
    BY DEF Walks
  <2> QED BY <1>7, <1>8, <2>1
<1>10. ASSUME at' = "super" PROVE Tested(def)
  <2>1. \A i \in 2 .. Len(supers) : ~Left(walk.stack[i])
    <3>1. CASE TurnEnds(walk)
      <4>1. \A i \in 2 .. Len(supers) : i \in 1 .. walk.index \/ (i \in DOMAIN walk.stack /\ i > walk.index)
        BY <1>6, <1>7, <1>9
      <4> QED BY <1>7, <3>1, <4>1 DEF TurnEnds, Exhausted
    <3>2. CASE \E n \in Levels(walk) : TurnGives(walk, n)
      <4>1. PICK n : TurnGives(walk, n)
        BY <3>2
      <4>2. field = walk.stack[n] /\ field # NoField /\ n \in 1 .. walk.index
            /\ \A i \in (n + 1) .. walk.index : ~Left(walk.stack[i])
        BY <4>1 DEF TurnGives
      <4>3. walk.stack[n][1] = def
        BY <1>1, <1>2, <1>10, <4>2
      <4>4. n \in 1 .. Len(supers)
        BY <1>7, <4>2
      <4>5. n = 1
        <5>1. supers[n] = supers[1]
          BY <1>6, <1>7, <4>3, <4>4
        <5>2. \A i \in 2 .. Len(supers) : supers[i] # supers[1]
          BY <1>6, <1>7, LineEnds
        <5> QED BY <4>4, <5>1, <5>2
      <4>6. \A i \in 2 .. Len(supers) : i \in (n + 1) .. walk.index \/ (i \in DOMAIN walk.stack /\ i > walk.index)
        BY <1>6, <1>7, <1>9, <4>5
      <4> QED BY <1>7, <4>2, <4>6 DEF Exhausted
    <3> QED BY <1>8, <3>1, <3>2
  <2> QED BY <1>3, <1>4, <1>6, <1>7, <2>1, WalkTests
<1>11. \/ field # NoField /\ met = {} /\ at' = "shadow" /\ def' = def /\ iter' = iter
       \/ at' = "refused" /\ def' = def /\ iter' = iter
       \/ /\ at' = "super" /\ Tested(def)
          /\ def' \in Positions \union {Nil} /\ iter' \in Positions \union {Nil}
          /\ iter' = After(def') /\ Passed(def') \subseteq Passed(def) \union {def}
  BY <1>1, <1>2, <1>3, <1>4, <1>5, <1>10, Advances
<1>12. TypeOK'
  <2>1. def' \in Positions \union {Nil} /\ iter' \in Positions \union {Nil}
    BY <1>3, <1>11
  <2>2. errors' \subseteq {"unresolved", "double dynamic", "double sequence", "dynamic type", "cycle",
                           "not a group", "own supergroup", "sequence", "dynamic", "shadowed"}
    BY <1>2 DEF IInv, TypeOK
  <2>3. Len(walk'.stack) <= MaxSupers /\ walk'.index <= Len(walk'.stack)
    BY <1>6, <1>7, <1>8
  <2> QED BY <1>1, <1>3, <1>11, <2>1, <2>2, <2>3 DEF IInv, TypeOK
<1>13. ScanOK'
  BY <1>3, <1>5, <1>11 DEF ScanOK, Scanning
<1>14. LinksOK'
  <2>1. ResolvedIn(Positions)' = ResolvedIn(Positions)
    BY <1>1, <1>3, LinksFrame
  <2> QED BY <1>3, <1>4, <1>11, <2>1 DEF LinksOK
<1>15. TypedefsOK'
  <2>1. \A p : Ending(p)' = Ending(p)
    BY <1>1, LinksFrame
  <2> QED BY <1>3, <1>4, <1>11, <2>1 DEF TypedefsOK, Accepted
<1>16. GroupsOK'
  <2>1. \A p : Tested(p)' = Tested(p)
    BY <1>1, LinksFrame
  <2> QED BY <1>3, <1>4, <1>11, <2>1 DEF GroupsOK, Accepted
<1>17. /\ \A p : Clean(p)' = Clean(p) /\ HasReference(p, 0)' = HasReference(p, 0)
       /\ \A s : Line(s)' = Line(s)
       /\ \A w : Exhausted(w)' = Exhausted(w)
       /\ \A g, w : GivenApart(g, w)' = GivenApart(g, w)
  BY <1>1, LinksFrame, SchemaFrame
<1>18. CountOK'
  BY <1>1, <1>3, <1>4, <1>6, <1>11, <1>17 DEF CountOK
<1>19. WalkOK'
  <2>1. CASE at' # "shadow"
    BY <1>3, <1>8, <1>11, <2>1 DEF WalkOK, Walking
  <2>2. CASE at' = "shadow"
    <3>1. field # NoField /\ met = {} /\ def' = def
      BY <1>11, <2>2
    <3>2. PICK n : TurnGives(walk, n)
      BY <1>8, <3>1 DEF TurnEnds
    <3>3. /\ field = walk.stack[n] /\ n \in 1 .. walk.index /\ Left(walk.stack[n])
          /\ (\A i \in (n + 1) .. walk.index : ~Left(walk.stack[i]))
          /\ walk'.index = n
          /\ walk'.stack[n] = <<walk.stack[n][1], walk.stack[n][2] + 1>>
          /\ \A i \in 1 .. Len(supers) : i # n => walk'.stack[i] = walk.stack[i]
      BY <1>1, <1>7, <3>2 DEF TurnGives
    <3>4. n # 1
      <4> SUFFICES ASSUME n = 1 PROVE FALSE
        OBVIOUS
      <4>1. field = <<def, 1>> /\ Left(<<def, 1>>)
        BY <1>7, <3>3
      <4>2. 1 \in DOMAIN Def(def).fields
        <5>1. Len(Def(def).fields) \in Nat /\ DOMAIN Def(def).fields = 1 .. Len(Def(def).fields)
          BY <1>3, <1>4, DefTypes
        <5>2. 1 <= Len(Def(def).fields)
          BY <4>1 DEF Left
        <5> QED BY <5>1, <5>2
      <4> HIDE DEF field
      <4>3. 1 \in met
        BY <4>1, <4>2
      <4> HIDE DEF met
      <4> QED BY <3>1, <4>3
    <3>5. n \in 1 .. Len(supers) /\ walk.stack[n] \in Positions \X (Nat \ {0})
      <4>1. walk.stack \in Seq(Positions \X (Nat \ {0}))
        BY <1>7 DEF Walks
      <4> QED BY <1>7, <1>9, <3>3, <4>1
    <3>6. walk'.stack[1] = <<def, 1>>
      BY <1>6, <1>7, <3>3, <3>4
    <3>7. Exhausted(walk')
      <4> SUFFICES ASSUME NEW i \in 1 .. Len(supers), i > n PROVE ~Left(walk'.stack[i])
        BY <1>9, <3>3 DEF Exhausted
      <4>1. walk'.stack[i] = walk.stack[i]
        BY <3>3, <3>5
      <4>2. i \in (n + 1) .. walk.index \/ (i \in DOMAIN walk.stack /\ i > walk.index)
        BY <1>6, <1>7, <1>9, <3>5
      <4> QED BY <1>7, <3>3, <4>1, <4>2 DEF Exhausted
    <3>8. GivenApart(def, walk')
      <4> SUFFICES ASSUME NEW i \in 1 .. Len(supers), i > 1, NEW k \in 1 .. (walk'.stack[i][2] - 1),
                          k \in DOMAIN Def(walk'.stack[i][1]).fields, NEW f \in FieldsOf(def)
                   PROVE  ~SameName(f, <<walk'.stack[i][1], k>>)
        BY <1>9 DEF GivenApart
      <4>1. walk'.stack[i][1] = walk.stack[i][1]
        BY <1>7, <1>8
      <4>2. CASE k \in 1 .. (walk.stack[i][2] - 1)
        BY <1>7, <1>9, <4>1, <4>2 DEF GivenApart
      <4>3. CASE i = n /\ k = walk.stack[n][2]
        <5>1. <<walk'.stack[i][1], k>> = field
          BY <3>3, <3>5, <4>1, <4>3
        <5>2. PICK l \in DOMAIN Def(def).fields : f = <<def, l>>
          BY DEF FieldsOf
        <5> HIDE DEF field
        <5>3. l \notin met
          BY <3>1
        <5>4. FieldName(<<def, l>>) # FieldName(field)
          BY <5>2, <5>3
        <5> QED BY <5>1, <5>2, <5>4 DEF SameName
      <4>4. k \in 1 .. (walk.stack[i][2] - 1) \/ (i = n /\ k = walk.stack[n][2])
        <5>1. CASE i # n
          <6>1. walk'.stack[i] = walk.stack[i]
            BY <3>3, <5>1
          <6> QED BY <6>1
        <5>2. CASE i = n
          <6>1. walk'.stack[i][2] = walk.stack[n][2] + 1 /\ walk.stack[n][2] \in Nat
            BY <3>3, <3>5, <5>2
          <6> QED BY <5>2, <6>1
        <5> QED BY <5>1, <5>2
      <4> QED BY <4>2, <4>3, <4>4
    <3>9. \A i \in DOMAIN supers : walk'.stack[i][1] = supers[i]
      BY <1>6, <1>7, <1>8
    <3>10. Last' = Last /\ ~HasReference(Last, 0)
      BY <1>1, <1>7 DEF Last
    <3> QED BY <1>1, <1>3, <1>7, <1>8, <1>17, <3>1, <3>6, <3>7, <3>8, <3>9, <3>10 DEF WalkOK
  <2> QED BY <2>1, <2>2
<1> QED BY <1>12, <1>13, <1>14, <1>15, <1>16, <1>18, <1>19 DEF IInv

\* Once a schema is accepted its caller changes none of what was found out about it.
AsksOnly ==
    /\ at \in Accepted /\ at' \in Accepted \union {"stopped"}
    /\ UNCHANGED <<schema, links, def, slow, fast, dynamic, sequence, errors>>
    /\ iter' \in Positions \union {Nil}
    /\ supers' \in Seq(Groups) /\ Len(supers') <= MaxSupers
    /\ at' = "fields count" => supers' # <<>>
    /\ walk' \in Walks /\ Len(walk'.stack) <= MaxSupers /\ walk'.index <= Len(walk'.stack)
    /\ at' = "fields" => walk'.index \in 1 .. Len(walk'.stack)

\* What the caller asks changes no pointer and no definition, so that the invariant
\* stays.
LEMMA AsksKeep == IInv /\ AsksOnly => IInv'
<1> SUFFICES ASSUME IInv, AsksOnly PROVE IInv'
  OBVIOUS
<1>1. /\ at \in Accepted /\ at' \in Accepted \union {"stopped"}
      /\ schema' = schema /\ links' = links
      /\ UNCHANGED <<def, slow, fast, dynamic, sequence, errors>>
      /\ iter' \in Positions \union {Nil}
      /\ supers' \in Seq(Groups) /\ Len(supers') <= MaxSupers
      /\ at' = "fields count" => supers' # <<>>
      /\ walk' \in Walks /\ Len(walk'.stack) <= MaxSupers /\ walk'.index <= Len(walk'.stack)
      /\ at' = "fields" => walk'.index \in 1 .. Len(walk'.stack)
  BY DEF AsksOnly
<1>2. /\ schema \in Schemas /\ links \in [AllPlaces -> Positions \union {Nil}]
      /\ Positions' = Positions /\ AllPlaces' = AllPlaces /\ Groups' = Groups
      /\ MaxSupers' = MaxSupers /\ Walks' = Walks
  BY <1>1, Given
<1>3. TypeOK'
  <2>1. \A i \in DOMAIN supers' : supers'[i] \in Groups
    <3>1. \A s \in Seq(Groups) : \A i \in DOMAIN s : s[i] \in Groups
      OBVIOUS
    <3> QED BY <1>1, <3>1
  <2> QED BY <1>1, <1>2, <2>1 DEF IInv, TypeOK, Accepted
<1>4. ScanOK'
  BY <1>1 DEF ScanOK, Scanning, Accepted
<1>5. LinksOK' /\ TypedefsOK' /\ GroupsOK'
  <2>1. /\ ResolvedIn(Positions)' = ResolvedIn(Positions)
        /\ \A p : Ending(p)' = Ending(p) /\ Tested(p)' = Tested(p)
    BY <1>1, <1>2, LinksFrame
  <2>2. ResolvedIn(Positions) /\ (\A p \in Positions : Ending(p)) /\ \A g \in Groups : Tested(g)
    BY <1>1 DEF IInv, LinksOK, TypedefsOK, GroupsOK, Accepted
  <2>3. LinksOK'
    BY <1>1, <2>1, <2>2 DEF LinksOK, Accepted
  <2>4. TypedefsOK' /\ GroupsOK'
    BY <1>1, <1>2, <2>1, <2>2 DEF TypedefsOK, GroupsOK, Accepted
  <2> QED BY <2>3, <2>4
<1>6. CountOK' /\ WalkOK'
  BY <1>1, <1>2 DEF CountOK, WalkOK, Accepted, Walking
<1> QED BY <1>3, <1>4, <1>5, <1>6 DEF IInv

\* The actions of the caller.
Caller == \/ ListFields \/ GiveField \/ ListGroups \/ GiveGroup
          \/ GetGroupByID \/ GetGroupByName \/ ReadField

\* Every action of the caller is such a request.
LEMMA CallerAsks == IInv /\ Caller => AsksOnly
<1> SUFFICES ASSUME IInv, Caller PROVE AsksOnly
  OBVIOUS
<1>1. /\ schema \in Schemas /\ iter \in Positions \union {Nil}
      /\ MaxSupers \in Nat /\ MaxSupers >= 1
  <2>1. schema \in Schemas /\ iter \in Positions \union {Nil}
    BY DEF IInv, TypeOK
  <2> QED BY <2>1, PositionsFinite DEF MaxSupers
<1>2. /\ supers \in Seq(Groups) /\ Len(supers) <= MaxSupers
      /\ walk \in Walks /\ Len(walk.stack) <= MaxSupers /\ walk.index <= Len(walk.stack)
  BY DEF IInv, TypeOK, CountOK, WalkOK
<1>3. CASE ListFields
  <2>1. PICK g \in Groups :
          \/ at' = "fields count" /\ supers' = <<g>> /\ walk' = walk
          \/ at' = "fields" /\ walk' = FieldIterator(<<g>>) /\ supers' = supers
    BY <1>3 DEF ListFields
  <2>2. <<g>> \in Seq(Groups) /\ <<g>> \in Seq(Positions) /\ Len(<<g>>) = 1
    BY DEF Groups
  <2>3. /\ FieldIterator(<<g>>) \in Walks /\ FieldIterator(<<g>>).index = 1
        /\ Len(FieldIterator(<<g>>).stack) = 1
    BY <2>2, IteratorType
  <2>4. at = "schema" /\ UNCHANGED <<schema, links, def, iter, slow, fast, dynamic, sequence, errors>>
    BY <1>3 DEF ListFields, In, pointers
  <2>5. CASE at' = "fields count" /\ supers' = <<g>> /\ walk' = walk
    <3>1. supers' # <<>> /\ supers' \in Seq(Groups) /\ Len(supers') <= MaxSupers
      BY <1>1, <2>2, <2>5
    <3>2. walk' \in Walks /\ Len(walk'.stack) <= MaxSupers /\ walk'.index <= Len(walk'.stack)
      BY <1>2, <2>5
    <3> QED BY <1>1, <2>4, <2>5, <3>1, <3>2 DEF AsksOnly, Accepted
  <2>6. CASE at' = "fields" /\ walk' = FieldIterator(<<g>>) /\ supers' = supers
    <3>1. /\ walk' \in Walks /\ Len(walk'.stack) <= MaxSupers /\ walk'.index <= Len(walk'.stack)
          /\ walk'.index \in 1 .. Len(walk'.stack)
      <4>1. walk' \in Walks /\ walk'.index = 1 /\ Len(walk'.stack) = 1
        BY <2>3, <2>6
      <4>2. MaxSupers \in Nat /\ MaxSupers >= 1 /\ 1 \in 1 .. 1
        BY <1>1
      <4> QED BY <4>1, <4>2
    <3>2. supers' \in Seq(Groups) /\ Len(supers') <= MaxSupers
      BY <1>2, <2>6
    <3> QED BY <1>1, <2>4, <2>6, <3>1, <3>2 DEF AsksOnly, Accepted
  <2> QED BY <2>1, <2>5, <2>6
<1>4. CASE GiveField
  <2>1. /\ at = "fields" /\ at' \in {"fields", "done"} /\ walk' = Stepped(walk)
        /\ UNCHANGED <<schema, links, def, iter, slow, fast, dynamic, sequence, errors, supers>>
    BY <1>4 DEF GiveField, In, pointers, Answer
  <2>2. walk.index \in 1 .. Len(walk.stack)
    BY <2>1 DEF IInv, WalkOK, Walking
  <2>3. walk' \in Walks /\ walk'.index \in 1 .. Len(walk.stack) /\ Len(walk'.stack) = Len(walk.stack)
    BY <1>2, <2>1, <2>2, Turn
  <2>4. walk'.index \in 1 .. Len(walk'.stack) /\ walk'.index <= Len(walk'.stack) /\ Len(walk'.stack) <= MaxSupers
    <3>1. Len(walk.stack) \in Nat
      BY <1>2 DEF Walks
    <3> QED BY <1>1, <1>2, <2>3, <3>1
  <2> QED BY <1>1, <1>2, <2>1, <2>3, <2>4 DEF AsksOnly, Accepted
<1>5. CASE GiveGroup
  <2>1. /\ at = "groups" /\ at' \in {"groups", "done"} /\ iter' = After(iter)
        /\ UNCHANGED <<schema, links, def, slow, fast, dynamic, sequence, errors, supers, walk>>
    BY <1>5 DEF GiveGroup, In, pointers, Answer
  <2>2. After(iter) \in Positions \union {Nil}
    <3>1. After(Nil) = Nil
      BY DEF After
    <3> QED BY <1>1, <3>1, AfterPasses
  <2> QED BY <1>2, <2>1, <2>2 DEF AsksOnly, Accepted
<1>6. CASE ListGroups
  <2>1. /\ at = "schema" /\ at' = "groups" /\ iter' = FirstDefinition
        /\ UNCHANGED <<schema, links, def, slow, fast, dynamic, sequence, errors, supers, walk>>
    BY <1>6 DEF ListGroups, In, pointers
  <2> QED BY <1>1, <1>2, <2>1, FirstPasses DEF AsksOnly, Accepted
<1>7. CASE GetGroupByID \/ GetGroupByName \/ ReadField
  <2>1. /\ at = "schema" /\ at' \in {"done", "stopped"}
        /\ UNCHANGED <<schema, links, def, iter, slow, fast, dynamic, sequence, errors, supers, walk>>
    BY <1>7 DEF GetGroupByID, GetGroupByName, ReadField, In, pointers, Answer, Stop
  <2> QED BY <1>1, <1>2, <2>1 DEF AsksOnly, Accepted
<1> QED BY <1>3, <1>4, <1>5, <1>6, <1>7 DEF Caller

-----------------------------------------------------------------------------
\* Theorems.

\* The inductive invariant: what each loop of Schema_new has found out of the definitions
\* it has passed, and where the pointers it walks with stand.
THEOREM Invariance == Spec => []IInv
<1>1. Init => IInv
  BY InitOK
<1>2. IInv /\ [Next]_vars => IInv'
  <2> SUFFICES ASSUME IInv, [Next]_vars PROVE IInv'
    OBVIOUS
  <2>1. CASE ResolveDefinition
    BY <2>1, ResolveDefinitionKeeps
  <2>2. CASE AllResolved \/ ReferencesTested \/ Accept
    <3>1. \/ LoopOver("resolve", "reference") \/ LoopOver("reference", "super")
          \/ LoopOver("super", "schema")
      BY <2>2 DEF AllResolved, ReferencesTested, Accept, LoopOver
    <3> QED BY <3>1, LoopKeeps
  <2>3. CASE TestReference
    BY <2>3, TestReferenceKeeps
  <2>4. CASE FollowTypedef
    BY <2>4, FollowTypedefKeeps
  <2>5. CASE TestSuper
    BY <2>5, TestSuperKeeps
  <2>6. CASE CountForShadow \/ CountForFields
    <3>1. CountOver("shadow count", "shadow") \/ CountOver("fields count", "fields")
      BY <2>6 DEF CountForShadow, CountForFields, CountOver
    <3> QED BY <3>1, CountKeeps
  <2>7. CASE Shadow
    BY <2>7, ShadowKeeps
  <2>8. CASE Caller
    BY <2>8, CallerAsks, AsksKeep
  <2>9. CASE UNCHANGED vars
    <3>1. /\ schema' = schema /\ links' = links
          /\ UNCHANGED <<at, def, iter, slow, fast, dynamic, sequence, errors, supers, walk>>
      BY <2>9 DEF vars
    <3>2. /\ Positions' = Positions /\ AllPlaces' = AllPlaces /\ Groups' = Groups
          /\ MaxSupers' = MaxSupers /\ Walks' = Walks /\ FirstDefinition' = FirstDefinition
          /\ (\A d : After(d)' = After(d) /\ Passed(d)' = Passed(d))
          /\ \A p : HasReference(p, 0)' = HasReference(p, 0)
      BY <3>1, SchemaFrame
    <3>3. /\ \A p : Ending(p)' = Ending(p) /\ Clean(p)' = Clean(p) /\ Tested(p)' = Tested(p)
          /\ \A D : ResolvedIn(D)' = ResolvedIn(D) /\ Looped(D)' = Looped(D) /\ Ring(D)' = Ring(D)
          /\ \A s : Line(s)' = Line(s)
          /\ \A w : Exhausted(w)' = Exhausted(w)
          /\ \A g, w : GivenApart(g, w)' = GivenApart(g, w)
      BY <3>1, LinksFrame
    <3>4. TypeOK' /\ ScanOK' /\ LinksOK'
      BY <3>1, <3>2, <3>3 DEF IInv, TypeOK, ScanOK, LinksOK
    <3>5. TypedefsOK' /\ GroupsOK'
      BY <3>1, <3>2, <3>3 DEF IInv, TypedefsOK, GroupsOK
    <3>6. Last' = Last
      BY <3>1 DEF Last
    <3>7. CountOK'
      BY <3>1, <3>2, <3>3, <3>6 DEF IInv, CountOK
    <3>8. WalkOK'
      BY <3>1, <3>2, <3>3, <3>6 DEF IInv, WalkOK
    <3> QED BY <3>4, <3>5, <3>7, <3>8 DEF IInv
  <2> QED BY <2>1, <2>2, <2>3, <2>4, <2>5, <2>6, <2>7, <2>8, <2>9 DEF Next, Caller
<1> QED BY <1>1, <1>2, PTL DEF Spec

\* What the resolver keeps has its type: a pointer is a definition or none, what is
\* counted are groups, and neither count nor walk grows past the definitions there are.
THEOREM TypeCorrect == Spec => []TypeOK
<1>1. IInv => TypeOK
  BY DEF IInv
<1> QED BY <1>1, Invariance, PTL

\* Every reference of a schema that is accepted leads to the one definition of its
\* name, in whatever order the definitions stand: if its names are told apart, as the
\* search that compares them asks for.
THEOREM AcceptedResolved == Spec => [](NamesAreTold => AcceptedIsResolved)
<1>1. ASSUME IInv, NamesAreTold PROVE AcceptedIsResolved
  <2> SUFFICES ASSUME at \in {"schema", "done"}, NEW place \in AllPlaces
               PROVE  Denoted(place) = {links[place]}
    BY DEF AcceptedIsResolved
  <2>1. schema \in Schemas /\ ResolvedIn(Positions)
    BY <1>1 DEF IInv, TypeOK, LinksOK
  <2>2. links[place] = Resolve(Reference(place)) /\ links[place] \in Positions
    BY <2>1, InPlaces DEF ResolvedIn
  <2>3. links[place] # Nil
    BY <2>1, <2>2, PositionTypes
  <2>4. Denoted(place) = {Resolve(Reference(place))} \ {Nil}
    BY <1>1, <2>1, ResolveFinds
  <2> QED BY <2>2, <2>3, <2>4
<1> QED BY <1>1, Invariance, PTL

\* What is written of a definition leads where its pointer does.
LEMMA WrittenIs ==
    ASSUME schema \in Schemas, NamesAreTold, ResolvedIn(Positions), NEW q \in Positions
    PROVE  Written(q) = IF HasReference(q, 0) THEN {links[<<q, 0>>]} ELSE {}
<1>1. Written(q) = UNION {Denoted(place) : place \in {l \in Places(q) : l[2] = 0}}
  BY DEF Written
<1>2. CASE HasReference(q, 0)
  <2>1. {l \in Places(q) : l[2] = 0} = {<<q, 0>>}
    <3>1. <<q, 0>> \in Places(q)
      BY <1>2, FirstPlace
    <3>2. \A l \in Places(q) : l = <<q, l[2]>>
      BY DEF Places
    <3> QED BY <3>1, <3>2
  <2>2. <<q, 0>> \in AllPlaces
    BY <1>2, FirstPlace
  <2>3. Denoted(<<q, 0>>) = {Resolve(Reference(<<q, 0>>))} \ {Nil}
    BY <2>2, ResolveFinds
  <2>4. links[<<q, 0>>] = Resolve(Reference(<<q, 0>>)) /\ links[<<q, 0>>] # Nil
    <3>1. links[<<q, 0>>] = Resolve(Reference(<<q, 0>>)) /\ links[<<q, 0>>] \in Positions
      BY <1>2, LinkIn
    <3> QED BY <3>1, PositionTypes
  <2>5. Written(q) = Denoted(<<q, 0>>)
    BY <1>1, <2>1
  <2> QED BY <1>2, <2>3, <2>4, <2>5
<1>3. CASE ~HasReference(q, 0)
  <2>1. {l \in Places(q) : l[2] = 0} = {}
    <3>1. \A l \in Places(q) : HasReference(q, l[2])
      BY DEF Places
    <3> QED BY <1>3, <3>1
  <2> QED BY <1>1, <1>3, <2>1
<1> QED BY <1>2, <1>3

\* All that lies beyond a group: the groups of A and the typedefs on the way to them.
Chain(h) == Followed(links[<<h, 0>>])

\* Beyond a group that inherits the groups of A lie these groups and the typedefs on
\* the way to them, none of which is a sequence or dynamic.
LEMMA BeyondGroup ==
    ASSUME schema \in Schemas, NamesAreTold, ResolvedIn(Positions),
           \A p \in Positions : Ending(p), \A h \in Groups : Clean(h),
           NEW g \in Groups, NEW A \in SUBSET Groups, Inherited(g, A), NEW q \in Beyond(g)
    PROVE  \/ q \in A
           \/ IsTypedefRef(q) /\ ~Def(q).type.dyn /\ ~Def(q).type.seq
<1> DEFINE H == {h \in A \union {g} : HasReference(h, 0)}
           B == UNION {Chain(h) : h \in H}
<1>1. ASSUME NEW h \in H
      PROVE  /\ links[<<h, 0>>] \in Chain(h) /\ Chain(h) \subseteq Positions
             /\ \A p \in Chain(h) : ~IsTypedefRef(p) => p \in A
             /\ \A p \in Chain(h) : IsTypedefRef(p) =>
                    links[<<p, 0>>] \in Chain(h) /\ ~Def(p).type.dyn /\ ~Def(p).type.seq
  <2>1. h \in Groups /\ h \in Positions /\ HasReference(h, 0) /\ Parent(h) \in A /\ Clean(h)
    BY DEF Inherited, Groups
  <2>2. links[<<h, 0>>] \in Positions /\ Ending(links[<<h, 0>>])
    BY <2>1, LinkIn
  <2>3. /\ links[<<h, 0>>] \in Chain(h) /\ Chain(h) \subseteq Positions
        /\ \A p \in Chain(h) : ~IsTypedefRef(p) => p = Parent(h)
        /\ \A p \in Chain(h) : IsTypedefRef(p) => links[<<p, 0>>] \in Chain(h)
    BY <2>2, TerminalIs DEF Parent, Chain
  <2>4. \A p \in Chain(h) : IsTypedefRef(p) => ~Def(p).type.dyn /\ ~Def(p).type.seq
    BY <2>1 DEF Clean, BySequence, ByDynamic, Chain
  <2> QED BY <2>1, <2>3, <2>4
<1>2. \A p \in B : p \in Positions
  BY <1>1
<1>3. Written(g) \subseteq B
  <2>1. g \in Positions
    BY DEF Groups
  <2>2. HasReference(g, 0) => links[<<g, 0>>] \in B
    BY <1>1
  <2> HIDE DEF B
  <2> QED BY <2>1, <2>2, WrittenIs
<1>4. ASSUME NEW p \in B PROVE Written(p) \subseteq B
  <2>1. PICK h \in H : p \in Chain(h)
    OBVIOUS
  <2>2. p \in Positions
    BY <1>2
  <2>3. HasReference(p, 0) => links[<<p, 0>>] \in B
    <3>1. CASE IsTypedefRef(p)
      BY <1>1, <2>1, <3>1
    <3>2. CASE ~IsTypedefRef(p) /\ HasReference(p, 0)
      <4>1. p \in H
        BY <1>1, <2>1, <3>2
      <4> HIDE DEF H
      <4> QED BY <1>1, <4>1
    <3> QED BY <3>1, <3>2
  <2> HIDE DEF B
  <2> QED BY <2>2, <2>3, WrittenIs
<1>5. q \in B
  <2> HIDE DEF B
  <2>1. Beyond(g) \subseteq B
    BY <1>3, <1>4, BeyondWithin
  <2> QED BY <2>1
<1>6. PICK h \in H : q \in Chain(h)
  BY <1>5
<1> HIDE DEF H, B
<1> QED BY <1>1, <1>6

\* A schema that is accepted inherits as it should: a group leads by its supergroups and
\* by any number of typedefs between them to groups only and never back to itself, and
\* none of its fields has the name of one it inherits.
THEOREM AcceptedInheritance == Spec => [](NamesAreTold => AcceptedInherits)
<1>1. ASSUME IInv, NamesAreTold, at = "schema" PROVE SupersAreGroups /\ NoFieldShadowed
  <2>1. /\ schema \in Schemas /\ ResolvedIn(Positions)
        /\ (\A p \in Positions : Ending(p)) /\ \A g \in Groups : Tested(g)
    BY <1>1 DEF IInv, TypeOK, LinksOK, TypedefsOK, GroupsOK, Accepted
  <2>2. ASSUME NEW g \in Groups
        PROVE  /\ \A q \in Beyond(g) :
                     /\ q # g
                     /\ Is(q, "group") \/ (IsTypedefRef(q) /\ ~Def(q).type.dyn /\ ~Def(q).type.seq)
               /\ \A h \in Ancestors(g) : \A f \in FieldsOf(g), e \in FieldsOf(h) : FieldName(f) # FieldName(e)
    <3>1. PICK A \in SUBSET Groups : Inherited(g, A) /\ Apart(g, A)
      BY <2>1 DEF Tested
    <3>2. \A h \in Groups : Clean(h)
      BY <2>1 DEF Tested
    <3>3. \A q \in Beyond(g) : q \in A \/ (IsTypedefRef(q) /\ ~Def(q).type.dyn /\ ~Def(q).type.seq)
      BY <2>1, <3>1, <3>2, BeyondGroup, <1>1
    <3>4. g \notin A /\ \A h \in Groups : Is(h, "group") /\ ~IsTypedefRef(h)
      BY <3>1 DEF Inherited, Groups, IsTypedefRef, Is
    <3>5. \A h \in Ancestors(g) : h \in A
      BY <3>3, <3>4 DEF Ancestors
    <3> QED BY <3>1, <3>3, <3>4, <3>5 DEF Apart, SameName
  <2> QED BY <1>1, <2>2 DEF SupersAreGroups, NoFieldShadowed
<1>2. IInv => (NamesAreTold => AcceptedInherits)
  <2>1. at # "schema" => AcceptedInherits
    BY DEF AcceptedInherits, SupersAreGroups, NoFieldShadowed
  <2> QED BY <1>1, <2>1 DEF AcceptedInherits
<1> QED BY <1>2, Invariance, PTL

-----------------------------------------------------------------------------
\* What a schema is refused for.

\* What a chain of typedefs leads to lies where all lies that these name.
LEMMA FollowedBeyond ==
    ASSUME schema \in Schemas, NamesAreTold, ResolvedIn(Positions), NEW B \in SUBSET Positions,
           \A q \in B : IsTypedefRef(q) => Written(q) \subseteq B, NEW p \in B
    PROVE  Followed(p) \subseteq B
<1> DEFINE N == Cardinality(Positions)
<1>1. N \in Nat
  BY PositionsFinite
<1>2. PICK to \in [0 .. N -> Positions] :
              /\ to[0] = p
              /\ \A n \in 1 .. N : to[n] = NextFollowed(to[n - 1])
              /\ Followed(p) = {to[n] : n \in 0 .. N}
  BY FollowedIs
<1> DEFINE T == {n \in 0 .. N : to[n] \in B}
<1> HIDE DEF N
<1>3. 0 \in T
  BY <1>1, <1>2
<1>4. ASSUME NEW n \in 0 .. (N - 1), n \in T PROVE n + 1 \in T
  <2>1. n + 1 \in 1 .. N /\ (n + 1) - 1 = n
    BY <1>1
  <2>2. to[n + 1] = NextFollowed(to[n]) /\ to[n] \in B /\ to[n] \in Positions
    BY <1>2, <1>4, <2>1
  <2>3. NextFollowed(to[n]) \in B
    <3>1. CASE IsTypedefRef(to[n])
      <4>1. Written(to[n]) = {links[<<to[n], 0>>]}
        BY <2>2, <3>1, WrittenIs DEF HasReference
      <4> QED BY <2>2, <3>1, <4>1 DEF NextFollowed
    <3> QED BY <2>2, <3>1 DEF NextFollowed
  <2> QED BY <2>1, <2>2, <2>3
<1>5. \A n \in 0 .. N : n \in T
  <2> HIDE DEF T
  <2> QED BY <1>1, <1>3, <1>4, FromTo
<1> QED BY <1>2, <1>5

\* The typedefs and the group that a supergroup is reached by lie beyond the group
\* itself.
LEMMA ChainBeyond ==
    ASSUME schema \in Schemas, NamesAreTold, ResolvedIn(Positions), \A p \in Positions : Ending(p),
           NEW g \in Positions, NEW h \in Beyond(g) \union {g}, HasReference(h, 0)
    PROVE  Chain(h) \subseteq Beyond(g) /\ Parent(h) \in Beyond(g)
<1>1. Written(g) \subseteq Beyond(g) /\ Closed(Beyond(g)) /\ Beyond(g) \in SUBSET Positions
  BY BeyondClosed
<1>2. h \in Positions
  BY <1>1
<1>3. Written(h) = {links[<<h, 0>>]} /\ links[<<h, 0>>] \in Positions
  BY <1>2, WrittenIs, LinkIn
<1>4. links[<<h, 0>>] \in Beyond(g)
  BY <1>1, <1>3 DEF Closed
<1>5. Chain(h) \subseteq Beyond(g)
  BY <1>1, <1>4, FollowedBeyond DEF Chain, Closed
<1>6. Parent(h) \in Chain(h)
  BY <1>3, TerminalIs DEF Parent, Chain
<1> QED BY <1>5, <1>6

\* So does every group that follows it in a line.
LEMMA LineBeyond ==
    ASSUME schema \in Schemas, NamesAreTold, ResolvedIn(Positions), \A p \in Positions : Ending(p),
           NEW s \in Seq(Groups), Line(s), NEW i \in 1 .. Len(s), NEW j \in 1 .. Len(s), i < j
    PROVE  s[j] \in Beyond(s[i])
<1> DEFINE N == Len(s)
           m == i + 1
           B == Beyond(s[i])
           T == {k \in m .. N : s[k] \in B}
<1>1. /\ N \in Nat /\ i \in 1 .. (N - 1) /\ m \in Nat /\ m <= N /\ m >= 2 /\ j \in m .. N
      /\ \A k \in 1 .. N : s[k] \in Groups /\ s[k] \in Positions
  BY DEF Groups
<1>2. ASSUME NEW k \in 1 .. (N - 1), s[k] \in B \union {s[i]} PROVE s[k + 1] \in B
  <2>1. HasReference(s[k], 0) /\ s[k + 1] = Parent(s[k]) /\ s[i] \in Positions
    BY <1>1 DEF Line
  <2> QED BY <1>2, <2>1, ChainBeyond
<1> HIDE DEF B
<1>3. m \in T
  <2>1. s[m] \in B
    BY <1>1, <1>2
  <2> QED BY <1>1, <2>1
<1>4. ASSUME NEW k \in m .. (N - 1), k \in T PROVE k + 1 \in T
  <2>1. k \in 1 .. (N - 1) /\ k + 1 \in m .. N /\ s[k] \in B
    BY <1>1, <1>4
  <2>2. s[k + 1] \in B
    BY <1>2, <2>1
  <2> QED BY <2>1, <2>2
<1>5. \A k \in m .. N : k \in T
  <2> HIDE DEF T, N, m
  <2> QED BY <1>1, <1>3, <1>4, FromTo
<1> QED BY <1>1, <1>5 DEF B

\* What lies beyond a definition is the least that holds what it names and what is
\* named there, whichever way that is found; in the next state too.
Within(p) ==
    {q \in Positions : \A B \in SUBSET Positions : Written(p) \subseteq B /\ Closed(B) => q \in B}

\* Beyond is the least set that is closed under what is named.
LEMMA BeyondIsLeast == schema \in Schemas => \A p : Beyond(p) = Within(p)
<1> SUFFICES ASSUME schema \in Schemas, NEW p PROVE Beyond(p) = Within(p)
  OBVIOUS
<1>1. Written(p) \subseteq Beyond(p) /\ Closed(Beyond(p)) /\ Beyond(p) \subseteq Positions
  BY BeyondClosed
<1>2. \A B \in SUBSET Positions : Written(p) \subseteq B /\ Closed(B) => Beyond(p) \subseteq B
  BY BeyondWithin DEF Closed
<1> QED BY <1>1, <1>2 DEF Within

\* So it is in the next state.
LEMMA BeyondIsLeastNext == (schema \in Schemas => \A p : Beyond(p) = Within(p))'
  BY BeyondIsLeast, PTL

\* The messages that are not false alarms.
Faults == {"unresolved", "not a group", "own supergroup", "sequence", "dynamic", "shadowed",
           "double dynamic", "double sequence"}

\* What was written stays as it is.
LEMMA WrittenFrame ==
    ASSUME schema \in Schemas, schema' = schema
    PROVE  /\ NamesAreTold' = NamesAreTold
           /\ \A m \in Faults : FaultIsThere(m)' = FaultIsThere(m)
           /\ \A place : Denoted(place)' = Denoted(place)
           /\ \A p : Written(p)' = Written(p) /\ IsTypedefRef(p)' = IsTypedefRef(p)
           /\ \A p, kind : Is(p, kind)' = Is(p, kind)
           /\ DynamicRefs' = DynamicRefs
<1>1. /\ Positions' = Positions /\ AllPlaces' = AllPlaces /\ Groups' = Groups
      /\ \A d : Def(d)' = Def(d)
      /\ \A p : Places(p)' = Places(p)
      /\ \A place : Reference(place)' = Reference(place)
  BY SchemaFrame
<1>2. \A p, kind : Is(p, kind)' = Is(p, kind) /\ IsTypedefRef(p)' = IsTypedefRef(p)
  BY <1>1 DEF IsTypedefRef, Is, Ref
<1>3. \A place : Denoted(place)' = Denoted(place)
  BY <1>1 DEF Denoted
<1>4. \A p : Written(p)' = Written(p)
  BY <1>1, <1>3 DEF Written
<1>5. \A p : Beyond(p)' = Beyond(p)
  <2>1. \A S : Closed(S)' = Closed(S)
    BY <1>4 DEF Closed
  <2>2. \A p : Within(p)' = Within(p)
    BY <1>1, <1>4, <2>1 DEF Within
  <2>3. (\A p : Beyond(p) = Within(p)) /\ \A p : Beyond(p)' = Within(p)'
    BY BeyondIsLeast, BeyondIsLeastNext
  <2> QED BY <2>2, <2>3
<1>6. \A p : Ancestors(p)' = Ancestors(p) /\ FieldsOf(p)' = FieldsOf(p) /\ FieldName(p)' = FieldName(p)
  BY <1>1, <1>5 DEF Ancestors, FieldsOf, FieldName
<1>9. DynamicRefs' = DynamicRefs /\ SequenceRefs' = SequenceRefs
  BY <1>1, <1>2 DEF DynamicRefs, SequenceRefs
<1>7. \A m \in Faults : FaultIsThere(m)' = FaultIsThere(m)
  <2> TAKE m \in Faults
  <2>1. CASE m = "unresolved"
    BY <1>1, <1>3, <2>1 DEF FaultIsThere
  <2>2. CASE m \in {"not a group", "own supergroup"}
    BY <1>1, <1>2, <1>5, <2>2 DEF FaultIsThere
  <2>3. CASE m \in {"sequence", "dynamic", "double sequence", "double dynamic"}
    BY <1>1, <1>5, <1>9, <2>3 DEF FaultIsThere
  <2>4. CASE m = "shadowed"
    BY <1>1, <1>6, <2>4 DEF FaultIsThere
  <2> QED BY <2>1, <2>2, <2>3, <2>4 DEF Faults
<1>8. NamesAreTold' = NamesAreTold
  BY <1>1 DEF NamesAreTold
<1> QED BY <1>2, <1>3, <1>4, <1>7, <1>8, <1>9

\* The tests before that of supergroups gather no message: the test of a typedef has
\* not moved, or is where a typedef is named no more.
FaultOK ==
    /\ at \in {"resolve", "reference", "typedef"} => errors = {}
    /\ at = "typedef" => \/ slow = fast /\ slow # Nil /\ ~dynamic /\ ~sequence
                         \/ ~NamesTypedef(slow)
    /\ at = "refused" => errors # {} /\ (NamesAreTold => \A m \in errors \ FalseAlarms : FaultIsThere(m))

\* Where a step refuses the schema for a fault that is there.
LEMMA Refused ==
    ASSUME schema \in Schemas, schema' = schema, errors' # {}, errors' \subseteq Faults \union FalseAlarms,
           NamesAreTold => \A m \in errors' \ FalseAlarms : FaultIsThere(m), at' = "refused"
    PROVE  FaultOK'
<1>1. NamesAreTold' = NamesAreTold /\ \A m \in Faults : FaultIsThere(m)' = FaultIsThere(m)
  BY WrittenFrame
<1>2. FalseAlarms' = FalseAlarms
  BY DEF FalseAlarms
<1> HIDE DEF Faults, FalseAlarms
<1> QED BY <1>1, <1>2 DEF FaultOK

\* A schema refused for a name that is not resolved has a reference to nothing.
LEMMA UnresolvedIsThere == IInv /\ ResolveDefinition /\ at' = "refused" => FaultOK'
<1> SUFFICES ASSUME IInv, ResolveDefinition, at' = "refused" PROVE FaultOK'
  OBVIOUS
<1>1. /\ schema \in Schemas /\ schema' = schema /\ def \in Positions /\ at = "resolve"
      /\ links' = [place \in AllPlaces |->
                    IF place[1] = def THEN Resolve(Reference(place)) ELSE links[place]]
  BY DEF IInv, TypeOK, ResolveDefinition, In
<1>2. errors' = {"unresolved"} /\ \E place \in Places(def) : links'[place] = Nil
  BY <1>1 DEF ResolveDefinition, Refuse
<1>3. ASSUME NamesAreTold PROVE FaultIsThere("unresolved")
  <2>1. PICK place \in Places(def) : links'[place] = Nil
    BY <1>2
  <2>2. place \in AllPlaces /\ place[1] = def
    BY <1>1, InPlaces
  <2>3. Resolve(Reference(place)) = Nil
    BY <1>1, <2>1, <2>2
  <2>4. Denoted(place) = {Resolve(Reference(place))} \ {Nil}
    BY <1>1, <1>3, <2>2, ResolveFinds
  <2>5. Denoted(place) = {}
    BY <2>3, <2>4
  <2> QED BY <2>2, <2>5 DEF FaultIsThere
<1> QED BY <1>1, <1>2, <1>3, Refused DEF Faults

\* A schema refused by testReferenceConstraint is refused with a false alarm: whatever
\* names a typedef that names another is taken for a cycle on the first turn, before
\* it can be found to be dynamic or a sequence twice.
LEMMA TypedefFaults == IInv /\ FaultOK /\ FollowTypedef => FaultOK'
<1> SUFFICES ASSUME IInv, FaultOK, FollowTypedef PROVE FaultOK'
  OBVIOUS
<1>1. /\ schema \in Schemas /\ schema' = schema /\ links' = links /\ at = "typedef" /\ errors = {}
      /\ (slow = fast /\ slow # Nil /\ ~dynamic /\ ~sequence) \/ ~NamesTypedef(slow)
  BY DEF FollowTypedef, In, FaultOK, IInv, TypeOK
<1>2. CASE at' = "stopped"
  BY <1>2 DEF FaultOK
<1>3. CASE at' = "reference"
  <2>1. errors' = {}
    BY <1>1, <1>3 DEF FollowTypedef, Refuse, Stop
  <2> QED BY <1>3, <2>1 DEF FaultOK
<1>4. CASE at' = "refused"
  <2>1. errors' # {} /\ errors' \subseteq FalseAlarms
    BY <1>1, <1>4 DEF FollowTypedef, Refuse, Stop, FalseAlarms
  <2> QED BY <1>1, <1>4, <2>1, Refused
<1>5. CASE at' = "typedef"
  <2>1. /\ NamesTypedef(slow) /\ slow' = links[<<slow, 0>>] /\ slow' # Moved(Moved(fast))
        /\ Readable(slow) /\ Readable(Moved(fast)) /\ slow = fast /\ slow # Nil
    BY <1>1, <1>5 DEF FollowTypedef, Refuse, Stop
  <2>2. Moved(fast) = slow'
    BY <2>1 DEF Moved, Readable
  <2>3. slow' # Nil /\ IsTypedefRef(slow')
    BY <2>1, <2>2 DEF Moved, Readable
  <2>4. ~NamesTypedef(slow')
    BY <2>1, <2>2, <2>3 DEF Moved
  <2>5. ~NamesTypedef(slow)'
    <3>1. \A p, kind : Is(p, kind)' = Is(p, kind)
      BY <1>1, WrittenFrame
    <3> QED BY <1>1, <2>4, <3>1 DEF NamesTypedef
  <2>6. errors' = {}
    BY <1>1, <1>5, <2>1 DEF FollowTypedef, Refuse, Stop
  <2> QED BY <1>5, <2>5, <2>6 DEF FaultOK
<1>6. at' \in {"stopped", "reference", "refused", "typedef"}
  BY <1>1 DEF FollowTypedef, Refuse, Stop
<1> QED BY <1>2, <1>3, <1>4, <1>5, <1>6

\* A schema refused by testSuperGroupReferenceConstraint has the supergroup it
\* complains of.
LEMMA SuperFaults == IInv /\ TestSuper /\ at' = "refused" => FaultOK'
<1> SUFFICES ASSUME IInv, TestSuper, at' = "refused" PROVE FaultOK'
  OBVIOUS
<1> DEFINE super == links[<<def, 0>>]
           wrong == IF ~Is(Terminal(super), "group") THEN {"not a group"}
                    ELSE {m \in {"own supergroup"} : Terminal(super) = def}
                            \union {m \in {"sequence"} : BySequence(super)}
                            \union {m \in {"dynamic"} : ByDynamic(super)}
<1>1. /\ at = "super" /\ schema' = schema /\ Is(def, "group") /\ HasReference(def, 0)
      /\ errors' = wrong /\ wrong # {} /\ def # Nil
  BY DEF TestSuper, In, Refuse
<1>2. /\ schema \in Schemas /\ def \in Positions /\ ResolvedIn(Positions)
      /\ \A p \in Positions : Ending(p)
  BY <1>1 DEF IInv, TypeOK, LinksOK, TypedefsOK
<1>3. def \in Groups
  BY <1>1, <1>2 DEF Groups
<1>4. ASSUME NamesAreTold, NEW m \in wrong PROVE FaultIsThere(m)
  <2>1. Chain(def) \subseteq Beyond(def) /\ Parent(def) \in Beyond(def)
    BY <1>1, <1>2, <1>4, ChainBeyond
  <2>2. super \in Positions
    BY <1>1, <1>2, LinkIn
  <2>3. ~IsTypedefRef(Terminal(super))
    BY <1>2, <2>2, TerminalIs
  <2>4. Followed(super) \subseteq Beyond(def) /\ Terminal(super) \in Beyond(def)
    BY <2>1 DEF Chain, Parent
  <2> HIDE DEF super
  <2>5. CASE m = "not a group"
    <3>1. ~Is(Terminal(super), "group")
      BY <2>5
    <3> QED BY <1>3, <2>3, <2>4, <2>5, <3>1 DEF FaultIsThere
  <2>6. CASE m = "own supergroup"
    <3>1. Terminal(super) = def
      BY <2>6
    <3> QED BY <1>3, <2>4, <2>6, <3>1 DEF FaultIsThere
  <2>7. CASE m = "sequence"
    <3>1. PICK q \in Followed(super) : IsTypedefRef(q) /\ Def(q).type.seq
      BY <2>7 DEF BySequence
    <3>2. q \in Beyond(def)
      BY <2>4
    <3>3. q \in SequenceRefs
      BY <1>2, <3>1, <3>2, BeyondClosed DEF SequenceRefs
    <3> QED BY <1>3, <2>7, <3>2, <3>3 DEF FaultIsThere
  <2>8. CASE m = "dynamic"
    <3>1. PICK q \in Followed(super) : IsTypedefRef(q) /\ Def(q).type.dyn
      BY <2>8 DEF ByDynamic
    <3>2. q \in Beyond(def)
      BY <2>4
    <3>3. q \in DynamicRefs
      BY <1>2, <3>1, <3>2, BeyondClosed DEF DynamicRefs
    <3> QED BY <1>3, <2>8, <3>2, <3>3 DEF FaultIsThere
  <2>9. m \in {"not a group", "own supergroup", "sequence", "dynamic"}
    OBVIOUS
  <2> QED BY <2>5, <2>6, <2>7, <2>8, <2>9
<1>5. wrong \subseteq Faults
  BY DEF Faults
<1> HIDE DEF wrong
<1> QED BY <1>1, <1>2, <1>4, <1>5, Refused

\* A schema refused for a shadowed field has two fields of one name in a group and in
\* a group it inherits from.
LEMMA ShadowFaults == IInv /\ Shadow /\ at' = "refused" => FaultOK'
<1> SUFFICES ASSUME IInv, Shadow, at' = "refused" PROVE FaultOK'
  OBVIOUS
<1> DEFINE field == NextField(walk)
           met == {k \in DOMAIN Def(def).fields : <<def, k>> = field \/ FieldName(<<def, k>>) = FieldName(field)}
           first == CHOOSE k \in met : \A l \in met : k <= l
<1>1. /\ at = "shadow" /\ schema' = schema /\ errors' = {"shadowed"}
      /\ field # NoField /\ met # {} /\ <<def, first>> # field
  BY DEF Shadow, In, Refuse
<1>2. /\ schema \in Schemas /\ ResolvedIn(Positions) /\ (\A p \in Positions : Ending(p))
      /\ def \in Groups /\ def \in Positions
      /\ supers \in Seq(Groups) /\ supers # <<>> /\ supers[1] = def /\ Line(supers)
      /\ walk \in Walks /\ walk.index \in 1 .. Len(walk.stack) /\ walk.stack[1] = <<def, 1>>
      /\ Len(walk.stack) = Len(supers) /\ \A i \in DOMAIN supers : walk.stack[i][1] = supers[i]
  <2>1. def \in Groups /\ schema \in Schemas
    BY <1>1 DEF IInv, CountOK, TypeOK
  <2> QED BY <1>1, <2>1 DEF IInv, LinksOK, TypedefsOK, CountOK, WalkOK, Walking, Groups
<1>3. PICK n : /\ n \in 1 .. walk.index /\ Left(walk.stack[n]) /\ field = walk.stack[n]
  <2>1. TurnEnds(walk) \/ \E n \in Levels(walk) : TurnGives(walk, n)
    BY <1>2, Turn
  <2> QED BY <1>1, <2>1 DEF TurnEnds, TurnGives
<1>4. /\ n \in 1 .. Len(supers) /\ walk.stack[n] \in Positions \X (Nat \ {0})
      /\ walk.stack[n][1] = supers[n] /\ supers[n] \in Groups
  <2>1. /\ walk.stack \in Seq(Positions \X (Nat \ {0})) /\ Len(supers) \in Nat
        /\ DOMAIN supers = 1 .. Len(supers)
    BY <1>2 DEF Walks
  <2>2. n \in 1 .. Len(supers)
    BY <1>2, <1>3, <2>1
  <2>3. supers[n] \in Groups
    BY <1>2, <2>2
  <2> QED BY <1>2, <2>1, <2>2, <2>3
<1>5. met \in SUBSET Nat /\ \A k \in met : k >= 1
  <2>1. Len(Def(def).fields) \in Nat /\ DOMAIN Def(def).fields = 1 .. Len(Def(def).fields)
    BY <1>2, DefTypes
  <2> QED BY <2>1
<1>6. first \in met /\ \A l \in met : first <= l
  <2> HIDE DEF met
  <2>1. \E k \in met : \A l \in met : k <= l
    BY <1>1, <1>5, LeastOf
  <2> QED BY <2>1
<1> HIDE DEF first
<1>7. n # 1
  <2> SUFFICES ASSUME n = 1 PROVE FALSE
    OBVIOUS
  <2>1. field = <<def, 1>> /\ Left(<<def, 1>>)
    BY <1>2, <1>3
  <2>2. 1 \in DOMAIN Def(def).fields
    <3>1. Len(Def(def).fields) \in Nat /\ DOMAIN Def(def).fields = 1 .. Len(Def(def).fields)
      BY <1>2, DefTypes
    <3> QED BY <2>1, <3>1 DEF Left
  <2>3. 1 \in met
    <3> HIDE DEF field
    <3> QED BY <2>1, <2>2
  <2> HIDE DEF met
  <2>4. first = 1
    BY <1>5, <1>6, <2>3
  <2> QED BY <1>1, <2>1, <2>4
<1>8. first \in DOMAIN Def(def).fields /\ FieldName(<<def, first>>) = FieldName(field)
  <2> HIDE DEF field
  <2> QED BY <1>1, <1>6
<1>9. field \in FieldsOf(supers[n])
  <2>1. walk.stack[n] = <<supers[n], walk.stack[n][2]>> /\ walk.stack[n][2] \in Nat \ {0}
    BY <1>4
  <2>2. /\ Len(Def(supers[n]).fields) \in Nat
        /\ DOMAIN Def(supers[n]).fields = 1 .. Len(Def(supers[n]).fields)
    <3>1. supers[n] \in Positions
      BY <1>4 DEF Groups
    <3> QED BY <1>2, <3>1, DefTypes
  <2>3. walk.stack[n][2] \in DOMAIN Def(supers[n]).fields
    BY <1>3, <1>4, <2>1, <2>2 DEF Left
  <2> QED BY <1>3, <2>1, <2>3 DEF FieldsOf
<1> HIDE DEF field
<1>10. ASSUME NamesAreTold PROVE FaultIsThere("shadowed")
  <2>1. n \in 2 .. Len(supers)
    BY <1>4, <1>7
  <2>2. supers[n] \in Beyond(def)
    <3>1. 1 \in 1 .. Len(supers) /\ n \in 1 .. Len(supers) /\ 1 < n /\ supers[1] = def
      BY <1>2, <1>4, <2>1
    <3> QED BY <1>2, <1>10, <3>1, LineBeyond
  <2>3. supers[n] \in Ancestors(def) /\ <<def, first>> \in FieldsOf(def)
    BY <1>4, <1>8, <2>2 DEF Ancestors, FieldsOf
  <2> QED BY <1>2, <1>8, <1>9, <2>3 DEF FaultIsThere
<1> QED BY <1>1, <1>2, <1>10, Refused DEF Faults

\* A schema that is refused with another message than the two false alarms has the fault
\* that is reported: a reference that is not resolved has no definition, a group said to
\* inherit from what is no group, from itself, from a sequence or from a dynamic reference
\* does, a name said to be shadowed stands twice. ("double dynamic reference not allowed"
\* and "double sequence not allowed" are never reported; "Reference cycle detected" and
\* "a dynamic reference must resolve to a group" are, of schemas that are right.)
THEOREM FaultsAreThere == Spec => [](NamesAreTold => ErrorsNameTheFault)
<1>1. Init => FaultOK
  BY DEF Init, FaultOK
<1>2. IInv /\ FaultOK /\ [Next]_vars => FaultOK'
  <2> SUFFICES ASSUME IInv, FaultOK, [Next]_vars PROVE FaultOK'
    OBVIOUS
  <2>1. CASE ResolveDefinition
    <3>1. CASE at' = "refused"
      BY <2>1, <3>1, UnresolvedIsThere
    <3>2. CASE at' # "refused"
      <4>1. at = "resolve" /\ at' = at /\ errors' = errors
        BY <2>1, <3>2 DEF ResolveDefinition, In, Refuse
      <4> QED BY <3>2, <4>1 DEF FaultOK
    <3> QED BY <3>1, <3>2
  <2>2. CASE FollowTypedef
    BY <2>2, TypedefFaults
  <2>3. CASE TestSuper
    <3>1. CASE at' = "refused"
      BY <2>3, <3>1, SuperFaults
    <3>2. CASE at' # "refused"
      <4>1. at' \in {"super", "shadow count"}
        BY <2>3, <3>2 DEF TestSuper, In, Refuse
      <4> QED BY <4>1 DEF FaultOK
    <3> QED BY <3>1, <3>2
  <2>4. CASE Shadow
    <3>1. CASE at' = "refused"
      BY <2>4, <3>1, ShadowFaults
    <3>2. CASE at' # "refused"
      <4>1. at' \in {"super", "shadow"}
        BY <2>4, <3>2 DEF Shadow, In, Refuse
      <4> QED BY <4>1 DEF FaultOK
    <3> QED BY <3>1, <3>2
  <2>5. CASE AllResolved \/ ReferencesTested \/ Accept \/ TestReference
    <3>1. \/ at = "resolve" /\ at' = "reference" /\ errors' = errors
          \/ at = "reference" /\ at' = "reference" /\ errors' = errors
          \/ /\ at = "reference" /\ at' = "typedef" /\ errors' = errors
             /\ slow' = fast' /\ slow' # Nil /\ ~dynamic' /\ ~sequence'
          \/ at' \in {"super", "schema"}
      <4>1. Nil' = Nil
        BY DEF Nil
      <4> QED BY <2>5, <4>1 DEF AllResolved, ReferencesTested, Accept, TestReference, Loop, In
    <3> QED BY <3>1 DEF FaultOK
  <2>6. CASE CountForShadow \/ CountForFields
    <3>1. at' \in {"shadow count", "shadow", "fields count", "fields", "stopped"}
      BY <2>6 DEF CountForShadow, CountForFields, CountSuper, In, Stop
    <3> QED BY <3>1 DEF FaultOK
  <2>7. CASE Caller
    <3>1. at' \in Accepted \union {"stopped"}
      BY <2>7, CallerAsks DEF AsksOnly
    <3> QED BY <3>1 DEF FaultOK, Accepted
  <2>8. CASE UNCHANGED vars
    <3>1. /\ UNCHANGED <<at, errors, schema, links, slow, fast, dynamic, sequence>>
          /\ schema \in Schemas /\ errors \ FalseAlarms \subseteq Faults
      BY <2>8 DEF vars, pointers, IInv, TypeOK, FalseAlarms, Faults
    <3>2. /\ NamesAreTold' = NamesAreTold /\ \A m \in Faults : FaultIsThere(m)' = FaultIsThere(m)
          /\ \A p, kind : Is(p, kind)' = Is(p, kind)
      BY <3>1, WrittenFrame
    <3>3. NamesTypedef(slow)' = NamesTypedef(slow) /\ FalseAlarms' = FalseAlarms /\ Nil' = Nil
      BY <3>1, <3>2 DEF NamesTypedef, FalseAlarms, Nil
    <3> HIDE DEF Faults, FalseAlarms, NamesTypedef, Nil
    <3> QED BY <3>1, <3>2, <3>3 DEF FaultOK
  <2> QED BY <2>1, <2>2, <2>3, <2>4, <2>5, <2>6, <2>7, <2>8 DEF Next, Caller
<1>3. FaultOK => (NamesAreTold => ErrorsNameTheFault)
  BY DEF FaultOK, ErrorsNameTheFault
<1> QED BY <1>1, <1>2, <1>3, Invariance, PTL DEF Spec

-----------------------------------------------------------------------------
\* What the caller is given.

\* Schemas in which an id, or the name of a group, is that of one group only, and no such
\* name begins another.
IdsAreTold ==
    \A g, h \in Groups : Def(g).hasId /\ Def(h).hasId /\ Def(g).id = Def(h).id => g = h
GroupsAreTold ==
    \A g \in Groups :
        /\ Def(g).name # NoName
        /\ schema[g[1]].name = NoName => g[1] = 1
        /\ \A n \in DOMAIN schema : <<schema[g[1]].name, schema[n].name>> \notin NamePrefixes
        /\ \A p \in Positions : <<Def(g).name, Def(p).name>> \notin NamePrefixes

\* One field comes before another where the groups of s are walked through from the last.
InTurn(s, f, e) ==
    \E i, j \in 1 .. Len(s) : f[1] = s[i] /\ e[1] = s[j] /\ (j < i \/ (i = j /\ f[2] < e[2]))
Ordered(s, o) == \A a, b \in DOMAIN o : a < b => InTurn(s, o[a], o[b])

\* The walk w over the groups of s has given o; it has given all there is.
Walked(s, w, o) ==
    /\ Len(w.stack) = Len(s)
    /\ \A i \in 1 .. Len(s) :
          /\ w.stack[i][1] = s[i]
          /\ w.stack[i][2] - 1 <= Len(Def(s[i]).fields)
          /\ i < w.index => w.stack[i][2] = 1
          /\ \A k \in 1 .. (w.stack[i][2] - 1) : \E a \in DOMAIN o : o[a] = <<s[i], k>>
    /\ \A a \in DOMAIN o : \E i \in 1 .. Len(s) : \E k \in 1 .. (w.stack[i][2] - 1) : o[a] = <<s[i], k>>
    /\ Exhausted(w)
    /\ Ordered(s, o)
AllGiven(s, o) ==
    /\ {o[a] : a \in DOMAIN o} = UNION {FieldsOf(s[i]) : i \in 1 .. Len(s)}
    /\ Ordered(s, o)

\* A walk that begins has given nothing.
LEMMA WalkBegins ==
    ASSUME schema \in Schemas, NEW s \in Seq(Groups)
    PROVE  Walked(s, FieldIterator(s), <<>>)
<1> DEFINE w == FieldIterator(s)
<1>1. /\ w \in Walks /\ w.index = Len(s) /\ Len(w.stack) = Len(s)
      /\ \A i \in DOMAIN s : w.stack[i] = <<s[i], 1>>
  <2>1. s \in Seq(Positions)
    BY DEF Groups
  <2> QED BY <2>1, IteratorType
<1> HIDE DEF w
<1>2. Len(s) \in Nat /\ DOMAIN s = 1 .. Len(s) /\ DOMAIN w.stack = 1 .. Len(s)
  BY <1>1 DEF Walks
<1>3. \A i \in 1 .. Len(s) : w.stack[i] = <<s[i], 1>> /\ s[i] \in Positions
  BY <1>1, <1>2 DEF Groups
<1>4. \A i \in 1 .. Len(s) : Len(Def(s[i]).fields) \in Nat
  BY <1>3, DefTypes
<1>5. Exhausted(w)
  BY <1>1, <1>2 DEF Exhausted
<1>6. Ordered(s, <<>>) /\ DOMAIN <<>> = {}
  BY DEF Ordered
<1>7. \A i \in 1 .. Len(s) :
          /\ w.stack[i][1] = s[i] /\ w.stack[i][2] = 1
          /\ w.stack[i][2] - 1 <= Len(Def(s[i]).fields)
          /\ 1 .. (w.stack[i][2] - 1) = {}
  BY <1>3, <1>4
<1> QED BY <1>1, <1>5, <1>6, <1>7 DEF Walked, w

\* It goes on with the next field and ends when it has given them all.
LEMMA WalkGoesOn ==
    ASSUME schema \in Schemas, NEW s \in Seq(Groups), NEW w \in Walks, w.index \in 1 .. Len(w.stack),
           NEW o \in Seq(Positions \X Nat), Walked(s, w, o), NEW n, TurnGives(w, n)
    PROVE  /\ Walked(s, Stepped(w), Append(o, NextField(w)))
           /\ Append(o, NextField(w)) \in Seq(Positions \X Nat)
<1> DEFINE v == Stepped(w)
           field == NextField(w)
           u == Append(o, field)
           N == Len(s)
<1>1. /\ N \in Nat /\ Len(w.stack) = N /\ DOMAIN w.stack = 1 .. N /\ w.index \in 1 .. N
      /\ \A i \in 1 .. N : w.stack[i] \in Positions \X (Nat \ {0})
  <2>1. w.stack \in Seq(Positions \X (Nat \ {0})) /\ Len(w.stack) = N
    BY DEF Walks, Walked
  <2> QED BY <2>1
<1>2. /\ n \in 1 .. N /\ n <= w.index /\ Left(w.stack[n]) /\ field = w.stack[n]
      /\ (\A i \in (n + 1) .. w.index : ~Left(w.stack[i]))
      /\ v.index = n /\ v.stack[n] = <<w.stack[n][1], w.stack[n][2] + 1>>
      /\ \A i \in 1 .. N : i # n => v.stack[i] = w.stack[i]
  <2>1. TurnGives(w, n) /\ Len(w.stack) = N
    BY <1>1
  <2>2. n \in 1 .. w.index
    BY DEF TurnGives
  <2> QED BY <1>1, <2>1, <2>2 DEF TurnGives
<1>3. v \in Walks /\ Len(v.stack) = N /\ \A i \in 1 .. N : v.stack[i][1] = w.stack[i][1]
  BY <1>1, Turn
<1>4. DOMAIN v.stack = 1 .. N
  BY <1>3 DEF Walks
<1>5. \A i \in 1 .. N :
          /\ w.stack[i][1] = s[i]
          /\ w.stack[i][2] - 1 <= Len(Def(s[i]).fields)
          /\ i < w.index => w.stack[i][2] = 1
          /\ \A k \in 1 .. (w.stack[i][2] - 1) : \E a \in DOMAIN o : o[a] = <<s[i], k>>
  BY DEF Walked
<1>6. field \in Positions \X Nat /\ field = <<s[n], w.stack[n][2]>> /\ w.stack[n][2] \in Nat
  <2>1. w.stack[n] \in Positions \X (Nat \ {0}) /\ w.stack[n][1] = s[n]
    BY <1>1, <1>2, <1>5
  <2> QED BY <1>2, <2>1
<1> HIDE DEF v, field
<1>7. /\ u \in Seq(Positions \X Nat) /\ DOMAIN u = 1 .. (Len(o) + 1) /\ DOMAIN o = 1 .. Len(o)
      /\ Len(o) \in Nat /\ u[Len(o) + 1] = field /\ \A a \in DOMAIN o : u[a] = o[a]
  <2>1. u \in Seq(Positions \X Nat) /\ Longer(u, o, field)
    BY <1>6, Appended
  <2> HIDE DEF u
  <2>2. Len(o) \in Nat /\ DOMAIN o = 1 .. Len(o) /\ DOMAIN u = 1 .. Len(u)
    BY <2>1
  <2> QED BY <2>1, <2>2 DEF Longer
<1> HIDE DEF u
<1>8. \A a \in DOMAIN o : a \in DOMAIN u
  BY <1>7
<1>9. ASSUME NEW i \in 1 .. N
      PROVE  /\ v.stack[i][1] = s[i]
             /\ v.stack[i][2] - 1 <= Len(Def(s[i]).fields)
             /\ i < v.index => v.stack[i][2] = 1
             /\ \A k \in 1 .. (v.stack[i][2] - 1) : \E a \in DOMAIN u : u[a] = <<s[i], k>>
  <2>1. CASE i # n
    <3>1. v.stack[i] = w.stack[i] /\ (i < v.index => i < w.index)
      BY <1>1, <1>2, <2>1
    <3>2. ASSUME NEW k \in 1 .. (v.stack[i][2] - 1) PROVE \E a \in DOMAIN u : u[a] = <<s[i], k>>
      <4>1. PICK a \in DOMAIN o : o[a] = <<s[i], k>>
        BY <1>5, <3>1
      <4> QED BY <1>7, <1>8, <4>1
    <3>3. /\ w.stack[i][1] = s[i] /\ w.stack[i][2] - 1 <= Len(Def(s[i]).fields)
          /\ i < w.index => w.stack[i][2] = 1
      BY <1>5
    <3> QED BY <3>1, <3>2, <3>3
  <2>2. CASE i = n
    <3>1. v.stack[i] = <<s[n], w.stack[n][2] + 1>>
      BY <1>2, <1>5, <2>2
    <3>2. w.stack[n][2] <= Len(Def(s[n]).fields)
      BY <1>2, <1>5 DEF Left
    <3>3. ASSUME NEW k \in 1 .. w.stack[n][2] PROVE \E a \in DOMAIN u : u[a] = <<s[n], k>>
      <4>1. CASE k = w.stack[n][2]
        <5>1. Len(o) + 1 \in DOMAIN u
          BY <1>7
        <5> QED BY <1>6, <1>7, <4>1, <5>1
      <4>2. CASE k # w.stack[n][2]
        <5>1. k \in 1 .. (w.stack[n][2] - 1)
          BY <1>6, <4>2
        <5>2. PICK a \in DOMAIN o : o[a] = <<s[n], k>>
          BY <1>2, <1>5, <5>1
        <5> QED BY <1>7, <1>8, <5>2
      <4> QED BY <4>1, <4>2
    <3>4. v.stack[i][1] = s[i] /\ v.stack[i][2] - 1 = w.stack[n][2] /\ ~(i < v.index)
      BY <1>1, <1>2, <1>6, <2>2, <3>1
    <3> QED BY <2>2, <3>2, <3>3, <3>4
  <2> QED BY <2>1, <2>2
<1>10. ASSUME NEW a \in DOMAIN o
       PROVE  \E i \in 1 .. N : \E k \in 1 .. (w.stack[i][2] - 1) : o[a] = <<s[i], k>>
  BY DEF Walked
<1>11. ASSUME NEW a \in DOMAIN u
       PROVE  \E i \in 1 .. N : \E k \in 1 .. (v.stack[i][2] - 1) : u[a] = <<s[i], k>>
  <2>1. CASE a \in DOMAIN o
    <3>1. PICK i \in 1 .. N : \E k \in 1 .. (w.stack[i][2] - 1) : o[a] = <<s[i], k>>
      BY <1>10, <2>1
    <3>2. PICK k \in 1 .. (w.stack[i][2] - 1) : o[a] = <<s[i], k>>
      BY <3>1
    <3>3. k \in 1 .. (v.stack[i][2] - 1)
      <4>1. CASE i = n
        <5>1. v.stack[n][2] = w.stack[n][2] + 1
          BY <1>2
        <5>2. k \in 1 .. (w.stack[n][2] - 1)
          BY <4>1
        <5>3. k \in 1 .. (v.stack[n][2] - 1)
          BY <1>6, <5>1, <5>2
        <5> QED BY <4>1, <5>3
      <4>2. CASE i # n
        BY <1>2, <4>2
      <4> QED BY <4>1, <4>2
    <3> QED BY <1>7, <2>1, <3>2, <3>3
  <2>2. CASE a \notin DOMAIN o
    <3>1. u[a] = field
      <4>1. a = Len(o) + 1
        BY <1>7, <2>2
      <4> QED BY <1>7, <4>1
    <3>2. w.stack[n][2] \in 1 .. (v.stack[n][2] - 1)
      <4>1. v.stack[n][2] = w.stack[n][2] + 1 /\ w.stack[n] \in Positions \X (Nat \ {0})
        BY <1>1, <1>2
      <4> QED BY <4>1
    <3> QED BY <1>2, <1>6, <3>1, <3>2
  <2> QED BY <2>1, <2>2
<1>12. Exhausted(v)
  <2> SUFFICES ASSUME NEW i \in 1 .. N, i > n PROVE ~Left(v.stack[i])
    BY <1>2, <1>4 DEF Exhausted
  <2>1. v.stack[i] = w.stack[i]
    BY <1>2
  <2>2. i \in (n + 1) .. w.index \/ (i \in DOMAIN w.stack /\ i > w.index)
    BY <1>1, <1>2
  <2> QED BY <1>2, <2>1, <2>2 DEF Walked, Exhausted
<1>13. ASSUME NEW a \in DOMAIN o PROVE InTurn(s, o[a], field)
  <2>1. PICK i \in 1 .. N : \E k \in 1 .. (w.stack[i][2] - 1) : o[a] = <<s[i], k>>
    BY <1>10
  <2>2. PICK k \in 1 .. (w.stack[i][2] - 1) : o[a] = <<s[i], k>>
    BY <2>1
  <2>3. ~(i < w.index)
    <3> SUFFICES ASSUME i < w.index PROVE FALSE
      OBVIOUS
    <3>1. w.stack[i][2] = 1
      BY <1>5
    <3> QED BY <3>1
  <2>4. n < i \/ (i = n /\ k < w.stack[n][2])
    <3>1. n <= i
      BY <1>1, <1>2, <2>3
    <3>2. CASE i = n
      <4>1. k \in 1 .. (w.stack[n][2] - 1)
        BY <3>2
      <4> DEFINE x == w.stack[n][2]
      <4>2. x \in Nat /\ k \in 1 .. (x - 1)
        BY <1>6, <4>1
      <4> HIDE DEF x
      <4>3. k < x
        BY <4>2
      <4> QED BY <3>2, <4>3 DEF x
    <3> QED BY <1>2, <3>1, <3>2
  <2>5. o[a][1] = s[i] /\ o[a][2] = k /\ field[1] = s[n] /\ field[2] = w.stack[n][2]
    BY <1>6, <2>2
  <2> QED BY <1>2, <2>4, <2>5 DEF InTurn
<1>14. Ordered(s, u)
  <2> SUFFICES ASSUME NEW a \in DOMAIN u, NEW b \in DOMAIN u, a < b PROVE InTurn(s, u[a], u[b])
    BY DEF Ordered
  <2>1. a \in DOMAIN o
    BY <1>7
  <2>2. CASE b \in DOMAIN o
    BY <1>7, <2>1, <2>2 DEF Walked, Ordered
  <2>3. CASE b \notin DOMAIN o
    <3>1. b = Len(o) + 1
      BY <1>7, <2>3
    <3> QED BY <1>7, <1>13, <2>1, <3>1
  <2> QED BY <2>2, <2>3
<1>15. Walked(s, v, u)
  BY <1>3, <1>9, <1>11, <1>12, <1>14 DEF Walked
<1> QED BY <1>7, <1>15 DEF u, v, field

\* When it ends it has given every field of every group.
LEMMA WalkIsOver ==
    ASSUME schema \in Schemas, NEW s \in Seq(Groups), NEW w \in Walks, w.index \in 1 .. Len(w.stack),
           NEW o \in Seq(Positions \X Nat), Walked(s, w, o), TurnEnds(w)
    PROVE  AllGiven(s, o)
<1> DEFINE N == Len(s)
<1>1. /\ N \in Nat /\ Len(w.stack) = N /\ DOMAIN w.stack = 1 .. N /\ w.index \in 1 .. N
      /\ \A i \in 1 .. N : w.stack[i] \in Positions \X (Nat \ {0})
  <2>1. w.stack \in Seq(Positions \X (Nat \ {0})) /\ Len(w.stack) = N
    BY DEF Walks, Walked
  <2> QED BY <2>1
<1>2. ASSUME NEW i \in 1 .. N PROVE DOMAIN Def(s[i]).fields = 1 .. (w.stack[i][2] - 1)
  <2>1. ~Left(w.stack[i])
    <3>1. i \in 1 .. w.index \/ (i \in DOMAIN w.stack /\ i > w.index)
      BY <1>1
    <3> QED BY <3>1 DEF TurnEnds, Walked, Exhausted
  <2>2. w.stack[i][1] = s[i] /\ w.stack[i][2] - 1 <= Len(Def(s[i]).fields)
    BY DEF Walked
  <2>3. Len(Def(s[i]).fields) \in Nat /\ DOMAIN Def(s[i]).fields = 1 .. Len(Def(s[i]).fields)
    <3>1. s[i] \in Positions
      BY DEF Groups
    <3> QED BY <3>1, DefTypes
  <2>4. w.stack[i][2] \in Nat
    BY <1>1
  <2>5. w.stack[i][2] - 1 = Len(Def(s[i]).fields)
    <3>1. ~(w.stack[i][2] <= Len(Def(s[i]).fields))
      BY <2>1, <2>2 DEF Left
    <3> DEFINE l == Len(Def(s[i]).fields)
               m == w.stack[i][2]
    <3>2. l \in Nat /\ m \in Nat /\ m - 1 <= l /\ ~(m <= l)
      BY <2>2, <2>3, <2>4, <3>1
    <3> HIDE DEF l, m
    <3>3. m - 1 = l
      BY <3>2
    <3> QED BY <3>3 DEF l, m
  <2> QED BY <2>3, <2>5
<1>3. ASSUME NEW a \in DOMAIN o PROVE o[a] \in UNION {FieldsOf(s[i]) : i \in 1 .. N}
  <2>1. PICK i \in 1 .. N : \E k \in 1 .. (w.stack[i][2] - 1) : o[a] = <<s[i], k>>
    BY DEF Walked
  <2>2. o[a] \in FieldsOf(s[i])
    BY <1>2, <2>1 DEF FieldsOf
  <2> QED BY <2>2
<1>4. ASSUME NEW i \in 1 .. N, NEW f \in FieldsOf(s[i]) PROVE \E a \in DOMAIN o : o[a] = f
  <2>1. PICK k \in DOMAIN Def(s[i]).fields : f = <<s[i], k>>
    BY DEF FieldsOf
  <2> QED BY <1>2, <2>1 DEF Walked
<1>5. Ordered(s, o)
  BY DEF Walked
<1> QED BY <1>3, <1>4, <1>5 DEF AllGiven

\* The iterator over the definitions takes them in their order, and all of them.
LEMMA AfterTakes ==
    ASSUME schema \in Schemas, NEW p \in Positions
    PROVE  Passed(After(p)) = Passed(p) \union {p}
<1>1. Passed(After(p)) \subseteq Passed(p) \union {p} /\ After(p) \in Positions \union {Nil}
  BY AfterPasses
<1>2. /\ p # Nil /\ p = <<p[1], p[2]>> /\ p[1] \in Nat /\ p[2] \in Nat
      /\ Len(schema[p[1]].defs) \in Nat
  BY PositionTypes
<1>3. CASE After(p) = Nil
  BY <1>1, <1>3 DEF Passed
<1>4. CASE After(p) # Nil
  <2> DEFINE a == After(p)
  <2>1. p[1] < a[1] \/ (p[1] = a[1] /\ p[2] < a[2])
    <3>1. CASE p[2] < Len(schema[p[1]].defs)
      <4>1. a = <<p[1], p[2] + 1>>
        BY <1>2, <3>1 DEF After
      <4> HIDE DEF a
      <4> QED BY <1>2, <4>1
    <3>2. CASE ~(p[2] < Len(schema[p[1]].defs))
      <4> DEFINE n == p[1] + 1
                 later == {m \in DOMAIN schema : m >= n /\ schema[m].defs # <<>>}
      <4>1. a = DefinitionFrom(n)
        BY <1>2, <3>2 DEF After
      <4>2. later # {}
        BY <1>4, <4>1 DEF DefinitionFrom
      <4>3. a = <<CHOOSE m \in later : \A l \in later : m <= l, 1>>
        BY <4>1, <4>2 DEF DefinitionFrom
      <4>4. later \in SUBSET Nat /\ \A m \in later : m >= n
        BY Lists
      <4>5. \E m \in later : \A l \in later : m <= l
        <5> HIDE DEF later
        <5> QED BY <4>2, <4>4, LeastOf
      <4>6. a[1] \in later
        <5> HIDE DEF later, a
        <5> QED BY <4>3, <4>5
      <4> HIDE DEF later, a
      <4>7. a[1] \in Nat /\ a[1] >= p[1] + 1
        BY <4>4, <4>6
      <4> QED BY <1>2, <4>7
    <3> QED BY <3>1, <3>2
  <2>2. a \in Positions /\ a[1] \in Nat /\ a[2] \in Nat /\ a # Nil
    BY <1>1, <1>4, PositionTypes
  <2> HIDE DEF a
  <2>3. p \in Passed(a)
    BY <1>2, <2>1, <2>2 DEF Passed, Before
  <2>4. ASSUME NEW q \in Passed(p) PROVE q \in Passed(a)
    <3>1. q \in Positions /\ Before(q, p) /\ q # p
      BY <1>2 DEF Passed
    <3>2. q = <<q[1], q[2]>> /\ q[1] \in Nat /\ q[2] \in Nat
      BY <3>1, PositionTypes
    <3>3. q[1] < a[1] \/ (q[1] = a[1] /\ q[2] < a[2])
      BY <1>2, <2>1, <2>2, <3>1, <3>2 DEF Before
    <3> QED BY <2>2, <3>1, <3>2, <3>3 DEF Passed, Before
  <2> QED BY <1>1, <2>3, <2>4 DEF a
<1> QED BY <1>3, <1>4

\* A line of groups of an accepted schema does not come back to one it has passed, so
\* that it never needs to be cut.
LEMMA LineIsShort ==
    ASSUME schema \in Schemas, \A g \in Groups : Tested(g), NEW s \in Seq(Groups), Line(s)
    PROVE  /\ \A i, j \in 1 .. Len(s) : i < j => s[i] # s[j]
           /\ Len(s) < MaxSupers
<1>1. ASSUME NEW i \in 1 .. Len(s), NEW j \in 1 .. Len(s), i < j PROVE s[i] # s[j]
  <2>1. PICK A \in SUBSET Groups : Inherited(s[i], A)
    BY DEF Tested
  <2> DEFINE m == i + 1
             N == Len(s)
             T == {k \in m .. N : s[k] \in A}
  <2>2. N \in Nat /\ m \in Nat /\ m <= N /\ i \in 1 .. (N - 1)
    BY <1>1
  <2>3. m \in T
    <3>1. HasReference(s[i], 0) /\ s[m] = Parent(s[i])
      BY <2>2 DEF Line
    <3> QED BY <2>1, <2>2, <3>1 DEF Inherited
  <2>4. ASSUME NEW k \in m .. (N - 1), k \in T PROVE k + 1 \in T
    <3>1. k \in 1 .. (N - 1) /\ k + 1 \in m .. N /\ s[k] \in A
      BY <2>2, <2>4
    <3>2. HasReference(s[k], 0) /\ s[k + 1] = Parent(s[k])
      BY <3>1 DEF Line
    <3> QED BY <2>1, <3>1, <3>2 DEF Inherited
  <2>5. \A k \in m .. N : k \in T
    <3> HIDE DEF T, m, N
    <3> QED BY <2>2, <2>3, <2>4, FromTo
  <2>6. j \in m .. N
    BY <1>1, <2>2
  <2> QED BY <2>1, <2>5, <2>6 DEF Inherited
<1>2. Len(s) < MaxSupers
  <2> SUFFICES ASSUME ~(Len(s) < MaxSupers) PROVE FALSE
    OBVIOUS
  <2> DEFINE N == Cardinality(Positions)
             f == [n \in 0 .. N |-> s[n + 1]]
  <2>1. N \in Nat /\ IsFiniteSet(Positions) /\ Len(s) \in Nat /\ N + 1 <= Len(s)
    BY PositionsFinite DEF MaxSupers
  <2>2. f \in [0 .. N -> Positions]
    BY <2>1 DEF Groups
  <2>3. PICK i, j \in 0 .. N : i < j /\ f[i] = f[j]
    <3> HIDE DEF f
    <3> QED BY <2>1, <2>2, Repeats DEF N
  <2> HIDE DEF N
  <2>4. s[i + 1] = s[j + 1] /\ i + 1 \in 1 .. Len(s) /\ j + 1 \in 1 .. Len(s) /\ i + 1 < j + 1
    BY <2>1, <2>3
  <2> QED BY <1>1, <2>4
<1> QED BY <1>1, <1>2

\* The groups in the order in which they stand, up to the definition d.
InOrder(o) == \A a, b \in DOMAIN o : a < b => Before(o[a], o[b]) /\ o[a] # o[b]
GroupsGiven(d, o) == {o[a] : a \in DOMAIN o} = Groups \intersect Passed(d) /\ InOrder(o)

\* GroupIterator goes past a definition and gives it if it is a group.
LEMMA GroupsGoOn ==
    ASSUME schema \in Schemas, NEW d \in Positions, NEW o \in Seq(Groups), GroupsGiven(d, o)
    PROVE  /\ ~Is(d, "group") => GroupsGiven(After(d), o)
           /\ Is(d, "group") => GroupsGiven(After(d), Append(o, d)) /\ Append(o, d) \in Seq(Groups)
<1>1. Passed(After(d)) = Passed(d) \union {d} /\ d # Nil
  BY AfterTakes, PositionTypes
<1>2. CASE ~Is(d, "group")
  BY <1>1, <1>2 DEF GroupsGiven, Groups
<1>3. CASE Is(d, "group")
  <2> DEFINE u == Append(o, d)
  <2>1. d \in Groups
    BY <1>3 DEF Groups
  <2>2. /\ u \in Seq(Groups) /\ DOMAIN u = 1 .. (Len(o) + 1) /\ DOMAIN o = 1 .. Len(o)
        /\ Len(o) \in Nat /\ u[Len(o) + 1] = d /\ \A a \in DOMAIN o : u[a] = o[a]
    <3>1. u \in Seq(Groups) /\ Longer(u, o, d)
      BY <2>1, Appended
    <3> HIDE DEF u
    <3>2. Len(o) \in Nat /\ DOMAIN o = 1 .. Len(o) /\ DOMAIN u = 1 .. Len(u)
      BY <3>1
    <3> QED BY <3>1, <3>2 DEF Longer
  <2> HIDE DEF u
  <2>3. {u[a] : a \in DOMAIN u} = {o[a] : a \in DOMAIN o} \union {d}
    <3>1. ASSUME NEW a \in DOMAIN u PROVE u[a] \in {o[b] : b \in DOMAIN o} \union {d}
      <4>1. a \in DOMAIN o \/ a = Len(o) + 1
        BY <2>2
      <4> QED BY <2>2, <4>1
    <3>2. ASSUME NEW a \in DOMAIN o PROVE o[a] \in {u[b] : b \in DOMAIN u}
      <4>1. a \in DOMAIN u /\ u[a] = o[a]
        BY <2>2
      <4> QED BY <4>1
    <3>3. d \in {u[b] : b \in DOMAIN u}
      <4>1. Len(o) + 1 \in DOMAIN u
        BY <2>2
      <4> QED BY <2>2, <4>1
    <3> QED BY <3>1, <3>2, <3>3
  <2>4. ASSUME NEW a \in DOMAIN o PROVE Before(o[a], d) /\ o[a] # d
    <3>1. o[a] \in Passed(d)
      BY DEF GroupsGiven
    <3> QED BY <1>1, <3>1 DEF Passed
  <2>5. InOrder(u)
    <3> SUFFICES ASSUME NEW a \in DOMAIN u, NEW b \in DOMAIN u, a < b PROVE Before(u[a], u[b]) /\ u[a] # u[b]
      BY DEF InOrder
    <3>1. a \in DOMAIN o
      BY <2>2
    <3>2. CASE b \in DOMAIN o
      BY <2>2, <3>1, <3>2 DEF GroupsGiven, InOrder
    <3>3. CASE b \notin DOMAIN o
      <4>1. b = Len(o) + 1
        BY <2>2, <3>3
      <4> QED BY <2>2, <2>4, <3>1, <4>1
    <3> QED BY <3>2, <3>3
  <2>6. GroupsGiven(After(d), u)
    <3>1. {u[a] : a \in DOMAIN u} = Groups \intersect Passed(After(d))
      BY <1>1, <2>1, <2>3 DEF GroupsGiven
    <3> QED BY <2>5, <3>1 DEF GroupsGiven
  <2> QED BY <1>3, <2>2, <2>6 DEF u
<1> QED BY <1>2, <1>3

\* The groups a walk goes through for what was asked.
ListOf(g, op, s) ==
    /\ s # <<>> /\ s[1] = g
    /\ op = "fields" => Line(s) /\ ~HasReference(s[Len(s)], 0)
    /\ op = "own fields" => Len(s) = 1

\* What getType, getGroup and getEnum give.
TypeTold(field) == out = <<FieldType(field), FieldRefers(field, "group"), FieldRefers(field, "enum")>>

\* What is known of an answer, while it is given and when it has been.
Telling ==
    /\ asked.op \in {"fields", "own fields"}
    /\ \E s \in Seq(Groups) : ListOf(asked.of, asked.op, s) /\ Walked(s, walk, out)
Told ==
    /\ asked.op \in {"fields", "own fields", "groups", "id", "name", "type"}
    /\ asked.op \in {"fields", "own fields"} =>
            \E s \in Seq(Groups) : ListOf(asked.of, asked.op, s) /\ AllGiven(s, out)
    /\ asked.op = "groups" => GroupsGiven(Nil, out)
    /\ asked.op = "id" /\ IdsAreTold => \A g \in Groups : Def(g).hasId /\ Def(g).id = asked.of => out = <<g>>
    /\ asked.op = "name" /\ NamesAreTold /\ GroupsAreTold =>
            \A g \in Groups : Split[asked.of] = <<schema[g[1]].name, Def(g).name>> => out = <<g>>
    /\ asked.op = "type" =>
            \E g \in Groups : \E k \in DOMAIN Def(g).fields : asked.of = <<g, k>> /\ TypeTold(<<g, k>>)
AnswerOK ==
    /\ at \in Scanning \union {"schema", "fields count"} => out = <<>>
    /\ at = "fields count" => asked.op = "fields" /\ supers[1] = asked.of /\ Line(supers)
    /\ at = "fields" => out \in Seq(Positions \X Nat) /\ Telling
    /\ at = "groups" => asked.op = "groups" /\ out \in Seq(Groups) /\ GroupsGiven(iter, out)
    /\ at = "done" => Told

\* What is known of an answer is so in the next state while the schema is the same.
LEMMA AnswerFrame ==
    ASSUME schema \in Schemas, schema' = schema, links' = links
    PROVE  /\ \A g, op, s : ListOf(g, op, s)' = ListOf(g, op, s)
           /\ \A s, w, o : Walked(s, w, o)' = Walked(s, w, o)
           /\ \A s, o : AllGiven(s, o)' = AllGiven(s, o)
           /\ \A d, o : GroupsGiven(d, o)' = GroupsGiven(d, o)
           /\ Positions' = Positions /\ Groups' = Groups /\ \A d : Def(d)' = Def(d)
           /\ NamesAreTold' = NamesAreTold
           /\ IdsAreTold' = IdsAreTold /\ GroupsAreTold' = GroupsAreTold
           /\ \A f : FieldType(f)' = FieldType(f)
           /\ \A f, kind : FieldRefers(f, kind)' = FieldRefers(f, kind)
<1>1. /\ Positions' = Positions /\ Groups' = Groups /\ NamesAreTold' = NamesAreTold
      /\ \A d : Def(d)' = Def(d) /\ Passed(d)' = Passed(d) /\ HasReference(d, 0)' = HasReference(d, 0)
      /\ \A s : Line(s)' = Line(s)
      /\ \A w : Exhausted(w)' = Exhausted(w)
  <2>1. NamesAreTold' = NamesAreTold
    BY WrittenFrame
  <2> QED BY <2>1, SchemaFrame, LinksFrame
<1>2. \A g, op, s : ListOf(g, op, s)' = ListOf(g, op, s)
  BY <1>1 DEF ListOf
<1>3. \A s, o : Ordered(s, o)' = Ordered(s, o)
  BY DEF Ordered, InTurn
<1>4. \A s, w, o : Walked(s, w, o)' = Walked(s, w, o)
  <2> TAKE s, w, o
  <2>1. Exhausted(w)' = Exhausted(w) /\ Ordered(s, o)' = Ordered(s, o) /\ \A d : Def(d)' = Def(d)
    BY <1>1, <1>3
  <2> QED BY <2>1 DEF Walked
<1>5. \A s, o : AllGiven(s, o)' = AllGiven(s, o)
  <2>1. \A g : FieldsOf(g)' = FieldsOf(g)
    BY <1>1 DEF FieldsOf
  <2> QED BY <1>3, <2>1 DEF AllGiven
<1>6. \A d, o : GroupsGiven(d, o)' = GroupsGiven(d, o)
  BY <1>1 DEF GroupsGiven, InOrder, Before
<1>7. IdsAreTold' = IdsAreTold /\ GroupsAreTold' = GroupsAreTold
  BY <1>1 DEF IdsAreTold, GroupsAreTold
<1>8. /\ \A f : FieldType(f)' = FieldType(f)
      /\ \A f, kind : FieldRefers(f, kind)' = FieldRefers(f, kind)
  <2>1. \A p, kind : Is(p, kind)' = Is(p, kind)
    BY <1>1 DEF Is
  <2>2. \A p : Terminal(p)' = Terminal(p) /\ ByDynamic(p)' = ByDynamic(p)
    BY FollowedFrame
  <2>3. Nil' = Nil /\ \A t : Ref(t)' = Ref(t)
    BY DEF Nil, Ref
  <2>4. \A f : FieldType(f)' = FieldType(f)
    BY <1>1, <2>1, <2>2, <2>3 DEF FieldType
  <2>5. \A f, kind : FieldRefers(f, kind)' = FieldRefers(f, kind)
    BY <1>1, <2>1, <2>2, <2>3 DEF FieldRefers
  <2> QED BY <2>4, <2>5
<1> QED BY <1>1, <1>2, <1>4, <1>5, <1>6, <1>7, <1>8

\* An iterator that is set up over a group has given nothing, and a count of its
\* supergroups starts at it.
LEMMA ListFieldsTells == IInv /\ AnswerOK /\ ListFields => AnswerOK'
<1> SUFFICES ASSUME IInv, AnswerOK, ListFields PROVE AnswerOK'
  OBVIOUS
<1>1. /\ schema \in Schemas /\ schema' = schema /\ links' = links /\ at = "schema" /\ out' = out
      /\ out = <<>>
  BY DEF ListFields, In, IInv, TypeOK, AnswerOK
<1>2. PICK g \in Groups :
          \/ asked' = [op |-> "fields", of |-> g] /\ at' = "fields count" /\ supers' = <<g>>
          \/ asked' = [op |-> "own fields", of |-> g] /\ at' = "fields" /\ walk' = FieldIterator(<<g>>)
  BY DEF ListFields, Ask
<1>3. CASE asked' = [op |-> "fields", of |-> g] /\ at' = "fields count" /\ supers' = <<g>>
  <2>1. Len(supers') = 1 /\ supers'[1] = g
    BY <1>3
  <2>2. Line(supers)'
    BY <2>1 DEF Line
  <2> QED BY <1>1, <1>3, <2>1, <2>2 DEF AnswerOK
<1>4. CASE asked' = [op |-> "own fields", of |-> g] /\ at' = "fields" /\ walk' = FieldIterator(<<g>>)
  <2> DEFINE s == <<g>>
  <2>1. s \in Seq(Groups) /\ Len(s) = 1 /\ s # <<>> /\ s[1] = g
    OBVIOUS
  <2>2. Walked(s, FieldIterator(s), <<>>)
    BY <1>1, <2>1, WalkBegins
  <2>3. ListOf(g, "own fields", s)
    BY <2>1 DEF ListOf
  <2> HIDE DEF s
  <2>4. walk' = FieldIterator(s) /\ out' = <<>> /\ asked'.op = "own fields" /\ asked'.of = g
    BY <1>1, <1>4 DEF s
  <2>5. Walked(s, walk', out') /\ ListOf(asked'.of, asked'.op, s)
    BY <2>2, <2>3, <2>4
  <2>6. Telling'
    BY <1>1, <2>1, <2>4, <2>5, AnswerFrame DEF Telling
  <2>7. out' \in Seq(Positions \X Nat)'
    <3>1. <<>> \in Seq(Positions' \X Nat)
      OBVIOUS
    <3> QED BY <2>4, <3>1
  <2> QED BY <1>4, <2>6, <2>7 DEF AnswerOK, Scanning
<1> QED BY <1>2, <1>3, <1>4

\* The count goes along the supergroups to the last; the iterator is then set up over
\* all of them.
LEMMA CountFieldsTells == IInv /\ AnswerOK /\ CountForFields => AnswerOK'
<1> SUFFICES ASSUME IInv, AnswerOK, CountForFields PROVE AnswerOK'
  OBVIOUS
<1> DEFINE super == Parent(Last)
<1>1. /\ schema \in Schemas /\ schema' = schema /\ links' = links /\ at = "fields count"
      /\ UNCHANGED <<asked, out>>
  BY DEF CountForFields, CountSuper, In, IInv, TypeOK, request
<1>2. \/ /\ ~HasReference(Last, 0) /\ at' = "fields" /\ walk' = FieldIterator(supers)
      \/ /\ HasReference(Last, 0) /\ Is(super, "group") /\ at' = at
         /\ supers' = IF Len(supers) < MaxSupers THEN Append(supers, super)
                      ELSE Append(Tail(supers), super)
      \/ at' = "stopped"
  BY DEF CountForFields, CountSuper, Stop, Parent
<1> HIDE DEF super
<1>3. /\ out = <<>> /\ asked.op = "fields" /\ supers[1] = asked.of /\ Line(supers)
      /\ supers \in Seq(Groups) /\ supers # <<>> /\ Len(supers) \in Nat
      /\ ResolvedIn(Positions) /\ (\A p \in Positions : Ending(p)) /\ \A g \in Groups : Tested(g)
  <2>1. out = <<>> /\ asked.op = "fields" /\ supers[1] = asked.of /\ Line(supers)
    BY <1>1 DEF AnswerOK
  <2>2. supers \in Seq(Groups) /\ supers # <<>>
    BY <1>1 DEF IInv, CountOK
  <2>3. ResolvedIn(Positions) /\ (\A p \in Positions : Ending(p)) /\ \A g \in Groups : Tested(g)
    BY <1>1 DEF IInv, LinksOK, TypedefsOK, GroupsOK, Accepted
  <2>4. Len(supers) \in Nat
    BY <2>2
  <2> QED BY <2>1, <2>2, <2>3, <2>4
<1>4. Last \in Groups /\ Last \in Positions
  <2>1. Last \in Groups
    BY <1>3 DEF Last
  <2> QED BY <2>1 DEF Groups
<1>5. CASE ~HasReference(Last, 0) /\ at' = "fields" /\ walk' = FieldIterator(supers)
  <2>1. Walked(supers, walk', out')
    BY <1>1, <1>3, <1>5, WalkBegins
  <2>2. ListOf(asked'.of, asked'.op, supers)
    BY <1>1, <1>3, <1>5 DEF ListOf, Last
  <2>3. Telling'
    BY <1>1, <1>3, <2>1, <2>2, AnswerFrame DEF Telling
  <2>4. out' \in Seq(Positions \X Nat)'
    <3>1. <<>> \in Seq(Positions' \X Nat)
      OBVIOUS
    <3> QED BY <1>1, <1>3, <3>1
  <2> QED BY <1>5, <2>3, <2>4 DEF AnswerOK, Scanning
<1>6. CASE HasReference(Last, 0) /\ Is(super, "group") /\ at' = at
           /\ supers' = IF Len(supers) < MaxSupers THEN Append(supers, super)
                        ELSE Append(Tail(supers), super)
  <2>1. super \in Groups
    <3>1. Parent(Last) \in Positions
      BY <1>1, <1>3, <1>4, <1>6, ParentIs
    <3> QED BY <1>6, <3>1 DEF Groups, super
  <2>2. Longer(Append(supers, super), supers, super)
    BY <1>3, <2>1, Appended
  <2>3. Len(supers) < MaxSupers
    BY <1>1, <1>3, LineIsShort
  <2>4. Longer(supers', supers, super)
    BY <1>6, <2>2, <2>3
  <2>5. 1 \in 1 .. Len(supers) /\ Len(supers') = Len(supers) + 1
    BY <1>3, <2>4 DEF Longer
  <2>6. supers'[1] = supers[1]
    BY <2>4, <2>5 DEF Longer
  <2>7. ASSUME NEW i \in 1 .. (Len(supers') - 1)
        PROVE  HasReference(supers'[i], 0) /\ supers'[i + 1] = Parent(supers'[i])
    <3>1. i \in 1 .. Len(supers)
      BY <1>3, <2>5
    <3>2. CASE i = Len(supers)
      <4>1. supers'[i] = Last /\ supers'[i + 1] = super
        BY <2>4, <2>5, <3>1, <3>2 DEF Longer, Last
      <4> QED BY <1>6, <4>1 DEF super
    <3>3. CASE i # Len(supers)
      <4>1. i \in 1 .. (Len(supers) - 1) /\ i + 1 \in 1 .. Len(supers)
        BY <1>3, <3>1, <3>3
      <4>2. supers'[i] = supers[i] /\ supers'[i + 1] = supers[i + 1]
        BY <2>4, <3>1, <4>1 DEF Longer
      <4> QED BY <1>3, <4>1, <4>2 DEF Line
    <3> QED BY <3>2, <3>3
  <2>8. Line(supers')
    BY <2>7 DEF Line
  <2>9. Line(supers)'
    <3>1. \A s : Line(s)' = Line(s)
      BY <1>1, LinksFrame
    <3> QED BY <2>8, <3>1
  <2> QED BY <1>1, <1>3, <1>6, <2>6, <2>9 DEF AnswerOK
<1>7. CASE at' = "stopped"
  BY <1>7 DEF AnswerOK, Scanning
<1> QED BY <1>2, <1>5, <1>6, <1>7

\* next gives the field whose turn it is, and ends when it has given them all.
LEMMA GiveFieldTells == IInv /\ AnswerOK /\ GiveField => AnswerOK'
<1> SUFFICES ASSUME IInv, AnswerOK, GiveField PROVE AnswerOK'
  OBVIOUS
<1>1. /\ schema \in Schemas /\ schema' = schema /\ links' = links /\ at = "fields" /\ asked' = asked
      /\ walk' = Stepped(walk) /\ walk \in Walks /\ walk.index \in 1 .. Len(walk.stack)
      /\ out \in Seq(Positions \X Nat) /\ asked.op \in {"fields", "own fields"}
  <2>1. at = "fields" /\ schema' = schema /\ links' = links /\ asked' = asked /\ walk' = Stepped(walk)
    BY DEF GiveField, In
  <2> QED BY <2>1 DEF IInv, TypeOK, WalkOK, Walking, AnswerOK, Telling
<1>2. \/ NextField(walk) = NoField /\ at' = "done" /\ out' = out
      \/ NextField(walk) # NoField /\ at' = at /\ out' = Append(out, NextField(walk))
  BY DEF GiveField, Answer
<1>3. PICK s \in Seq(Groups) : ListOf(asked.of, asked.op, s) /\ Walked(s, walk, out)
  BY <1>1 DEF AnswerOK, Telling
<1>4. TurnEnds(walk) \/ \E n \in Levels(walk) : TurnGives(walk, n)
  BY <1>1, Turn
<1>5. CASE TurnEnds(walk)
  <2>1. at' = "done" /\ out' = out
    BY <1>2, <1>5 DEF TurnEnds
  <2>2. AllGiven(s, out)
    BY <1>1, <1>3, <1>5, WalkIsOver
  <2>3. AllGiven(s, out') /\ ListOf(asked'.of, asked'.op, s) /\ s \in Seq(Groups')
    BY <1>1, <1>3, <2>1, <2>2, AnswerFrame
  <2>4. Told'
    BY <1>1, <2>3, AnswerFrame DEF Told
  <2> QED BY <2>1, <2>4 DEF AnswerOK, Scanning
<1>6. CASE \E n \in Levels(walk) : TurnGives(walk, n)
  <2>1. PICK n : TurnGives(walk, n)
    BY <1>6
  <2>2. at' = at /\ out' = Append(out, NextField(walk))
    BY <1>2, <2>1 DEF TurnGives
  <2>3. Walked(s, walk', out') /\ out' \in Seq(Positions \X Nat)
    BY <1>1, <1>3, <2>1, <2>2, WalkGoesOn
  <2>4. Telling'
    BY <1>1, <1>3, <2>3, AnswerFrame DEF Telling
  <2>5. out' \in Seq(Positions \X Nat)'
    BY <1>1, <2>3, AnswerFrame
  <2> QED BY <1>1, <2>2, <2>4, <2>5 DEF AnswerOK, Scanning
<1> QED BY <1>4, <1>5, <1>6

\* The walk over the groups gives them in their order, and ends when it has given them
\* all.
LEMMA GroupsTell == IInv /\ AnswerOK /\ (ListGroups \/ GiveGroup) => AnswerOK'
<1> SUFFICES ASSUME IInv, AnswerOK, ListGroups \/ GiveGroup PROVE AnswerOK'
  OBVIOUS
<1>1. /\ schema \in Schemas /\ schema' = schema /\ links' = links /\ iter \in Positions \union {Nil}
      /\ Groups' = Groups /\ \A d, o : GroupsGiven(d, o)' = GroupsGiven(d, o)
  <2>1. schema \in Schemas /\ schema' = schema /\ links' = links /\ iter \in Positions \union {Nil}
    BY DEF ListGroups, GiveGroup, In, IInv, TypeOK
  <2> QED BY <2>1, AnswerFrame
<1>2. CASE ListGroups
  <2>1. /\ at' = "groups" /\ iter' = FirstDefinition /\ out' = <<>> /\ asked' = [op |-> "groups", of |-> Nil]
    BY <1>2 DEF ListGroups, In, Ask, AnswerOK
  <2>2. GroupsGiven(FirstDefinition, <<>>)
    BY <1>1, FirstPasses DEF GroupsGiven, InOrder
  <2>3. out' \in Seq(Groups) /\ GroupsGiven(iter', out')
    BY <2>1, <2>2
  <2> QED BY <1>1, <2>1, <2>3 DEF AnswerOK, Scanning
<1>3. CASE GiveGroup
  <2>1. /\ at = "groups" /\ asked' = asked /\ iter' = After(iter)
        /\ asked.op = "groups" /\ out \in Seq(Groups) /\ GroupsGiven(iter, out)
    BY <1>3 DEF GiveGroup, In, AnswerOK
  <2>2. CASE iter = Nil
    <3>1. at' = "done" /\ out' = out
      BY <1>3, <2>2 DEF GiveGroup, Answer
    <3>2. GroupsGiven(Nil, out')
      BY <2>1, <2>2, <3>1
    <3>3. asked'.op = "groups"
      BY <2>1
    <3>4. Told'
      <4>1. GroupsGiven(Nil, out)'
        BY <1>1, <3>2
      <4> QED BY <3>3, <4>1 DEF Told
    <3> QED BY <3>1, <3>4 DEF AnswerOK, Scanning
  <2>3. CASE iter # Nil
    <3>1. at' = at /\ out' = IF Is(iter, "group") THEN Append(out, iter) ELSE out
      BY <1>3, <2>3 DEF GiveGroup
    <3>2. iter \in Positions
      BY <1>1, <2>3
    <3>3. GroupsGiven(iter', out') /\ out' \in Seq(Groups)
      BY <1>1, <2>1, <3>1, <3>2, GroupsGoOn
    <3> QED BY <1>1, <2>1, <3>1, <3>3 DEF AnswerOK, Scanning
  <2> QED BY <2>2, <2>3
<1> QED BY <1>2, <1>3

\* getGroupByID gives the one group that has the id.
LEMMA GroupByIDTells == IInv /\ AnswerOK /\ GetGroupByID => AnswerOK'
<1> SUFFICES ASSUME IInv, AnswerOK, GetGroupByID PROVE AnswerOK'
  OBVIOUS
<1>1. schema \in Schemas /\ schema' = schema /\ links' = links /\ at' = "done"
  BY DEF GetGroupByID, In, Answer, IInv, TypeOK
<1>2. PICK id :
        /\ asked' = [op |-> "id", of |-> id]
        /\ LET found == {g \in Groups : Def(g).hasId /\ Def(g).id = id}
           IN  out' = IF found = {} THEN <<>>
                      ELSE <<CHOOSE g \in found : \A h \in found : Before(g, h)>>
  BY DEF GetGroupByID, Ask, Answer
<1> DEFINE found == {g \in Groups : Def(g).hasId /\ Def(g).id = id}
<1>3. ASSUME IdsAreTold, NEW g \in Groups, Def(g).hasId, Def(g).id = id PROVE out' = <<g>>
  <2>1. found = {g}
    BY <1>3 DEF IdsAreTold
  <2>2. Before(g, g)
    <3>1. g \in Positions
      BY DEF Groups
    <3>2. g[1] \in Nat /\ g[2] \in Nat
      BY <1>1, <3>1, PositionTypes
    <3> QED BY <3>2 DEF Before
  <2>3. out' = <<CHOOSE h \in {g} : \A i \in {g} : Before(h, i)>>
    BY <1>2, <2>1
  <2> QED BY <2>2, <2>3
<1>4. asked'.op = "id" /\ asked'.of = id
  BY <1>2
<1> HIDE DEF found
<1>5. Told'
  <2>1. IdsAreTold' = IdsAreTold /\ Groups' = Groups /\ \A d : Def(d)' = Def(d)
    BY <1>1, AnswerFrame
  <2> QED BY <1>3, <1>4, <2>1 DEF Told
<1> QED BY <1>1, <1>5 DEF AnswerOK, Scanning

\* The name of a group, where names are told apart, is resolved to the group.
LEMMA NameResolves ==
    ASSUME schema \in Schemas, NamesAreTold, GroupsAreTold, NEW g \in Groups, NEW name,
           Split[name] = <<schema[g[1]].name, Def(g).name>>
    PROVE  Resolve(name) = g
<1> DEFINE c == Split[name]
           n == Search(schema, c[1])
           k == Search(schema[n].defs, c[2])
<1>1. /\ g \in Positions /\ g = <<g[1], g[2]>> /\ g[1] \in DOMAIN schema
      /\ g[2] \in DOMAIN schema[g[1]].defs
  BY InPositions DEF Groups
<1>2. c[1] = schema[g[1]].name /\ c[2] = Def(g).name
  OBVIOUS
<1>3. Resolve(name) = IF n = 0 THEN Nil ELSE IF k = 0 THEN Nil ELSE <<n, k>>
  BY DEF Resolve
<1>4. Len(schema) \in Nat /\ DOMAIN schema = 1 .. Len(schema)
  BY Lists
<1>5. \/ n = 0 /\ \A m \in DOMAIN schema : ~Finds(c[1], schema[m].name)
      \/ /\ n \in DOMAIN schema /\ Finds(c[1], schema[n].name)
         /\ \A m \in DOMAIN schema : Finds(c[1], schema[m].name) => n <= m
  BY <1>4, SearchFinds
<1>6. ASSUME n # 0
      PROVE  \/ k = 0 /\ \A l \in DOMAIN schema[n].defs : ~Finds(c[2], schema[n].defs[l].name)
             \/ k \in DOMAIN schema[n].defs /\ Finds(c[2], schema[n].defs[k].name)
  <2> HIDE DEF n, c
  <2>1. Len(schema[n].defs) \in Nat /\ DOMAIN schema[n].defs = 1 .. Len(schema[n].defs)
    BY <1>5, <1>6, Lists
  <2> QED BY <2>1, SearchFinds
<1> HIDE DEF c, n, k
<1>7. /\ c[2] # NoName /\ (c[1] = NoName => g[1] = 1)
      /\ (\A m \in DOMAIN schema : <<c[1], schema[m].name>> \notin NamePrefixes)
      /\ \A p \in Positions : <<c[2], Def(p).name>> \notin NamePrefixes
  BY <1>2 DEF GroupsAreTold
<1>8. n = g[1]
  <2>1. Finds(c[1], schema[g[1]].name)
    BY <1>2 DEF Finds
  <2>2. n \in DOMAIN schema /\ n <= g[1]
    BY <1>1, <1>5, <2>1
  <2>3. CASE c[1] = NoName
    BY <1>4, <1>7, <2>2, <2>3
  <2>4. CASE c[1] # NoName
    <3>1. schema[n].name = schema[g[1]].name
      BY <1>1, <1>2, <1>4, <1>5, <1>7, <2>1, <2>2, <2>4 DEF Finds
    <3> QED BY <1>1, <2>2, <3>1 DEF NamesAreTold
  <2> QED BY <2>3, <2>4
<1>9. n # 0
  BY <1>1, <1>4, <1>8
<1>10. k \in DOMAIN schema[n].defs /\ Finds(c[2], schema[n].defs[k].name)
  <2>1. Finds(c[2], schema[n].defs[g[2]].name)
    BY <1>2, <1>8 DEF Finds, Def
  <2> QED BY <1>1, <1>6, <1>8, <1>9, <2>1
<1>11. <<n, k>> \in Positions /\ Def(<<n, k>>) = schema[n].defs[k] /\ <<n, k>>[1] = g[1]
  BY <1>1, <1>8, <1>10, InPositions DEF Def
<1>12. Def(<<n, k>>).name = Def(g).name
  BY <1>2, <1>7, <1>10, <1>11 DEF Finds
<1>13. <<n, k>> = g
  <2>1. \A o, p \in Positions : o[1] = p[1] /\ Def(o).name = Def(p).name => o = p
    BY DEF NamesAreTold
  <2> QED BY <1>1, <1>11, <1>12, <2>1
<1>14. k # 0
  <2>1. g[2] # 0
    BY <1>1, PositionTypes
  <2> QED BY <1>13, <2>1
<1> QED BY <1>3, <1>9, <1>13, <1>14

\* getGroupByName gives the one group that has the name.
LEMMA GroupByNameTells == IInv /\ AnswerOK /\ GetGroupByName => AnswerOK'
<1> SUFFICES ASSUME IInv, AnswerOK, GetGroupByName PROVE AnswerOK'
  OBVIOUS
<1>1. schema \in Schemas /\ schema' = schema /\ links' = links /\ at = "schema"
  BY DEF GetGroupByName, In, IInv, TypeOK
<1>2. PICK name :
        /\ asked' = [op |-> "name", of |-> name]
        /\ \/ Resolve(name) = Nil /\ at' = "done"
           \/ Resolve(name) # Nil /\ at' = "done" /\ out' = <<Resolve(name)>>
           \/ at' = "stopped"
  BY DEF GetGroupByName, Ask, Answer, Stop
<1>3. CASE at' = "stopped"
  BY <1>3 DEF AnswerOK, Scanning
<1>4. CASE at' = "done"
  <2>1. ASSUME NamesAreTold, GroupsAreTold, NEW g \in Groups, Split[name] = <<schema[g[1]].name, Def(g).name>>
        PROVE  out' = <<g>>
    <3>1. Resolve(name) = g
      BY <1>1, <2>1, NameResolves
    <3>2. g # Nil
      <4>1. g \in Positions
        BY DEF Groups
      <4> QED BY <1>1, <4>1, PositionTypes
    <3> QED BY <1>2, <1>4, <3>1, <3>2
  <2>2. asked'.op = "name" /\ asked'.of = name
    BY <1>2
  <2>3. /\ NamesAreTold' = NamesAreTold /\ GroupsAreTold' = GroupsAreTold
        /\ Groups' = Groups /\ \A d : Def(d)' = Def(d)
    BY <1>1, AnswerFrame
  <2>4. Told'
    BY <1>1, <2>1, <2>2, <2>3 DEF Told
  <2> QED BY <1>4, <2>4 DEF AnswerOK, Scanning
<1> QED BY <1>2, <1>3, <1>4

\* The accessors of a field are read with the pointers of the schema.
LEMMA ReadFieldTells == IInv /\ AnswerOK /\ ReadField => AnswerOK'
<1> SUFFICES ASSUME IInv, AnswerOK, ReadField PROVE AnswerOK'
  OBVIOUS
<1>1. schema \in Schemas /\ schema' = schema /\ links' = links /\ at = "schema" /\ at' = "done"
  BY DEF ReadField, In, Answer, IInv, TypeOK
<1>2. PICK g \in Groups : \E k \in DOMAIN Def(g).fields :
        /\ asked' = [op |-> "type", of |-> <<g, k>>]
        /\ out' = <<FieldType(<<g, k>>), FieldRefers(<<g, k>>, "group"), FieldRefers(<<g, k>>, "enum")>>
  BY DEF ReadField, Ask, Answer
<1>3. PICK k \in DOMAIN Def(g).fields :
        /\ asked' = [op |-> "type", of |-> <<g, k>>]
        /\ out' = <<FieldType(<<g, k>>), FieldRefers(<<g, k>>, "group"), FieldRefers(<<g, k>>, "enum")>>
  BY <1>2
<1>4. TypeTold(<<g, k>>)'
  BY <1>1, <1>3, AnswerFrame DEF TypeTold
<1>5. Groups' = Groups /\ \A d : Def(d)' = Def(d)
  BY <1>1, AnswerFrame
<1>6. (\E h \in Groups : \E l \in DOMAIN Def(h).fields : asked.of = <<h, l>> /\ TypeTold(<<h, l>>))'
  <2>1. asked'.of = <<g, k>>
    BY <1>3
  <2> QED BY <1>4, <1>5, <2>1
<1>7. asked'.op = "type"
  BY <1>3
<1>8. Told'
  BY <1>6, <1>7 DEF Told
<1> QED BY <1>1, <1>8 DEF AnswerOK, Scanning

\* What a reference means is what is come to by the pointers.
LEMMA MeantIs ==
    ASSUME schema \in Schemas, NamesAreTold, ResolvedIn(Positions), \A p \in Positions : Ending(p),
           NEW place \in AllPlaces
    PROVE  links[place] \in Positions /\ Meant(place) = Followed(links[place])
<1> DEFINE l == links[place]
<1>1. l = Resolve(Reference(place)) /\ l \in Positions
  BY InPlaces DEF ResolvedIn
<1>2. Denoted(place) = {l}
  <2>1. l # Nil
    BY <1>1, PositionTypes
  <2> QED BY <1>1, <2>1, ResolveFinds
<1>3. /\ l \in Followed(l) /\ Followed(l) \subseteq Positions
      /\ \A q \in Followed(l) : IsTypedefRef(q) => links[<<q, 0>>] \in Followed(l)
  BY <1>1, TerminalIs
<1>4. \A q \in Followed(l) : IsTypedefRef(q) => Written(q) \subseteq Followed(l)
  <2> SUFFICES ASSUME NEW q \in Followed(l), IsTypedefRef(q) PROVE Written(q) \subseteq Followed(l)
    OBVIOUS
  <2>1. q \in Positions /\ HasReference(q, 0) /\ links[<<q, 0>>] \in Followed(l)
    BY <1>3 DEF HasReference
  <2> QED BY <2>1, WrittenIs
<1> HIDE DEF l
<1>5. Meant(place) \subseteq Followed(l)
  BY <1>2, <1>3, <1>4 DEF Meant
<1>6. ASSUME NEW C \in SUBSET Positions, l \in C, \A q \in C : IsTypedefRef(q) => Written(q) \subseteq C
      PROVE  Followed(l) \subseteq C
  BY <1>6, FollowedBeyond
<1>7. Followed(l) \subseteq Meant(place)
  BY <1>2, <1>3, <1>6 DEF Meant
<1> QED BY <1>1, <1>5, <1>7 DEF l

\* The type that is given for a field is the one of the definition its reference means.
LEMMA TypeToldIsRight ==
    ASSUME schema \in Schemas, NamesAreTold, ResolvedIn(Positions), \A p \in Positions : Ending(p),
           NEW g \in Groups, NEW k \in DOMAIN Def(g).fields, TypeTold(<<g, k>>)
    PROVE  TypeIsRight(<<g, k>>)
<1> DEFINE field == <<g, k>>
           type == Def(field[1]).fields[field[2]].type
           end == Terminal(links[field])
           marked == Meant(field) \intersect DynamicRefs # {}
           ends == {q \in Meant(field) : ~IsTypedefRef(q)}
<1> SUFFICES TypeIsRight(field)
  OBVIOUS
<1>1. g \in Positions /\ field[1] = g /\ field[2] = k
  BY DEF Groups
<1>2. ASSUME Ref(type)
      PROVE  ends = {end} /\ (ByDynamic(links[field]) <=> marked)
  <2>1. Len(Def(g).fields) \in Nat /\ DOMAIN Def(g).fields = 1 .. Len(Def(g).fields)
    BY <1>1, DefTypes
  <2>2. HasReference(g, k) /\ k \in 0 .. Len(Def(g).fields)
    BY <1>1, <1>2, <2>1 DEF HasReference
  <2>3. field \in AllPlaces
    BY <1>1, <2>2 DEF AllPlaces, Places
  <2>4. links[field] \in Positions /\ Meant(field) = Followed(links[field])
    BY <2>3, MeantIs
  <2> HIDE DEF field
  <2>5. /\ end \in Meant(field) /\ ~IsTypedefRef(end) /\ Meant(field) \subseteq Positions
        /\ \A q \in Meant(field) : ~IsTypedefRef(q) => q = end
    BY <2>4, TerminalIs
  <2>6. ByDynamic(links[field]) <=> marked
    BY <2>4, <2>5 DEF ByDynamic, DynamicRefs
  <2> HIDE DEF end
  <2> QED BY <2>5, <2>6
<1>3. out = <<FieldType(field), FieldRefers(field, "group"), FieldRefers(field, "enum")>>
  BY DEF TypeTold
<1>4. /\ FieldType(field) = CASE ~Ref(type) -> type.tag
                              [] Ref(type) /\ Is(end, "enum") -> "enum"
                              [] Ref(type) /\ Is(end, "group") ->
                                    IF ByDynamic(links[field]) THEN "dynamic group" ELSE "static group"
                              [] OTHER -> Def(end).type.tag
      /\ FieldRefers(field, "group") = IF Ref(type) /\ Is(end, "group") THEN end ELSE Nil
      /\ FieldRefers(field, "enum") = IF Ref(type) /\ Is(end, "enum") THEN end ELSE Nil
  BY DEF FieldType, FieldRefers
<1> HIDE DEF field
<1>5. TypeIsRight(field) <=>
        IF ~Ref(type) THEN out = <<type.tag, Nil, Nil>>
        ELSE \E e \in ends :
                /\ ends = {e}
                /\ Is(e, "enum") => out = <<"enum", Nil, e>>
                /\ Is(e, "typedef") => out = <<Def(e).type.tag, Nil, Nil>>
                /\ Is(e, "group") =>
                      /\ out[2] = e /\ out[3] = Nil
                      /\ out[1] = (IF marked THEN "dynamic group" ELSE "static group") \/ type.dyn
  BY DEF TypeIsRight
<1> HIDE DEF type, end, marked, ends
<1>6. CASE ~Ref(type)
  <2>1. FieldType(field) = type.tag
    BY <1>4, <1>6
  <2> QED BY <1>3, <1>4, <1>5, <1>6, <2>1
<1>7. CASE Ref(type)
  <2>1. ends = {end} /\ (ByDynamic(links[field]) <=> marked)
    BY <1>2, <1>7
  <2>2. ASSUME Is(end, "enum") PROVE out = <<"enum", Nil, end>> /\ ~Is(end, "typedef") /\ ~Is(end, "group")
    <3>1. ~Is(end, "typedef") /\ ~Is(end, "group")
      BY <2>2 DEF Is
    <3>2. FieldType(field) = "enum"
      BY <1>4, <1>7, <2>2, <3>1
    <3> QED BY <1>3, <1>4, <1>7, <2>2, <3>1, <3>2
  <2>3. ASSUME Is(end, "typedef")
        PROVE  out = <<Def(end).type.tag, Nil, Nil>> /\ ~Is(end, "enum") /\ ~Is(end, "group")
    <3>1. ~Is(end, "enum") /\ ~Is(end, "group")
      BY <2>3 DEF Is
    <3>2. FieldType(field) = Def(end).type.tag
      BY <1>4, <1>7, <3>1
    <3> QED BY <1>3, <1>4, <1>7, <3>1, <3>2
  <2>4. ASSUME Is(end, "group")
        PROVE  /\ out[1] = IF marked THEN "dynamic group" ELSE "static group"
               /\ out[2] = end /\ out[3] = Nil /\ ~Is(end, "enum") /\ ~Is(end, "typedef")
    <3>1. ~Is(end, "enum") /\ ~Is(end, "typedef")
      BY <2>4 DEF Is
    <3>2. FieldType(field) = IF marked THEN "dynamic group" ELSE "static group"
      BY <1>4, <1>7, <2>1, <2>4, <3>1
    <3> QED BY <1>3, <1>4, <1>7, <2>4, <3>1, <3>2
  <2> QED BY <1>5, <1>7, <2>1, <2>2, <2>3, <2>4
<1> QED BY <1>6, <1>7

\* A line that is at its end has all the groups its first one leads to; each group lies
\* beyond those before it, and beyond none that comes later.
LEMMA LineIsAll ==
    ASSUME schema \in Schemas, NamesAreTold, ResolvedIn(Positions), \A p \in Positions : Ending(p),
           \A g \in Groups : Tested(g),
           NEW s \in Seq(Groups), Line(s), s # <<>>, ~HasReference(s[Len(s)], 0)
    PROVE  /\ {s[k] : k \in 1 .. Len(s)} = Ancestors(s[1]) \union {s[1]}
           /\ \A i, j \in 1 .. Len(s) : i <= j => s[i] \notin Beyond(s[j])
<1> DEFINE N == Len(s)
           A == {s[k] : k \in 2 .. N}
<1>1. N \in Nat /\ N >= 1 /\ \A k \in 1 .. N : s[k] \in Groups
  OBVIOUS
<1>2. \A i, j \in 1 .. N : i < j => s[i] # s[j]
  BY LineIsShort
<1>3. \A i, j \in 1 .. N : i < j => s[j] \in Beyond(s[i])
  BY LineBeyond
<1>4. \A h \in Groups : Clean(h)
  BY DEF Tested
<1>5. ASSUME NEW g \in Groups PROVE g \notin Beyond(g)
  <2>1. PICK C \in SUBSET Groups : Inherited(g, C)
    BY <1>5 DEF Tested
  <2>2. g \notin C /\ ~IsTypedefRef(g)
    BY <2>1 DEF Inherited, Groups, IsTypedefRef, Is
  <2> QED BY <1>4, <2>1, <2>2, BeyondGroup
<1>6. A \in SUBSET Groups
  BY <1>1
<1>7. Inherited(s[1], A)
  <2>1. s[1] \notin A
    BY <1>1, <1>2
  <2>2. ASSUME NEW h \in A \union {s[1]}, HasReference(h, 0) PROVE Parent(h) \in A
    <3>1. PICK k \in 1 .. N : h = s[k]
      BY <1>1
    <3>2. k \in 1 .. (N - 1)
      BY <1>1, <2>2, <3>1
    <3>3. s[k + 1] = Parent(h) /\ k + 1 \in 2 .. N
      BY <1>1, <3>1, <3>2 DEF Line
    <3> QED BY <3>3
  <2> QED BY <2>1, <2>2 DEF Inherited
<1>8. ASSUME NEW q \in Ancestors(s[1]) PROVE q \in A
  <2>1. q \in Beyond(s[1]) /\ q \in Groups /\ s[1] \in Groups
    BY <1>1 DEF Ancestors
  <2>2. ~IsTypedefRef(q)
    BY <2>1 DEF Groups, IsTypedefRef, Is
  <2> HIDE DEF A
  <2> QED BY <1>4, <1>6, <1>7, <2>1, <2>2, BeyondGroup
<1>9. \A k \in 2 .. N : s[k] \in Ancestors(s[1])
  BY <1>1, <1>3 DEF Ancestors
<1>10. {s[k] : k \in 1 .. N} = Ancestors(s[1]) \union {s[1]}
  <2>1. ASSUME NEW k \in 1 .. N PROVE s[k] \in Ancestors(s[1]) \union {s[1]}
    BY <1>1, <1>9
  <2>2. ASSUME NEW q \in Ancestors(s[1]) \union {s[1]} PROVE q \in {s[k] : k \in 1 .. N}
    BY <1>1, <1>8
  <2> QED BY <2>1, <2>2
<1>11. ASSUME NEW i \in 1 .. N, NEW j \in 1 .. N, i <= j, s[i] \in Beyond(s[j]) PROVE FALSE
  <2>1. i < j \/ i = j
    BY <1>11
  <2>2. CASE i = j
    BY <1>1, <1>5, <1>11, <2>2
  <2>3. CASE i < j
    <3>1. s[j] \in Beyond(s[i])
      BY <1>3, <2>3
    <3>2. Closed(Beyond(s[j]))
      BY BeyondClosed
    <3>3. Beyond(s[i]) \subseteq Beyond(s[j])
      BY <1>11, <3>2, BeyondWithin DEF Closed
    <3> QED BY <1>1, <1>5, <3>1, <3>3
  <2> QED BY <2>1, <2>2, <2>3
<1> QED BY <1>10, <1>11

\* What a walk has given of the groups it goes through is listed, those it comes to
\* first before the others.
LEMMA GivenIsListed ==
    ASSUME schema \in Schemas, NEW s \in Seq(Groups), AllGiven(s, out),
           \A i, j \in 1 .. Len(s) : i < j => s[i] # s[j],
           \A i, j \in 1 .. Len(s) : i <= j => s[i] \notin Beyond(s[j])
    PROVE  Listed(UNION {FieldsOf(s[i]) : i \in 1 .. Len(s)}, Precedes)
<1>1. {out[a] : a \in DOMAIN out} = UNION {FieldsOf(s[i]) : i \in 1 .. Len(s)}
  BY DEF AllGiven
<1>2. ASSUME NEW a \in DOMAIN out PROVE out[a][2] \in Nat
  <2>1. PICK i \in 1 .. Len(s) : out[a] \in FieldsOf(s[i])
    <3>1. out[a] \in UNION {FieldsOf(s[i]) : i \in 1 .. Len(s)}
      BY <1>1
    <3> QED BY <3>1
  <2>2. DOMAIN Def(s[i]).fields = 1 .. Len(Def(s[i]).fields)
    <3>1. s[i] \in Positions
      BY DEF Groups
    <3> QED BY <3>1, DefTypes
  <2> QED BY <2>1, <2>2 DEF FieldsOf
<1>3. ASSUME NEW a \in DOMAIN out, NEW b \in DOMAIN out, a < b
      PROVE  out[a] # out[b] /\ ~Precedes(out[b], out[a])
  <2>1. PICK i, j \in 1 .. Len(s) : /\ out[a][1] = s[i] /\ out[b][1] = s[j]
                                    /\ j < i \/ (i = j /\ out[a][2] < out[b][2])
    BY <1>3 DEF AllGiven, Ordered, InTurn
  <2>2. out[a][2] \in Nat /\ out[b][2] \in Nat
    BY <1>2
  <2>3. s[j] \notin Beyond(s[i])
    BY <2>1
  <2>4. CASE j < i
    <3>1. s[j] # s[i]
      BY <2>4
    <3> QED BY <2>1, <2>3, <3>1 DEF Precedes
  <2>5. CASE i = j /\ out[a][2] < out[b][2]
    BY <2>1, <2>2, <2>3, <2>5 DEF Precedes
  <2> QED BY <2>1, <2>4, <2>5
<1> QED BY <1>1, <1>3 DEF Listed

\* What the caller has been given is right when names, ids and names of groups are told
\* apart.
LEMMA ToldIsRight ==
    ASSUME IInv, AnswerOK, NamesAreTold, IdsAreTold, GroupsAreTold, at = "done"
    PROVE  AnswersAreRight
<1>1. /\ schema \in Schemas /\ ResolvedIn(Positions) /\ (\A p \in Positions : Ending(p))
      /\ \A g \in Groups : Tested(g)
  BY DEF IInv, TypeOK, LinksOK, TypedefsOK, GroupsOK, Accepted
<1>2. Told
  BY DEF AnswerOK
<1>3. ASSUME asked.op = "fields"
      PROVE  Listed(UNION {FieldsOf(g) : g \in Ancestors(asked.of) \union {asked.of}}, Precedes)
  <2>1. PICK s \in Seq(Groups) : ListOf(asked.of, asked.op, s) /\ AllGiven(s, out)
    BY <1>2, <1>3 DEF Told
  <2>2. s # <<>> /\ s[1] = asked.of /\ Line(s) /\ ~HasReference(s[Len(s)], 0)
    BY <1>3, <2>1 DEF ListOf
  <2>3. /\ {s[k] : k \in 1 .. Len(s)} = Ancestors(asked.of) \union {asked.of}
        /\ \A i, j \in 1 .. Len(s) : i <= j => s[i] \notin Beyond(s[j])
    BY <1>1, <2>2, LineIsAll
  <2>4. \A i, j \in 1 .. Len(s) : i < j => s[i] # s[j]
    BY <1>1, <2>2, LineIsShort
  <2>5. Listed(UNION {FieldsOf(s[i]) : i \in 1 .. Len(s)}, Precedes)
    BY <1>1, <2>1, <2>3, <2>4, GivenIsListed
  <2>6. UNION {FieldsOf(s[i]) : i \in 1 .. Len(s)}
            = UNION {FieldsOf(g) : g \in Ancestors(asked.of) \union {asked.of}}
    BY <2>3
  <2> QED BY <2>5, <2>6
<1>4. ASSUME asked.op = "own fields" PROVE Listed(FieldsOf(asked.of), Precedes)
  <2>1. PICK s \in Seq(Groups) : ListOf(asked.of, asked.op, s) /\ AllGiven(s, out)
    BY <1>2, <1>4 DEF Told
  <2>2. Len(s) = 1 /\ s[1] = asked.of /\ asked.of \in Groups
    <3>1. Len(s) = 1 /\ s[1] = asked.of
      BY <1>4, <2>1 DEF ListOf
    <3> QED BY <3>1
  <2>3. asked.of \notin Beyond(asked.of)
    <3>1. PICK C \in SUBSET Groups : Inherited(asked.of, C)
      BY <1>1, <2>2 DEF Tested
    <3>2. asked.of \notin C /\ ~IsTypedefRef(asked.of) /\ \A h \in Groups : Clean(h)
      BY <1>1, <2>2, <3>1 DEF Inherited, Groups, IsTypedefRef, Is, Tested
    <3> QED BY <1>1, <2>2, <3>1, <3>2, BeyondGroup
  <2>4. Listed(UNION {FieldsOf(s[i]) : i \in 1 .. Len(s)}, Precedes)
    <3>1. \A i, j \in 1 .. Len(s) : i < j => s[i] # s[j]
      BY <2>2
    <3>2. \A i, j \in 1 .. Len(s) : i <= j => s[i] \notin Beyond(s[j])
      BY <2>2, <2>3
    <3> QED BY <1>1, <2>1, <3>1, <3>2, GivenIsListed
  <2>5. UNION {FieldsOf(s[i]) : i \in 1 .. Len(s)} = FieldsOf(asked.of)
    BY <2>2
  <2> QED BY <2>4, <2>5
<1>5. ASSUME asked.op = "groups" PROVE Listed(Groups, Before)
  <2>1. {out[a] : a \in DOMAIN out} = Groups /\ InOrder(out)
    BY <1>2, <1>5 DEF Told, GroupsGiven, Passed, Groups
  <2>2. ASSUME NEW a \in DOMAIN out, NEW b \in DOMAIN out, a < b
        PROVE  out[a] # out[b] /\ ~Before(out[b], out[a])
    <3>1. Before(out[a], out[b]) /\ out[a] # out[b] /\ out[a] \in Positions /\ out[b] \in Positions
      BY <2>1, <2>2 DEF InOrder, Groups
    <3>2. /\ out[a] = <<out[a][1], out[a][2]>> /\ out[a][1] \in Nat /\ out[a][2] \in Nat
          /\ out[b] = <<out[b][1], out[b][2]>> /\ out[b][1] \in Nat /\ out[b][2] \in Nat
      BY <1>1, <3>1, PositionTypes
    <3>3. ASSUME Before(out[b], out[a]) PROVE out[a][1] = out[b][1] /\ out[a][2] = out[b][2]
      BY <3>1, <3>2, <3>3 DEF Before
    <3> QED BY <3>1, <3>2, <3>3
  <2> QED BY <2>1, <2>2 DEF Listed
<1>6. /\ asked.op \in {"fields", "own fields", "groups", "id", "name", "type"}
      /\ asked.op = "id" => \A g \in Groups : Def(g).hasId /\ Def(g).id = asked.of => out = <<g>>
      /\ asked.op = "name" =>
            \A g \in Groups : Split[asked.of] = <<schema[g[1]].name, Def(g).name>> => out = <<g>>
  BY <1>2 DEF Told
<1>7. CASE asked.op \in {"fields", "own fields", "groups"}
  BY <1>3, <1>4, <1>5, <1>7 DEF AnswersAreRight
<1>8. CASE asked.op = "id"
  BY <1>6, <1>8 DEF AnswersAreRight
<1>9. CASE asked.op = "name"
  BY <1>6, <1>9 DEF AnswersAreRight
<1>10. CASE asked.op = "type"
  <2>1. PICK g \in Groups : \E k \in DOMAIN Def(g).fields : asked.of = <<g, k>> /\ TypeTold(<<g, k>>)
    BY <1>2, <1>10 DEF Told
  <2>2. TypeIsRight(asked.of)
    BY <1>1, <2>1, TypeToldIsRight
  <2> QED BY <1>10, <2>2 DEF AnswersAreRight
<1> QED BY <1>6, <1>7, <1>8, <1>9, <1>10

\* What the caller is given is right, in any schema that is accepted and in which names,
\* and ids and names of groups, are told apart: the fields of a group and of all it
\* inherits from, once each and those it inherits first; the groups in their order; the
\* group of an id or of a name; and of a field the type at the end of the definitions
\* that its reference means, with the enum or the group that stands there. Whether a
\* field that is itself written with a * is dynamic is not part of it.
THEOREM AnswersRight == Spec => [](NamesAreTold /\ IdsAreTold /\ GroupsAreTold => AnswersAreRight)
<1>1. Init => AnswerOK
  BY DEF Init, AnswerOK, Scanning
<1>2. IInv /\ AnswerOK /\ [Next]_vars => AnswerOK'
  <2> SUFFICES ASSUME IInv, AnswerOK, [Next]_vars PROVE AnswerOK'
    OBVIOUS
  <2>1. CASE \/ ResolveDefinition \/ AllResolved \/ TestReference \/ FollowTypedef
             \/ ReferencesTested \/ TestSuper \/ CountForShadow \/ Shadow \/ Accept
    <3>1. at \in Scanning /\ out' = out
      BY <2>1 DEF ResolveDefinition, AllResolved, TestReference, FollowTypedef, ReferencesTested,
                  TestSuper, CountForShadow, CountSuper, Shadow, Accept, Loop, In, request, Scanning
    <3>2. at' \in Scanning \union {"schema", "refused", "stopped"}
      BY <2>1, <3>1 DEF ResolveDefinition, AllResolved, TestReference, FollowTypedef, ReferencesTested,
                        TestSuper, CountForShadow, CountSuper, Shadow, Accept, Loop, In, Refuse, Stop,
                        Scanning
    <3>3. out' = <<>>
      BY <3>1 DEF AnswerOK
    <3> QED BY <3>2, <3>3 DEF AnswerOK, Scanning
  <2>2. CASE ListFields
    BY <2>2, ListFieldsTells
  <2>3. CASE CountForFields
    BY <2>3, CountFieldsTells
  <2>4. CASE GiveField
    BY <2>4, GiveFieldTells
  <2>5. CASE ListGroups \/ GiveGroup
    BY <2>5, GroupsTell
  <2>6. CASE GetGroupByID
    BY <2>6, GroupByIDTells
  <2>7. CASE GetGroupByName
    BY <2>7, GroupByNameTells
  <2>8. CASE ReadField
    BY <2>8, ReadFieldTells
  <2>9. CASE UNCHANGED vars
    <3>1. /\ schema \in Schemas /\ schema' = schema /\ links' = links
          /\ UNCHANGED <<at, iter, supers, walk, asked, out>>
      BY <2>9 DEF vars, IInv, TypeOK
    <3>2. \A s : Line(s)' = Line(s)
      BY <3>1, LinksFrame
    <3>3. ASSUME Telling PROVE Telling'
      <4>1. PICK s \in Seq(Groups) : ListOf(asked.of, asked.op, s) /\ Walked(s, walk, out)
        BY <3>3 DEF Telling
      <4> QED BY <3>1, <3>3, <4>1, AnswerFrame DEF Telling
    <3>4. ASSUME Told PROVE Told'
      <4>1. ASSUME asked.op \in {"fields", "own fields"}
            PROVE  (\E s \in Seq(Groups) : ListOf(asked.of, asked.op, s) /\ AllGiven(s, out))'
        <5>1. PICK s \in Seq(Groups) : ListOf(asked.of, asked.op, s) /\ AllGiven(s, out)
          BY <3>4, <4>1 DEF Told
        <5> QED BY <3>1, <5>1, AnswerFrame
      <4>2. /\ asked' = asked /\ out' = out /\ Groups' = Groups /\ \A d : Def(d)' = Def(d)
            /\ \A d, o : GroupsGiven(d, o)' = GroupsGiven(d, o)
            /\ NamesAreTold' = NamesAreTold /\ IdsAreTold' = IdsAreTold
            /\ GroupsAreTold' = GroupsAreTold /\ schema' = schema /\ Nil' = Nil
        BY <3>1, AnswerFrame DEF Nil
      <4>3. \A f : TypeTold(f)' = TypeTold(f)
        BY <3>1, <4>2, AnswerFrame DEF TypeTold
      <4> QED BY <3>4, <4>1, <4>2, <4>3 DEF Told
    <3>5. Positions' = Positions /\ Groups' = Groups /\ \A d, o : GroupsGiven(d, o)' = GroupsGiven(d, o)
      BY <3>1, AnswerFrame
    <3> QED BY <3>1, <3>2, <3>3, <3>4, <3>5 DEF AnswerOK
  <2> QED BY <2>1, <2>2, <2>3, <2>4, <2>5, <2>6, <2>7, <2>8, <2>9 DEF Next
<1>3. IInv /\ AnswerOK => (NamesAreTold /\ IdsAreTold /\ GroupsAreTold => AnswersAreRight)
  <2>1. at # "done" => AnswersAreRight
    BY DEF AnswersAreRight
  <2> QED BY <2>1, ToldIsRight
<1> QED BY <1>1, <1>2, <1>3, Invariance, PTL DEF Spec
=============================================================================
