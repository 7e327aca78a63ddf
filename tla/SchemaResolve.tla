---------------------------- MODULE SchemaResolve ----------------------------
(***************************************************************************)
(* What Schema_new does once a schema is parsed, and what is done with a   *)
(* schema it accepts: resolveDefinitions and testConstraints of            *)
(* blink_schema.c, the walks over definitions, supergroups and fields they *)
(* share with the caller, and the lookups.                                 *)
(*                                                                         *)
(* A schema is a sequence of namespaces of definitions, as SchemaParser    *)
(* leaves it. A pointer to a definition is its position, <<namespace,      *)
(* definition>>; a reference is a name until it is resolved, and a place   *)
(* is where one stands: <<position, 0>> for the supergroup of a group and  *)
(* the type of a typedef, <<position, k>> for the type of field k.         *)
(* An assertion that fails and a pointer that is none stop the program.    *)
(***************************************************************************)
EXTENDS Integers, Sequences, FiniteSets

CONSTANTS
    Schemas,        \* the schemas parsed
    Split,          \* splitCName: from a reference to <<namespace, name>>
    NamePrefixes,   \* pairs of names, the first a proper prefix of the second
    NoName          \* an empty name or a NULL pointer

\* What the parser leaves: lists of namespaces, of definitions and of fields; and a type
\* that is built in is none that a definition gives to a field.
IsList(s) == s \in Seq({s[n] : n \in DOMAIN s})
Defined == {"enum", "static group", "dynamic group"}

ASSUME ResolveAssumption ==
    \A s \in Schemas :
        /\ IsList(s)
        /\ \A n \in DOMAIN s :
            /\ IsList(s[n].defs)
            /\ \A k \in DOMAIN s[n].defs :
                /\ IsList(s[n].defs[k].fields)
                /\ {s[n].defs[k].type.dyn, s[n].defs[k].type.seq} \subseteq BOOLEAN
                /\ s[n].defs[k].type.tag \notin Defined
                /\ \A l \in DOMAIN s[n].defs[k].fields : s[n].defs[k].fields[l].type.tag \notin Defined

VARIABLES
    schema,     \* self->ns
    links,      \* g->s and type.attr.resolved, by place
    at,         \* the function and the loop in it
    def, iter,  \* defPtr and the definition iterator
    slow, fast, dynamic, sequence,      \* of testReferenceConstraint
    errors,     \* the messages of the test that failed
    supers,     \* the groups numberOfSuperGroup has passed, from the last one
    walk,       \* a field iterator: [stack, index]
    asked,      \* what the caller wants: [op, of]
    out         \* what it was given

vars == <<schema, links, at, def, iter, slow, fast, dynamic, sequence, errors, supers, walk,
          asked, out>>
pointers == <<slow, fast, dynamic, sequence>>
request == <<asked, out>>

Nil == <<0, 0>>
Def(p) == schema[p[1]].defs[p[2]]
Positions == UNION {{n} \X DOMAIN schema[n].defs : n \in DOMAIN schema}
Is(p, kind) == Def(p).kind = kind
Groups == {p \in Positions : Is(p, "group")}

\* What has to be resolved in a definition, and the name that stands there.
Ref(type) == type.tag = "ref"
IsTypedefRef(p) == Is(p, "typedef") /\ Ref(Def(p).type)
HasReference(p, k) ==
    \/ k = 0 /\ IsTypedefRef(p)
    \/ k = 0 /\ Is(p, "group") /\ Def(p).super # NoName
    \/ k > 0 /\ Ref(Def(p).fields[k].type)
Places(p) == {<<p, k>> : k \in {l \in 0..Len(Def(p).fields) : HasReference(p, l)}}
AllPlaces == UNION {Places(p) : p \in Positions}
Reference(place) ==
    LET d == Def(place[1])
    IN  IF place[2] > 0 THEN d.fields[place[2]].type.name
        ELSE IF d.kind = "group" THEN d.super ELSE d.type.name

Refuse(messages) ==
    /\ at' = "refused"
    /\ errors' = messages
Stop == at' = "stopped" /\ UNCHANGED errors

-----------------------------------------------------------------------------
\* Lookups. A name is compared as far as the one that is sought goes: no name at all
\* finds the first there is.
Finds(sought, named) == sought = NoName \/ sought = named \/ <<sought, named>> \in NamePrefixes

Search(list, sought) ==
    LET found == {k \in DOMAIN list : Finds(sought, list[k].name)}
    IN  IF found = {} THEN 0 ELSE CHOOSE k \in found : \A l \in found : k <= l

Resolve(reference) ==
    LET n == Search(schema, Split[reference][1])
        k == IF n = 0 THEN 0 ELSE Search(schema[n].defs, Split[reference][2])
    IN  IF k = 0 THEN Nil ELSE <<n, k>>

\* initDefinitionIterator from namespace n on, nextDefinition: namespaces may be empty.
\* Mutant of DefinitionFrom: the search ends at an empty namespace.
DefinitionFromUpToEmpty(n) ==
    IF n \in DOMAIN schema /\ schema[n].defs # <<>> THEN <<n, 1>> ELSE Nil
DefinitionFrom(n) ==
    LET later == {m \in DOMAIN schema : m >= n /\ schema[m].defs # <<>>}
    IN  IF later = {} THEN Nil ELSE <<CHOOSE m \in later : \A l \in later : m <= l, 1>>
FirstDefinition == DefinitionFrom(1)
After(p) ==
    IF p = Nil THEN Nil
    ELSE IF p[2] < Len(schema[p[1]].defs) THEN <<p[1], p[2] + 1>>
    ELSE DefinitionFrom(p[1] + 1)

\* peekDefinition when a loop starts and nextDefinition at its end, which gives the
\* first definition once more.
Restart == def' = FirstDefinition /\ iter' = FirstDefinition
NextDefinition == def' = iter /\ iter' = After(iter)

\* getTerminal, where typedefs do not form a cycle: the references of typedefs that
\* are followed and where they lead.
Followed(p) ==
    LET to[n \in 0..Cardinality(Positions)] ==
            IF n = 0 THEN p ELSE IF IsTypedefRef(to[n - 1]) THEN links[<<to[n - 1], 0>>] ELSE to[n - 1]
    IN  {to[n] : n \in 0..Cardinality(Positions)}
Terminal(p) == CHOOSE q \in Followed(p) : ~IsTypedefRef(q)
ByDynamic(p) == \E q \in Followed(p) : IsTypedefRef(q) /\ Def(q).type.dyn
BySequence(p) == \E q \in Followed(p) : IsTypedefRef(q) /\ Def(q).type.seq

-----------------------------------------------------------------------------
\* A field iterator: one level for the group and each supergroup, a level being the
\* next field, <<group, k>>; the index is that of the last level with fields left.
NoField == <<Nil, 0>>
FieldIterator(groups) ==
    [stack |-> [i \in DOMAIN groups |-> <<groups[i], 1>>], index |-> Len(groups)]
Left(level) == level[2] <= Len(Def(level[1]).fields)
FieldName(field) == Def(field[1]).fields[field[2]].name

PeekField(w) == IF Left(w.stack[w.index]) THEN w.stack[w.index] ELSE NoField

\* next: the field it gives and what becomes of the iterator.
Levels(w) == {i \in 1..w.index : Left(w.stack[i])}
\* Mutants: the group's own level first; next does not move.
TopOwnFirst(w) == IF Levels(w) = {} THEN 1 ELSE CHOOSE i \in Levels(w) : \A j \in Levels(w) : i <= j
Top(w) == IF Levels(w) = {} THEN 1 ELSE CHOOSE i \in Levels(w) : \A j \in Levels(w) : j <= i
NextField(w) == IF Levels(w) = {} THEN NoField ELSE w.stack[Top(w)]
SteppedStays(w) == w
Stepped(w) ==
    IF Levels(w) = {} THEN [w EXCEPT !.index = 1]
    ELSE [w EXCEPT !.stack[Top(w)][2] = @ + 1, !.index = Top(w)]

-----------------------------------------------------------------------------
Init ==
    /\ schema \in Schemas
    /\ links = [place \in AllPlaces |-> Nil]
    /\ at = "resolve"
    /\ def = FirstDefinition /\ iter = FirstDefinition
    /\ slow = Nil /\ fast = Nil /\ dynamic = FALSE /\ sequence = FALSE
    /\ errors = {}
    /\ supers = <<>> /\ walk = FieldIterator(<<>>)
    /\ asked = [op |-> "none", of |-> Nil] /\ out = <<>>

In(place) == at = place /\ UNCHANGED schema

\* resolveDefinitions: all of a definition, or the schema is refused.
ResolveDefinition ==
    /\ In("resolve") /\ def # Nil
    /\ links' = [place \in AllPlaces |->
                    IF place[1] = def THEN Resolve(Reference(place)) ELSE links[place]]
    /\ IF \E place \in Places(def) : links'[place] = Nil
       THEN Refuse({"unresolved"}) /\ UNCHANGED <<def, iter>>
       ELSE NextDefinition /\ UNCHANGED <<at, errors>>
    /\ UNCHANGED <<pointers, supers, walk, request>>

\* A loop over the definitions is over and the next begins.
Loop(from, to) ==
    /\ In(from) /\ def = Nil
    /\ at' = to
    /\ Restart
    /\ UNCHANGED <<links, pointers, errors, supers, walk, request>>

AllResolved == Loop("resolve", "reference")
ReferencesTested == Loop("reference", "super")
Accept == Loop("super", "schema")

\* testReferenceConstraint.
TestReference ==
    /\ In("reference") /\ def # Nil
    /\ IF Is(def, "typedef")
       THEN /\ at' = "typedef"
            /\ slow' = def /\ fast' = def /\ dynamic' = FALSE /\ sequence' = FALSE
            /\ UNCHANGED <<def, iter>>
       ELSE NextDefinition /\ UNCHANGED <<at, pointers>>
    /\ UNCHANGED <<links, errors, supers, walk, request>>

\* A turn of its loop. Both moves of the fast pointer start from the slow one. A type
\* that is built in has a size, or nothing, where the pointer would be.
NamesTypedef(p) == Is(links[<<p, 0>>], "typedef")
Moved(p) == IF p # Nil /\ IsTypedefRef(p) /\ NamesTypedef(p) THEN links[<<slow, 0>>] ELSE Nil
Readable(p) == p # Nil => IsTypedefRef(p)

FollowTypedef ==
    LET type == Def(slow).type
        reached == Moved(Moved(fast))
        wrong == errors \union {m \in {"double dynamic"} : type.dyn /\ dynamic}
                        \union {m \in {"double sequence"} : type.seq /\ sequence}
    IN  /\ In("typedef")
        /\ \/ /\ ~(Readable(slow) /\ Readable(fast) /\ Readable(Moved(fast)))
              /\ Stop
              /\ UNCHANGED <<def, iter, pointers>>
           \/ /\ Readable(slow) /\ Readable(fast) /\ Readable(Moved(fast))
              /\ NamesTypedef(slow)
              /\ slow' = links[<<slow, 0>>] /\ fast' = reached
              /\ dynamic' = (dynamic \/ type.dyn) /\ sequence' = (sequence \/ type.seq)
              /\ IF reached = slow' THEN Refuse(wrong \union {"cycle"})
                                    ELSE errors' = wrong /\ UNCHANGED at
              /\ UNCHANGED <<def, iter>>
           \/ /\ Readable(slow) /\ Readable(fast) /\ Readable(Moved(fast))
              /\ ~NamesTypedef(slow)
              /\ IF errors # {} \/ dynamic
                 THEN Refuse(IF errors = {} THEN {"dynamic type"} ELSE errors) /\ UNCHANGED <<def, iter>>
                 ELSE at' = "reference" /\ NextDefinition /\ UNCHANGED errors
              /\ UNCHANGED pointers
        /\ UNCHANGED <<links, supers, walk, request>>

\* testSuperGroupReferenceConstraint.
\* Mutant of TestSuper: sequences and dynamic references are let through.
TestSuperAnyReference ==
    LET super == links[<<def, 0>>]
        wrong == IF ~Is(Terminal(super), "group") THEN {"not a group"}
                 ELSE {m \in {"own supergroup"} : Terminal(super) = def}
    IN  /\ In("super") /\ def # Nil
        /\ IF ~(Is(def, "group") /\ HasReference(def, 0))
           THEN NextDefinition /\ UNCHANGED <<at, errors, supers>>
           ELSE /\ IF wrong # {} THEN Refuse(wrong) /\ UNCHANGED supers
                                 ELSE at' = "shadow count" /\ supers' = <<def>> /\ UNCHANGED errors
                /\ UNCHANGED <<def, iter>>
        /\ UNCHANGED <<links, pointers, walk, request>>
TestSuper ==
    LET super == links[<<def, 0>>]
        wrong == IF ~Is(Terminal(super), "group") THEN {"not a group"}
                 ELSE {m \in {"own supergroup"} : Terminal(super) = def}
                        \union {m \in {"sequence"} : BySequence(super)}
                        \union {m \in {"dynamic"} : ByDynamic(super)}
    IN  /\ In("super") /\ def # Nil
        /\ IF ~(Is(def, "group") /\ HasReference(def, 0))
           THEN NextDefinition /\ UNCHANGED <<at, errors, supers>>
           ELSE /\ IF wrong # {} THEN Refuse(wrong) /\ UNCHANGED supers
                                 ELSE at' = "shadow count" /\ supers' = <<def>> /\ UNCHANGED errors
                /\ UNCHANGED <<def, iter>>
        /\ UNCHANGED <<links, pointers, walk, request>>

\* numberOfSuperGroup, for the test of shadowed names and for a caller that lists
\* fields. supers grows to MaxSupers; past that there is a cycle and nothing reads it.
MaxSupers == Cardinality(Positions) + 1
Last == supers[Len(supers)]

\* Mutant of CountSuper: castGroup does not look.
CountSuperUncast(from, to) ==
    /\ In(from)
    /\ IF ~HasReference(Last, 0)
       THEN at' = to /\ walk' = FieldIterator(supers) /\ UNCHANGED <<errors, supers>>
       ELSE /\ supers' = Append(IF Len(supers) < MaxSupers THEN supers ELSE Tail(supers),
                                Terminal(links[<<Last, 0>>]))
            /\ UNCHANGED <<at, errors, walk>>
    /\ UNCHANGED <<links, def, iter, pointers, request>>

CountSuper(from, to) ==
    /\ In(from)
    /\ IF ~HasReference(Last, 0)
       THEN at' = to /\ walk' = FieldIterator(supers) /\ UNCHANGED <<errors, supers>>
       ELSE /\ UNCHANGED walk
            /\ LET super == Terminal(links[<<Last, 0>>])
               IN  IF Is(super, "group")
                   THEN /\ supers' = IF Len(supers) < MaxSupers THEN Append(supers, super)
                                     ELSE Append(Tail(supers), super)
                        /\ UNCHANGED <<at, errors>>
                   ELSE Stop /\ UNCHANGED supers
    /\ UNCHANGED <<links, def, iter, pointers, request>>

CountForShadow == CountSuper("shadow count", "shadow")
CountForFields == CountSuper("fields count", "fields")

\* testSuperGroupShadowConstraint, a field of the ancestors a turn; the own fields come
\* last and end it.
\* Mutant of Shadow: an own field is compared with itself.
ShadowSelf ==
    LET field == NextField(walk)
    IN  /\ In("shadow")
        /\ walk' = Stepped(walk)
        /\ IF field = NoField THEN at' = "super" /\ NextDefinition /\ UNCHANGED errors
           ELSE IF \E k \in DOMAIN Def(def).fields : FieldName(<<def, k>>) = FieldName(field)
           THEN Refuse({"shadowed"}) /\ UNCHANGED <<def, iter>>
           ELSE UNCHANGED <<at, def, iter, errors>>
        /\ UNCHANGED <<links, pointers, supers, request>>

Shadow ==
    LET field == NextField(walk)
        own == DOMAIN Def(def).fields
        met == {k \in own : <<def, k>> = field \/ FieldName(<<def, k>>) = FieldName(field)}
        first == CHOOSE k \in met : \A l \in met : k <= l
    IN  /\ In("shadow")
        /\ walk' = Stepped(walk)
        /\ \/ /\ field # NoField /\ met = {}
              /\ UNCHANGED <<at, def, iter, errors>>
           \/ /\ field # NoField /\ met # {} /\ <<def, first>> # field
              /\ Refuse({"shadowed"})
              /\ UNCHANGED <<def, iter>>
           \/ /\ field # NoField => met # {} /\ <<def, first>> = field
              /\ at' = "super" /\ NextDefinition
              /\ UNCHANGED errors
        /\ UNCHANGED <<links, pointers, supers, request>>

-----------------------------------------------------------------------------
\* The caller of Schema_new asks the schema for one thing.
Ask(op, of) == asked' = [op |-> op, of |-> of]
Answer(answer) == at' = "done" /\ out' = answer

\* A field iterator over a group alone or, with the depth of numberOfSuperGroup, over
\* its supergroups too. (eachField, which does without, is in ObjectSchema.)
ListFields ==
    /\ In("schema")
    /\ \E g \in Groups :
          \/ Ask("fields", g) /\ at' = "fields count" /\ supers' = <<g>> /\ UNCHANGED walk
          \/ Ask("own fields", g) /\ at' = "fields" /\ walk' = FieldIterator(<<g>>) /\ UNCHANGED supers
    /\ UNCHANGED <<links, def, iter, pointers, errors, out>>

GiveField ==
    /\ In("fields")
    /\ walk' = Stepped(walk)
    /\ IF NextField(walk) = NoField
       THEN Answer(out)
       ELSE out' = Append(out, NextField(walk)) /\ UNCHANGED at
    /\ UNCHANGED <<links, def, iter, pointers, errors, supers, asked>>

\* GroupIterator, a definition a turn.
ListGroups ==
    /\ In("schema")
    /\ Ask("groups", Nil)
    /\ at' = "groups" /\ iter' = FirstDefinition
    /\ UNCHANGED <<links, def, pointers, errors, supers, walk, out>>

GiveGroup ==
    /\ In("groups")
    /\ iter' = After(iter)
    /\ IF iter = Nil THEN Answer(out)
       ELSE /\ out' = IF Is(iter, "group") THEN Append(out, iter) ELSE out
            /\ UNCHANGED at
    /\ UNCHANGED <<links, def, pointers, errors, supers, walk, asked>>

\* getGroupByID: the first one in the order of the definitions.
Before(p, q) == p[1] < q[1] \/ (p[1] = q[1] /\ p[2] <= q[2])

GetGroupByID ==
    /\ In("schema")
    /\ \E id \in {Def(g).id : g \in Groups} :
          LET found == {g \in Groups : Def(g).hasId /\ Def(g).id = id}
          IN  /\ Ask("id", id)
              /\ Answer(IF found = {} THEN <<>>
                        ELSE <<CHOOSE g \in found : \A h \in found : Before(g, h)>>)
    /\ UNCHANGED <<links, def, iter, pointers, errors, supers, walk>>

\* getGroupByName: castGroup stops at what is not a group.
GetGroupByName ==
    /\ In("schema")
    /\ \E name \in DOMAIN Split :
          /\ Ask("name", name)
          /\ CASE Resolve(name) = Nil -> Answer(<<>>) /\ UNCHANGED errors
               [] Resolve(name) # Nil /\ Is(Resolve(name), "group") -> Answer(<<Resolve(name)>>) /\ UNCHANGED errors
               [] OTHER -> Stop /\ UNCHANGED out
    /\ UNCHANGED <<links, def, iter, pointers, supers, walk>>

\* getType, getGroup and getEnum of a field.
FieldType(field) ==
    LET type == Def(field[1]).fields[field[2]].type
        end == Terminal(links[field])
    IN  CASE ~Ref(type) -> type.tag
          [] Ref(type) /\ Is(end, "enum") -> "enum"
          [] Ref(type) /\ Is(end, "group") -> IF ByDynamic(links[field]) THEN "dynamic group" ELSE "static group"
          [] OTHER -> Def(end).type.tag
FieldRefers(field, kind) ==
    IF Ref(Def(field[1]).fields[field[2]].type) /\ Is(Terminal(links[field]), kind)
    THEN Terminal(links[field]) ELSE Nil

ReadField ==
    /\ In("schema")
    /\ \E g \in Groups : \E k \in DOMAIN Def(g).fields :
          /\ Ask("type", <<g, k>>)
          /\ Answer(<<FieldType(<<g, k>>), FieldRefers(<<g, k>>, "group"), FieldRefers(<<g, k>>, "enum")>>)
    /\ UNCHANGED <<links, def, iter, pointers, errors, supers, walk>>

Next ==
    \/ ResolveDefinition \/ AllResolved
    \/ TestReference \/ FollowTypedef \/ ReferencesTested
    \/ TestSuper \/ CountForShadow \/ Shadow \/ Accept
    \/ ListFields \/ CountForFields \/ GiveField
    \/ ListGroups \/ GiveGroup \/ GetGroupByID \/ GetGroupByName \/ ReadField

\* One thread runs all of it.
Spec == Init /\ [][Next]_vars /\ WF_vars(Next)

-----------------------------------------------------------------------------
\* What was written, without the pointers: the definitions that have the name of a
\* reference, and all that a definition leads to by supergroups and types of typedefs.
Denoted(place) ==
    LET cname == Split[Reference(place)]
    IN  {q \in Positions : /\ Def(q).name = cname[2]
                           /\ IF cname[1] = NoName THEN q[1] = place[1][1] ELSE schema[q[1]].name = cname[1]}

Written(p) == UNION {Denoted(place) : place \in {l \in Places(p) : l[2] = 0}}
Beyond(p) ==
    LET to[n \in 0..Cardinality(Positions)] ==
            IF n = 0 THEN Written(p) ELSE to[n - 1] \union UNION {Written(q) : q \in to[n - 1]}
    IN  to[Cardinality(Positions)]
Ancestors(g) == Beyond(g) \intersect Groups
FieldsOf(g) == {<<g, k>> : k \in DOMAIN Def(g).fields}

TypeOK ==
    /\ schema \in Schemas
    /\ links \in [AllPlaces -> Positions \union {Nil}]
    /\ at \in {"resolve", "reference", "typedef", "super", "shadow count", "shadow", "schema",
               "fields count", "fields", "groups", "done", "refused", "stopped"}
    /\ {def, iter, slow, fast} \subseteq Positions \union {Nil}
    /\ {dynamic, sequence} \subseteq BOOLEAN
    /\ errors \subseteq {"unresolved", "double dynamic", "double sequence", "dynamic type", "cycle",
                         "not a group", "own supergroup", "sequence", "dynamic", "shadowed"}
    /\ Len(supers) <= MaxSupers
    /\ \A i \in DOMAIN supers : supers[i] \in Groups
    /\ Len(walk.stack) <= MaxSupers /\ walk.index <= Len(walk.stack)

\* Every reference of a schema that is accepted leads to the one definition of its
\* name, whatever the order of the definitions and of the namespaces.
AcceptedIsResolved ==
    at \in {"schema", "done"} => \A place \in AllPlaces : Denoted(place) = {links[place]}

\* A group of a schema that is accepted leads by its supergroups never back to itself
\* and to groups only, none by a dynamic reference or a sequence.
SupersAreGroups ==
    at = "schema" =>
        \A g \in Groups : \A q \in Beyond(g) :
            /\ q # g
            /\ \/ Is(q, "group")
               \/ IsTypedefRef(q) /\ ~Def(q).type.dyn /\ ~Def(q).type.seq

\* No field of a schema that is accepted has the name of one its group inherits, at
\* whatever distance.
NoFieldShadowed ==
    at = "schema" =>
        \A g \in Groups : \A h \in Ancestors(g) : \A f \in FieldsOf(g), e \in FieldsOf(h) :
            FieldName(f) # FieldName(e)

\* A schema that is accepted inherits as it should: over any number of supergroups and
\* of typedefs between them no cycle, nothing but groups, no field twice.
AcceptedInherits == SupersAreGroups /\ NoFieldShadowed

\* What each message says is wrong. Two of them are reported of schemas that are right.
FalseAlarms == {"cycle", "dynamic type"}
DynamicRefs == {p \in Positions : IsTypedefRef(p) /\ Def(p).type.dyn}
SequenceRefs == {p \in Positions : IsTypedefRef(p) /\ Def(p).type.seq}
FaultIsThere(message) ==
    CASE message = "unresolved" -> \E place \in AllPlaces : Denoted(place) = {}
      [] message = "not a group" ->
            \E g \in Groups : \E q \in Beyond(g) : ~Is(q, "group") /\ ~IsTypedefRef(q)
      [] message = "own supergroup" -> \E g \in Groups : g \in Beyond(g)
      [] message = "sequence" -> \E g \in Groups : Beyond(g) \intersect SequenceRefs # {}
      [] message = "dynamic" -> \E g \in Groups : Beyond(g) \intersect DynamicRefs # {}
      [] message = "shadowed" ->
            \E g \in Groups : \E h \in Ancestors(g) : \E f \in FieldsOf(g), e \in FieldsOf(h) :
                FieldName(f) = FieldName(e)
      [] message = "double dynamic" -> \E p \in DynamicRefs : Beyond(p) \intersect DynamicRefs # {}
      [] message = "double sequence" -> \E p \in SequenceRefs : Beyond(p) \intersect SequenceRefs # {}

\* A schema is refused with a message, and has the fault it names: nothing of a name that
\* is not resolved, no group where "supergroup must be a group", and so on for every
\* message but the false alarms, "Reference cycle detected" (CyclesAreCycles) and "a
\* dynamic reference must resolve to a group" (DynamicTypesLeadAstray).
ErrorsNameTheFault ==
    at = "refused" => errors # {} /\ \A message \in errors \ FalseAlarms : FaultIsThere(message)

\* What a reference means: the definitions of its name and, through typedefs, of the
\* names these refer to.
Meant(place) ==
    {q \in Positions : \A C \in SUBSET Positions :
        Denoted(place) \subseteq C /\ (\A p \in C : IsTypedefRef(p) => Written(p) \subseteq C) => q \in C}

\* The type of a field is the one at its end: the one definition meant that refers to no
\* other. A group is dynamic if a typedef on the way is. (The * of the field itself is
\* not looked at: whether a field that has one is dynamic is left to
\* DynamicFieldsAreDynamic.)
TypeIsRight(field) ==
    LET type == Def(field[1]).fields[field[2]].type
        ends == {q \in Meant(field) : ~IsTypedefRef(q)}
        marked == Meant(field) \intersect DynamicRefs # {}
    IN  IF ~Ref(type) THEN out = <<type.tag, Nil, Nil>>
        ELSE \E end \in ends :
                /\ ends = {end}
                /\ Is(end, "enum") => out = <<"enum", Nil, end>>
                /\ Is(end, "typedef") => out = <<Def(end).type.tag, Nil, Nil>>
                /\ Is(end, "group") =>
                      /\ out[2] = end /\ out[3] = Nil
                      /\ out[1] = (IF marked THEN "dynamic group" ELSE "static group") \/ type.dyn

\* What the caller is given: the fields of a group, those of its supergroups before its
\* own and each once; the groups, each once and in order; the group of an id or a name;
\* of a field its type, and the group or the enum if it is of one.
Precedes(f, e) == f[1] \in Beyond(e[1]) \/ (f[1] = e[1] /\ f[2] < e[2])
Listed(wanted, InOrder(_, _)) ==
    /\ {out[i] : i \in DOMAIN out} = wanted
    /\ \A i, j \in DOMAIN out : i < j => out[i] # out[j] /\ ~InOrder(out[j], out[i])
AnswersAreRight ==
    at = "done" =>
        CASE asked.op = "fields" ->
                Listed(UNION {FieldsOf(g) : g \in Ancestors(asked.of) \union {asked.of}}, Precedes)
          [] asked.op = "own fields" -> Listed(FieldsOf(asked.of), Precedes)
          [] asked.op = "groups" -> Listed(Groups, Before)
          [] asked.op = "id" -> \A g \in Groups : Def(g).hasId /\ Def(g).id = asked.of => out = <<g>>
          [] asked.op = "name" ->
                \A g \in Groups : Split[asked.of] = <<schema[g[1]].name, Def(g).name>> => out = <<g>>
          [] asked.op = "type" -> TypeIsRight(asked.of)

\* A schema in which no group is its own supergroup, at whatever distance, is accepted
\* or refused, or stops the program; and each walk over one that is accepted ends.
Ended == at \in {"done", "refused", "stopped"}
Ends == (\A g \in Groups : g \notin Beyond(g)) => <>Ended

\* Every schema is accepted or refused.
AlwaysEnds == <>Ended

\* A schema refused for a cycle of references has one.
CyclesAreCycles ==
    at = "refused" /\ "cycle" \in errors => \E p \in Positions : p \in Beyond(p)

\* "a dynamic reference must resolve to a group": a schema refused for that has a dynamic
\* reference that does not, and one that is accepted has none.
LeadsAstray(p) == \E q \in Meant(<<p, 0>>) : ~IsTypedefRef(q) /\ ~Is(q, "group")
DynamicTypesLeadAstray ==
    at = "refused" /\ "dynamic type" \in errors => \E p \in DynamicRefs : LeadsAstray(p)
DynamicTypesAreGroups == at = "schema" => \A p \in DynamicRefs : ~LeadsAstray(p)

\* "double sequence not allowed": no schema that is accepted has a sequence of sequences.
NoDoubleSequence == at = "schema" => \A p \in SequenceRefs : Meant(<<p, 0>>) \intersect SequenceRefs = {}

\* A schema never stops the program.
NeverStops == at # "stopped"

\* A field written as dynamic is read as a dynamic group.
DynamicFieldsAreDynamic ==
    at = "done" /\ asked.op = "type" /\ out[2] # Nil /\ Def(asked.of[1]).fields[asked.of[2]].type.dyn
        => out[1] = "dynamic group"

\* peek gives what next would.
PeekIsNext == at = "fields" => PeekField(walk) = NextField(walk)
=============================================================================
