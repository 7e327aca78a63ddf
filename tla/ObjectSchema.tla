---------------------------- MODULE ObjectSchema ----------------------------
(***************************************************************************)
(* A parsed schema as blink_object.c sees it: groups found by the id that  *)
(* travels in a message, their supergroups and their fields.               *)
(***************************************************************************)
EXTENDS Integers, Sequences, FiniteSets

CONSTANTS
    Groups,         \* the group ids the schema defines
    OwnFields,      \* group -> its own fields, in order
    Super,          \* group -> its supergroup or NoGroup
    NoGroup

FieldTypes == {"string", "fixed", "bool", "number", "signed", "u16", "f64", "decimal",
               "enum", "static", "dynamic", "object"}

\* A field: its type, whether it is optional, whether a sequence, the size of a
\* fixed, the group of a static or dynamic group.
Fields == [type : FieldTypes, opt : BOOLEAN, seq : BOOLEAN, size : Nat,
           group : Groups \union {NoGroup}]

ASSUME SchemaAssumption ==
    /\ IsFiniteSet(Groups)
    /\ NoGroup \notin Groups
    /\ Super \in [Groups -> Groups \union {NoGroup}]
    /\ \A g \in Groups : OwnFields[g] \in Seq(Fields)

\* The groups met by following supergroups from g.
Up == [h \in Groups \union {NoGroup} |-> IF h = NoGroup THEN NoGroup ELSE Super[h]]
Ancestors(g) ==
    LET met[n \in 0 .. Cardinality(Groups)] == IF n = 0 THEN g ELSE Up[met[n - 1]]
    IN  {met[n] : n \in 1 .. Cardinality(Groups)} \ {NoGroup}

\* BLINK_Group_isKindOf.
IsKindOf(g, base) == g = base \/ base \in Ancestors(g)

\* BLINK_Group_numberOfSuperGroup, of a chain that ends.
NumberOfSuperGroup(g) == Cardinality(Ancestors(g))

\* The fields BLINK_Group_eachField visits, in order: it sets up one level per
\* supergroup but takes the fields of g itself at every level.
EachField(g) ==
    LET own == OwnFields[g]
        depth == NumberOfSuperGroup(g) + 1
    IN  [k \in 1 .. (depth * Len(own)) |-> own[((k - 1) % Len(own)) + 1]]
=============================================================================
