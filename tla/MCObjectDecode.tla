--------------------------- MODULE MCObjectDecode ---------------------------
(***************************************************************************)
(* Small schemas for ObjectDecode.                                         *)
(***************************************************************************)
EXTENDS ObjectDecode, TLC

Field(type, opt) == [type |-> type, opt |-> opt, seq |-> FALSE, size |-> 0, group |-> NoGroup]
FixedField(n, opt) == [Field("fixed", opt) EXCEPT !.size = n]
GroupField(type, g, opt) == [Field(type, opt) EXCEPT !.group = g]
Sequence(f) == [f EXCEPT !.seq = TRUE]

\* Values of several words; a group of scalars that inherits from one with no
\* fields; sequences and an enum; groups in groups and presence flags; a group of
\* its own kind, in it and in its sequence.
MixedFields ==
    0 :> <<Field("decimal", FALSE), Field("u16", FALSE), FixedField(1, FALSE)>> @@
    1 :> <<Field("number", FALSE), Field("string", TRUE)>> @@
    2 :> <<Sequence(Field("string", FALSE)), Field("bool", TRUE), Field("enum", TRUE)>> @@
    3 :> <<GroupField("dynamic", 4, TRUE), FixedField(1, TRUE)>> @@
    4 :> <<GroupField("static", 5, TRUE), Field("decimal", TRUE)>> @@
    5 :> <<Sequence(GroupField("static", 5, FALSE)), GroupField("object", NoGroup, TRUE)>> @@
    6 :> <<>>
MixedSuper == [g \in DOMAIN MixedFields |-> CASE g = 1 -> 6 [] g = 5 -> 4 [] OTHER -> NoGroup]

\* A sequence of values and a sequence of groups that take no bytes.
LoopFields ==
    1 :> <<Sequence(Field("number", FALSE))>> @@
    2 :> <<Sequence(GroupField("static", 1, FALSE))>>
LoopSuper == 1 :> NoGroup @@ 2 :> NoGroup

\* A string, a u16, an enum and a group alone.
FieldsThatDisagree ==
    1 :> <<Field("string", FALSE)>> @@ 2 :> <<Field("u16", FALSE)>> @@ 3 :> <<Field("enum", FALSE)>> @@
    4 :> <<GroupField("static", 1, TRUE)>>
NoSupers == [g \in DOMAIN FieldsThatDisagree |-> NoGroup]
=============================================================================
