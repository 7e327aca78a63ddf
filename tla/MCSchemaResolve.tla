--------------------------- MODULE MCSchemaResolve ---------------------------
(***************************************************************************)
(* Small schemas for SchemaResolve.                                        *)
(***************************************************************************)
EXTENDS SchemaResolve, TLC

\* A name written alone stands in the namespace it is written in.
Names == {"A", "B", "C", "AB", "Z"}
SomeSplit == [name \in Names |-> <<NoName, name>>] @@ ("N:A" :> <<"N", "A">>) @@ ("N:B" :> <<"N", "B">>)
SomePrefixes == {<<"A", "AB">>}

Built(tag) == [tag |-> tag, name |-> NoName, dyn |-> FALSE, seq |-> FALSE]
To(name) == [Built("ref") EXCEPT !.name = name]
DynamicTo(name) == [To(name) EXCEPT !.dyn = TRUE]
SequenceOf(name) == [To(name) EXCEPT !.seq = TRUE]
Field(name, type) == [name |-> name, type |-> type]

Definition(kind, name) ==
    [kind |-> kind, name |-> name, id |-> 0, hasId |-> FALSE, super |-> NoName, fields |-> <<>>,
     type |-> Built("none")]
Enum(name) == Definition("enum", name)
Typedef(name, type) == [Definition("typedef", name) EXCEPT !.type = type]
Group(name, super, fields) == [Definition("group", name) EXCEPT !.super = super, !.fields = fields]
Numbered(group, id) == [group EXCEPT !.id = id, !.hasId = TRUE]

\* What a definition can be, among these names; Z is no definition.
FieldLists == {<<>>, <<Field("x", Built("u8"))>>, <<Field("y", To("B")), Field("x", Built("u8"))>>}
GroupShapes(name, sups) == {Group(name, super, fields) : super \in sups, fields \in FieldLists}
Types ==
    {To(n) : n \in {"A", "B", "C", "Z"}} \union {DynamicTo(n) : n \in {"A", "B"}}
        \union {SequenceOf(n) : n \in {"B", "C"}} \union {Built("u8")}
Shapes(name) ==
    GroupShapes(name, {NoName, "A", "B", "C"}) \union {Typedef(name, type) : type \in Types} \union {Enum(name)}

Default(defs) == <<[name |-> NoName, defs |-> defs]>>
Three ==
    {Default(<<a, b, c>>) : a \in Shapes("A"), b \in Shapes("B"),
                            c \in GroupShapes("C", {NoName, "A", "B"}) \union {Enum("C")}}

\* Longer lines of supergroups, with typedefs between them, in two namespaces one of
\* which may be empty or come late, and ids.
Root(name, sups) == {Numbered(Group(name, super, <<Field("x", Built("u8")), Field("y", Built("u8"))>>), 1) : super \in sups}
Lines ==
    {<<[name |-> NoName, defs |-> first], [name |-> "M", defs |-> <<>>], [name |-> "N", defs |-> <<a, b>>]>> :
        first \in {<<>>} \union {<<Group("A", super, <<Field("z", To("N:B"))>>), c>> :
                                    super \in {"C", "N:A"}, c \in {Typedef("C", To("N:A")), Typedef("C", To("N:B"))}},
        a \in Root("A", {NoName, "N:B"}),
        b \in {Numbered(Group("B", super, <<Field(f, Built("u8"))>>), 2) : super \in {NoName, "N:A"}, f \in {"x", "w"}}
                \union {Typedef("B", To("N:A")), Enum("B")}}

AllSchemas == Three \union Lines

Cyclic == {Default(<<Group("A", "B", <<>>), Group("B", super, <<>>)>>) : super \in {NoName, "A"}}
Chains == {Default(<<Group("A", NoName, <<>>), Typedef("B", To("A")), Typedef("C", To("B")), Typedef("Z", To("C"))>>)}
Stopping ==
    {Default(<<a, Group("B", "C", <<>>), Enum("C")>>) : a \in {Group("A", "B", <<>>), Typedef("A", Built("u8"))}}
Dynamic == {Default(<<Group("A", NoName, <<>>), Group("B", NoName, <<Field("x", DynamicTo("A"))>>)>>)}
Bare == {Default(<<Group("A", NoName, <<>>), Group("B", "A", <<Field("x", Built("u8"))>>)>>)}
TwoIds == {Default(<<Numbered(Group(a, NoName, <<>>), 1), Numbered(Group("B", NoName, <<>>), 1)>>) : a \in {"A"}}
OtherSpace ==
    {<<[name |-> "M", defs |-> <<Group("A", NoName, <<>>)>>],
       [name |-> "N", defs |-> <<Group("A", NoName, <<>>), Group("B", "A", <<>>)>>]>>}
Marked ==
    {Default(<<Typedef("A", DynamicTo("B")), Typedef("B", To("C")), Group("C", NoName, <<>>)>>),
     Default(<<Typedef("A", DynamicTo("B")), Enum("B")>>),
     Default(<<Typedef("A", SequenceOf("B")), Typedef("B", SequenceOf("C")), Group("C", NoName, <<>>)>>)}
Disagreements == Marked \union Chains \union Dynamic \union Bare \union Stopping \union TwoIds \union OtherSpace
Prefixed == {Default(<<Group("AB", NoName, <<>>), Group("B", "A", <<>>)>>)}
=============================================================================
