--------------------------- MODULE MCSchemaParser ---------------------------
(***************************************************************************)
(* Small alphabets for SchemaParser, each for one part of the grammar.     *)
(***************************************************************************)
EXTENDS SchemaParser

Marks(kinds) == {[kind |-> k, name |-> NoName, num |-> 0] : k \in kinds}
Words(kind, names) == {[kind |-> kind, name |-> n, num |-> 0] : n \in names}
Numbers(kind, nums) == {[kind |-> kind, name |-> NoName, num |-> n] : n \in nums}

\* "A" is a prefix of "AB".
SomePrefixes == {<<"A", "AB">>}

GroupTokens ==
    Words("name", {"A", "AB"}) \union Words("cname", {"A:A"})
        \union Marks({":", "->", ",", "u8", "*", "[", "]", "?"})

EnumTokens ==
    Words("name", {"A", "B"}) \union Marks({"=", "|", "/"}) \union Numbers("uint", {0, 1, 2})
        \union Numbers("int", {-2})

\* Sizes, ids, typedefs, namespaces and a name that is too long.
TypeTokens ==
    Words("name", {"A", "AB"}) \union Marks({"namespace", "=", "/", "->", "string", "fixed", "(", ")", "[", "]",
                                             "*", "?", "enomem", "<-"})
        \union Numbers("uint", {1, 4})

NoteTokens ==
    Words("name", {"A", "B"}) \union Words("cname", {"A:A"}) \union Words("literal", {"v"})
        \union Marks({"@", "=", "|", "->", "u8", ","})

TypedefNoteTokens ==
    Words("name", {"A"}) \union Words("literal", {"v"}) \union Marks({"@", "=", "u8"})

TimeTokens == Words("name", {"A"}) \union Marks({"=", "milliTime"})
AllTokens == {GroupTokens, EnumTokens, TypeTokens, NoteTokens}
Times == {TimeTokens}
Types == {TypeTokens}
Notes == {NoteTokens}
TypedefNotes == {TypedefNoteTokens}
=============================================================================
