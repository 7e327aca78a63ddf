--------------------------- MODULE MCObjectEncode ---------------------------
(***************************************************************************)
(* Small schemas and values for ObjectEncode.                              *)
(***************************************************************************)
EXTENDS ObjectEncode, TLC

Member(type, opt, size) ==
    [type |-> type, opt |-> opt, seq |-> FALSE, size |-> size, group |-> NoGroup]

MixedFields ==
    1 :> <<Member("number", FALSE, 0), Member("string", TRUE, 2)>> @@
    2 :> <<Member("decimal", TRUE, 0), Member("fixed", FALSE, 1)>> @@
    3 :> <<Member("bool", TRUE, 0), Member("enum", TRUE, 0),
           [Member("static", TRUE, 0) EXCEPT !.group = 1],
           [Member("dynamic", TRUE, 0) EXCEPT !.group = 1]>> @@
    4 :> <<Member("signed", TRUE, 0), [Member("u16", TRUE, 0) EXCEPT !.seq = TRUE]>> @@
    5 :> <<Member("u16", FALSE, 0)>> @@
    6 :> <<Member("f64", TRUE, 0), Member("f64", FALSE, 0)>>
MixedSuper == 1 :> NoGroup @@ 2 :> NoGroup @@ 3 :> NoGroup @@ 4 :> 5 @@ 5 :> NoGroup @@
              6 :> NoGroup

\* A bool, a string, an optional fixed and a double: what the code gets wrong.
OddFields ==
    1 :> <<Member("bool", FALSE, 0), Member("string", FALSE, 2)>> @@
    2 :> <<Member("fixed", TRUE, 1)>> @@
    3 :> <<Member("f64", TRUE, 0)>>
OddSuper == 1 :> NoGroup @@ 2 :> NoGroup @@ 3 :> NoGroup

InheritedFields == 1 :> <<Member("number", FALSE, 0)>> @@ 2 :> <<Member("number", FALSE, 0)>>
InheritedSuper == 1 :> 2 @@ 2 :> NoGroup

\* The empty text, and texts up to one that is too long.
SomeTexts == {<<>>, <<7>>, <<7, 8>>, <<7, 8, 9>>}
=============================================================================
