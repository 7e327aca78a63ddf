---------------------------- MODULE SchemaParser ----------------------------
(***************************************************************************)
(* parseSchema of blink_schema.c: the state machine that turns tokens into *)
(* namespaces of groups, typedefs and enums. A step is one turn of the     *)
(* inner loop: it shifts the token it looks at or leaves it to the next    *)
(* state. State names are those of the code without P_; the states that    *)
(* come twice, for the type of a field and of a typedef, are one state and *)
(* the pointer type says which type it is.                                 *)
(*                                                                         *)
(* A name is a member of a small set. searchListByName compares as many    *)
(* characters as the name it looks for has, so a name finds every name it  *)
(* is a prefix of. Nothing is taken back when parsing fails.               *)
(***************************************************************************)
EXTENDS Integers, Sequences, SequencesExt

CONSTANTS
    Alphabets,      \* sets of tokens, [kind, name, num], inputs are made of
    MaxTokens,      \* bound on the length of the input
    NamePrefixes,   \* pairs of names, the first a proper prefix of the second
    ENUM_MAX,       \* INT32_MAX; UINT32_MAX is 2 * ENUM_MAX + 1
    NoName          \* an empty name or a NULL pointer

ASSUME ParserAssumption ==
    /\ MaxTokens \in Nat
    /\ ENUM_MAX \in Nat
    /\ \A a \in Alphabets : \A t \in a : t.num \in Int

\* tokenToIType: the tables of the tokens and of the types differ in the order of
\* the two times.
BuiltIn == {"string", "fixed", "u8", "milliTime", "nanoTime", "object"}
IType(kind) ==
    CASE kind = "milliTime" -> "nanoTime"
      [] kind = "nanoTime" -> "milliTime"
      [] OTHER -> kind

VARIABLES
    state,      \* the state of the parser
    tok,        \* the token it looks at
    pending,    \* ~shift: tok is still to be handled
    ok,         \* retval
    spaces,     \* self->ns: [name, defs]
    ns,         \* the index of the namespace definitions go to
    name, laName, laType,       \* of the definition, and looked ahead
    annotes, laAnnotes,         \* lists of [name, value, at]
    annote,     \* the annotation whose value comes next: [list, index]
    type,       \* whose type it is: "field" or "typedef"
    begun,      \* history: definitions begun
    read,       \* history: the tokens read
    alphabet    \* the one of this input

vars == <<state, tok, pending, ok, spaces, ns, name, laName, laType, annotes,
          laAnnotes, annote, type, begun, read, alphabet>>

input == <<tok, read, alphabet>>
ahead == <<name, laName, laType>>
notes == <<annotes, laAnnotes, annote>>

Eof == [kind |-> "eof", name |-> NoName, num |-> 0]

-----------------------------------------------------------------------------
\* Lists and lookups.

Finds(sought, named) == sought = named \/ <<sought, named>> \in NamePrefixes

Search(list, sought) == {k \in DOMAIN list : Finds(sought, list[k].name)}
First(found) == CHOOSE k \in found : \A l \in found : k <= l

Definition(kind, given) ==
    [kind |-> kind, name |-> given, nth |-> begun, a |-> annotes, id |-> 0, hasId |-> FALSE,
     super |-> NoName, fields |-> <<>>, symbols |-> <<>>,
     type |-> [tag |-> "none", name |-> NoName, dyn |-> FALSE, seq |-> FALSE, size |-> 0, a |-> <<>>]]

Defs == spaces[ns].defs
D == Defs[Len(Defs)]                \* g, e and the typedef: always the last one
F == D.fields[Len(D.fields)]        \* f
S == D.symbols[Len(D.symbols)]      \* s

AddDef(d) == spaces' = [spaces EXCEPT ![ns].defs = Append(@, d)]
SetDef(d) == spaces' = [spaces EXCEPT ![ns].defs[Len(Defs)] = d]
SetField(f) == SetDef([D EXCEPT !.fields[Len(D.fields)] = f])
SetSymbol(s) == SetDef([D EXCEPT !.symbols[Len(D.symbols)] = s])

SetType(t) == IF type = "field" THEN SetField([F EXCEPT !.type = t]) ELSE SetDef([D EXCEPT !.type = t])
TheType == IF type = "field" THEN F.type ELSE D.type

-----------------------------------------------------------------------------
\* What a step does with the token.
Goto(s) == state' = s /\ pending' = FALSE /\ UNCHANGED ok
Keep(s) == state' = s /\ UNCHANGED <<pending, ok>>
Reject ==
    /\ ok' = FALSE
    /\ UNCHANGED <<state, pending, spaces, ns, ahead, notes, type, begun>>

In(s) == ok /\ pending /\ state = s /\ UNCHANGED input
Is(kinds) == tok.kind \in kinds

AfterType == IF type = "field" THEN "FIELD_NAME_ANNOTES" ELSE "ANY"

Init ==
    /\ state = "START" /\ tok = Eof /\ pending = FALSE /\ ok = TRUE
    /\ spaces = <<>> /\ ns = 0
    /\ name = NoName /\ laName = NoName /\ laType = "ref"
    /\ annotes = <<>> /\ laAnnotes = <<>> /\ annote = [list |-> "annotes", index |-> 0]
    /\ type = "field"
    /\ begun = 0 /\ read = <<>> /\ alphabet \in Alphabets

\* The next token; a name too long for the buffer ends the parse.
GetToken ==
    /\ ok /\ ~pending
    /\ Is({"eof"}) => read = <<>>
    /\ \E t \in alphabet \union {Eof} :
          /\ t.kind # "eof" => Len(read) < MaxTokens
          /\ tok' = t
          /\ read' = Append(read, t)
          /\ ok' = (t.kind # "enomem")
          /\ pending' = (t.kind # "enomem")
    /\ UNCHANGED <<state, spaces, ns, ahead, notes, type, begun, alphabet>>

\* getNamespace.
OpenNamespace(sought) ==
    LET found == Search(spaces, sought)
    IN  IF found # {}
        THEN ns' = First(found) /\ UNCHANGED spaces
        ELSE ns' = Len(spaces) + 1 /\ spaces' = Append(spaces, [name |-> sought, defs |-> <<>>])

Start ==
    /\ In("START")
    /\ IF Is({"namespace"})
       THEN Goto("NS") /\ UNCHANGED <<spaces, ns>>
       ELSE Keep("ANY") /\ OpenNamespace(NoName)
    /\ UNCHANGED <<ahead, notes, type, begun>>

Ns ==
    /\ In("NS")
    /\ IF Is({"name"})
       THEN Goto("ANY") /\ OpenNamespace(tok.name) /\ UNCHANGED <<ahead, notes, type, begun>>
       ELSE Reject

TopLevel ==
    /\ In("ANY")
    /\ \/ Is({"namespace"}) /\ Goto("NS")
       \/ Is({"@", "name", "cname"}) /\ Keep("DEF_OR_ANNOTE")
       \/ Is({"eof"}) /\ Goto("ANY")
       \/ ~Is({"namespace", "@", "name", "cname", "eof"}) /\ Reject
    /\ UNCHANGED <<spaces, ns, ahead, notes, type, begun>>

DefOrAnnote ==
    /\ In("DEF_OR_ANNOTE")
    /\ \/ /\ Is({"@"})
          /\ Goto("DEF_ANNOTE")
          /\ UNCHANGED <<name, begun>>
       \/ /\ Is({"name"})
          /\ Goto("DEF_TYPE")
          /\ name' = tok.name
          /\ begun' = begun + 1
       \/ /\ ~Is({"@", "name"})
          /\ Reject
    /\ UNCHANGED <<spaces, ns, laName, laType, notes, type>>

AnnoteStates == {"DEF_ANNOTE", "TYPEDEF_ANNOTE", "SYMBOL_ANNOTE", "TYPE_ANNOTE", "NAME_ANNOTE"}

ValueState(s) ==
    CASE s = "DEF_ANNOTE" -> "DEF_ANNOTE_VALUE"
      [] s = "TYPEDEF_ANNOTE" -> "TYPEDEF_ANNOTE_VALUE"
      [] s = "SYMBOL_ANNOTE" -> "SYMBOL_ANNOTE_VALUE"
      [] s = "TYPE_ANNOTE" -> "TYPE_ANNOTE_VALUE"
      [] s = "NAME_ANNOTE" -> "NAME_ANNOTE_VALUE"

AfterValue(s) ==
    CASE s = "DEF_ANNOTE_VALUE" -> "DEF_OR_ANNOTE"
      [] s = "TYPEDEF_ANNOTE_VALUE" -> "ENUM_OR_TYPEDEF"
      [] s = "SYMBOL_ANNOTE_VALUE" -> "SYMBOL_NAME"
      [] s = "TYPE_ANNOTE_VALUE" -> "FIELD_TYPE"
      [] s = "NAME_ANNOTE_VALUE" -> "FIELD_NAME"

\* The annotation is looked for in annotes, even when a new one goes to laAnnotes.
\* TYPE_ANNOTE is entered with the @ still pending, which is refused.
AnnoteName ==
    LET found == Search(annotes, tok.name)
        new == [name |-> tok.name, value |-> NoName, at |-> begun]
    IN  /\ ok /\ pending /\ state \in AnnoteStates /\ UNCHANGED input
        /\ IF Is({"name", "cname"})
           THEN /\ Goto(ValueState(state))
                /\ IF found # {}
                   THEN /\ annote' = [list |-> "annotes", index |-> First(found)]
                        /\ UNCHANGED <<annotes, laAnnotes>>
                   ELSE IF state = "TYPEDEF_ANNOTE"
                   THEN /\ laAnnotes' = Append(laAnnotes, new)
                        /\ annote' = [list |-> "laAnnotes", index |-> Len(laAnnotes) + 1]
                        /\ UNCHANGED annotes
                   ELSE /\ annotes' = Append(annotes, new)
                        /\ annote' = [list |-> "annotes", index |-> Len(annotes) + 1]
                        /\ UNCHANGED laAnnotes
                /\ UNCHANGED <<spaces, ns, ahead, type, begun>>
           ELSE Reject

AnnoteValue ==
    /\ ok /\ pending /\ UNCHANGED input
    /\ state \in {ValueState(s) : s \in AnnoteStates}
    /\ IF Is({"literal"})
       THEN /\ Goto(AfterValue(state))
            /\ \/ /\ annote.list = "annotes"
                  /\ annotes' = [annotes EXCEPT ![annote.index].value = tok.name, ![annote.index].at = begun]
                  /\ UNCHANGED laAnnotes
               \/ /\ annote.list = "laAnnotes"
                  /\ laAnnotes' = [laAnnotes EXCEPT ![annote.index].value = tok.name]
                  /\ UNCHANGED annotes
            /\ UNCHANGED <<spaces, ns, ahead, annote, type, begun>>
       ELSE Reject
-----------------------------------------------------------------------------
\* Definitions.

\* Mutant of DefType: a name may be defined again.
DefTypeAgain ==
    /\ In("DEF_TYPE")
    /\ \/ /\ Is({"/", ":", "->", "name", "cname", "@", "namespace", "eof"})
          /\ AddDef(Definition("group", name))
          /\ annotes' = <<>>
          /\ CASE Is({"/"}) -> Goto("GROUP_ID")
               [] Is({":"}) -> Goto("GROUP_SUPER")
               [] Is({"->"}) -> Goto("FIELD")
               [] OTHER -> Keep("ANY")
          /\ UNCHANGED <<ns, ahead, laAnnotes, annote, type, begun>>
       \/ /\ Is({"="})
          /\ Goto("ENUM_OR_TYPEDEF")
          /\ UNCHANGED <<spaces, ns, ahead, notes, type, begun>>

\* A group, unless an = follows; the name must be new either way.
DefType ==
    /\ In("DEF_TYPE")
    /\ \/ /\ Is({"/", ":", "->", "name", "cname", "@", "namespace", "eof"})
          /\ Search(Defs, name) = {}
          /\ AddDef(Definition("group", name))
          /\ annotes' = <<>>
          /\ CASE Is({"/"}) -> Goto("GROUP_ID")
               [] Is({":"}) -> Goto("GROUP_SUPER")
               [] Is({"->"}) -> Goto("FIELD")
               [] OTHER -> Keep("ANY")
          /\ UNCHANGED <<ns, ahead, laAnnotes, annote, type, begun>>
       \/ /\ Is({"="})
          /\ Search(Defs, name) = {}
          /\ Goto("ENUM_OR_TYPEDEF")
          /\ UNCHANGED <<spaces, ns, ahead, notes, type, begun>>
       \/ /\ \/ ~Is({"/", ":", "->", "name", "cname", "@", "namespace", "eof", "="})
             \/ Search(Defs, name) # {}
          /\ Reject

EnumOrTypedef ==
    /\ In("ENUM_OR_TYPEDEF")
    /\ \/ Is({"|"}) /\ Goto("ENUM_SINGLETON") /\ UNCHANGED <<laName, laType>>
       \/ Is({"@"}) /\ Goto("TYPEDEF_ANNOTE") /\ UNCHANGED <<laName, laType>>
       \/ Is({"name"}) /\ Goto("SYMBOL_OR_REF") /\ laName' = tok.name /\ laType' = "ref"
       \/ Is(BuiltIn) /\ Goto("TYPEDEF") /\ laType' = IType(tok.kind) /\ UNCHANGED laName
       \/ ~Is({"|", "@", "name"} \union BuiltIn) /\ Reject
    /\ UNCHANGED <<spaces, ns, name, notes, type, begun>>

SymbolOrRef ==
    /\ In("SYMBOL_OR_REF")
    /\ Keep(IF Is({"|", "/"}) THEN "ENUM" ELSE "TYPEDEF")
    /\ UNCHANGED <<spaces, ns, ahead, notes, type, begun>>

Typedef ==
    /\ In("TYPEDEF")
    /\ AddDef([Definition("typedef", name) EXCEPT
                  !.type.tag = laType,
                  !.type.name = IF laType = "ref" THEN laName ELSE NoName,
                  !.type.a = laAnnotes])
    /\ annotes' = <<>> /\ laAnnotes' = <<>>
    /\ type' = "typedef"
    /\ Keep(IF laType = "ref" THEN "TYPE_DYNAMIC" ELSE "TYPE_LBRACKET")
    /\ UNCHANGED <<ns, ahead, annote, begun>>

\* The look-ahead turns out to be the first symbol of an enum.
Enum ==
    /\ ok /\ pending /\ state \in {"ENUM", "ENUM_SINGLETON"} /\ UNCHANGED input
    /\ AddDef(Definition("enum", name))
    /\ \/ /\ state = "ENUM_SINGLETON"
          /\ Keep("SYMBOL_ANNOTES")
          /\ annotes' = <<>>
          /\ UNCHANGED <<name, laAnnotes>>
       \/ /\ state = "ENUM"
          /\ Keep("SYMBOL")
          /\ name' = laName
          /\ annotes' = laAnnotes
          /\ laAnnotes' = <<>>
    /\ UNCHANGED <<ns, laName, laType, annote, type, begun>>

SymbolAnnotes ==
    /\ In("SYMBOL_ANNOTES")
    /\ IF Is({"@"}) THEN Goto("SYMBOL_ANNOTE") ELSE Keep("SYMBOL_NAME")
    /\ UNCHANGED <<spaces, ns, ahead, notes, type, begun>>

SymbolName ==
    /\ In("SYMBOL_NAME")
    /\ IF Is({"name"})
       THEN Goto("SYMBOL") /\ name' = tok.name /\ UNCHANGED <<spaces, ns, laName, laType, notes, type, begun>>
       ELSE Reject

Symbol ==
    /\ In("SYMBOL")
    /\ IF Search(D.symbols, name) = {}
       THEN /\ SetDef([D EXCEPT !.symbols = Append(@, [name |-> name, value |-> 0, a |-> annotes])])
            /\ annotes' = <<>>
            /\ Keep("SYMBOL_SLASH")
            /\ UNCHANGED <<ns, ahead, laAnnotes, annote, type, begun>>
       ELSE Reject

HasPrevious == Len(D.symbols) > 1
Previous == D.symbols[Len(D.symbols) - 1].value

\* Mutant of SymbolSlash: the next value is not checked.
SymbolSlashWrapping ==
    /\ In("SYMBOL_SLASH")
    /\ IF Is({"/"})
       THEN Goto("SYMBOL_VALUE") /\ UNCHANGED spaces
       ELSE /\ Keep("SYMBOL_NEXT")
            /\ IF HasPrevious
               THEN SetSymbol([S EXCEPT !.value = IF Previous = ENUM_MAX THEN -ENUM_MAX - 1 ELSE Previous + 1])
               ELSE UNCHANGED spaces
    /\ UNCHANGED <<ns, ahead, notes, type, begun>>

\* A symbol without a value has the one after the previous symbol's.
SymbolSlash ==
    /\ In("SYMBOL_SLASH")
    /\ \/ Is({"/"}) /\ Goto("SYMBOL_VALUE") /\ UNCHANGED spaces
       \/ ~Is({"/"}) /\ ~HasPrevious /\ Keep("SYMBOL_NEXT") /\ UNCHANGED spaces
       \/ /\ ~Is({"/"}) /\ HasPrevious /\ Previous # ENUM_MAX
          /\ Keep("SYMBOL_NEXT")
          /\ SetSymbol([S EXCEPT !.value = Previous + 1])
       \/ ~Is({"/"}) /\ HasPrevious /\ Previous = ENUM_MAX /\ Reject
    /\ UNCHANGED <<ns, ahead, notes, type, begun>>

\* Mutant of SymbolValue: the value may be outside the range of an int32_t.
SymbolValueUnchecked ==
    /\ In("SYMBOL_VALUE")
    /\ IF Is({"uint", "int"}) /\ (HasPrevious => tok.num > Previous)
       THEN /\ SetSymbol([S EXCEPT !.value = tok.num])
            /\ Goto("SYMBOL_NEXT")
            /\ UNCHANGED <<ns, ahead, notes, type, begun>>
       ELSE Reject

SymbolValue ==
    /\ In("SYMBOL_VALUE")
    /\ IF /\ Is({"uint", "int"})
          /\ tok.num \in (-ENUM_MAX - 1) .. ENUM_MAX
          /\ HasPrevious => tok.num > Previous
       THEN /\ SetSymbol([S EXCEPT !.value = tok.num])
            /\ Goto("SYMBOL_NEXT")
            /\ UNCHANGED <<ns, ahead, notes, type, begun>>
       ELSE Reject

SymbolNext ==
    /\ In("SYMBOL_NEXT")
    /\ IF Is({"|"}) THEN Goto("SYMBOL_ANNOTES") ELSE Keep("ANY")
    /\ UNCHANGED <<spaces, ns, ahead, notes, type, begun>>

\* SUPER_OR_FIELD_OR_ANY and FIELD_OR_ANY.
AfterGroupHead ==
    /\ ok /\ pending /\ state \in {"SUPER_OR_FIELD_OR_ANY", "FIELD_OR_ANY"} /\ UNCHANGED input
    /\ \/ Is({":"}) /\ state = "SUPER_OR_FIELD_OR_ANY" /\ Goto("GROUP_SUPER")
       \/ Is({"->"}) /\ Goto("FIELD")
       \/ Is({"@", "namespace", "name", "cname", "eof"}) /\ Keep("ANY")
       \/ /\ ~Is({"->", "@", "namespace", "name", "cname", "eof"})
          /\ ~(Is({":"}) /\ state = "SUPER_OR_FIELD_OR_ANY")
          /\ Reject
    /\ UNCHANGED <<spaces, ns, ahead, notes, type, begun>>

GroupId ==
    /\ In("GROUP_ID")
    /\ IF Is({"uint"})
       THEN /\ Goto("SUPER_OR_FIELD_OR_ANY")
            /\ SetDef([D EXCEPT !.hasId = TRUE, !.id = tok.num])
            /\ UNCHANGED <<ns, ahead, notes, type, begun>>
       ELSE Reject

GroupSuper ==
    /\ In("GROUP_SUPER")
    /\ IF Is({"name", "cname"})
       THEN /\ Goto("FIELD_OR_ANY")
            /\ SetDef([D EXCEPT !.super = tok.name])
            /\ UNCHANGED <<ns, ahead, notes, type, begun>>
       ELSE Reject
-----------------------------------------------------------------------------
\* Fields and types.

EmptyField ==
    [name |-> NoName, opt |-> FALSE, a |-> <<>>,
     type |-> [tag |-> "none", name |-> NoName, dyn |-> FALSE, seq |-> FALSE, size |-> 0, a |-> <<>>]]

\* The @ of an annotation is not shifted here.
Field ==
    /\ In("FIELD")
    /\ SetDef([D EXCEPT !.fields = Append(@, EmptyField)])
    /\ type' = "field"
    /\ Keep(IF Is({"@"}) THEN "TYPE_ANNOTE" ELSE "FIELD_TYPE")
    /\ UNCHANGED <<ns, ahead, notes, begun>>

FieldType ==
    LET t == [TheType EXCEPT !.a = annotes] IN
    /\ In("FIELD_TYPE")
    /\ \/ /\ Is(BuiltIn)
          /\ SetType([t EXCEPT !.tag = IType(tok.kind)])
          /\ Goto(CASE Is({"string"}) -> "TYPE_LPAREN_OPTIONAL"
                    [] Is({"fixed"}) -> "TYPE_LPAREN"
                    [] OTHER -> "FIELD_NAME_ANNOTES")
          /\ annotes' = <<>>
          /\ UNCHANGED <<ns, ahead, laAnnotes, annote, type, begun>>
       \/ /\ Is({"name", "cname"})
          /\ SetType([t EXCEPT !.tag = "ref", !.name = tok.name])
          /\ Goto("TYPE_DYNAMIC")
          /\ annotes' = <<>>
          /\ UNCHANGED <<ns, ahead, laAnnotes, annote, type, begun>>
       \/ /\ ~Is(BuiltIn \union {"name", "cname"})
          /\ Reject

TypeDynamic ==
    /\ In("TYPE_DYNAMIC")
    /\ IF Is({"*"})
       THEN Goto("TYPE_DYNAMIC") /\ SetType([TheType EXCEPT !.dyn = TRUE])
       ELSE Keep("TYPE_LBRACKET") /\ UNCHANGED spaces
    /\ UNCHANGED <<ns, ahead, notes, type, begun>>

TypeLBracket ==
    /\ In("TYPE_LBRACKET")
    /\ IF Is({"["}) THEN Goto("TYPE_RBRACKET") ELSE Keep(AfterType)
    /\ UNCHANGED <<spaces, ns, ahead, notes, type, begun>>

\* Mutant of TypeRBracket: the sequence is not noted.
TypeRBracketIgnored ==
    /\ In("TYPE_RBRACKET")
    /\ IF Is({"]"})
       THEN Goto(AfterType) /\ UNCHANGED <<spaces, ns, ahead, notes, type, begun>>
       ELSE Reject

TypeRBracket ==
    /\ In("TYPE_RBRACKET")
    /\ IF Is({"]"})
       THEN /\ Goto(AfterType)
            /\ SetType([TheType EXCEPT !.seq = TRUE])
            /\ UNCHANGED <<ns, ahead, notes, type, begun>>
       ELSE Reject

TypeLParen ==
    /\ In("TYPE_LPAREN")
    /\ IF Is({"("})
       THEN Goto("TYPE_SIZE") /\ UNCHANGED <<spaces, ns, ahead, notes, type, begun>>
       ELSE Reject

UnlimitedSize == 2 * ENUM_MAX + 1

TypeLParenOptional ==
    /\ In("TYPE_LPAREN_OPTIONAL")
    /\ IF Is({"("})
       THEN Goto("TYPE_SIZE") /\ UNCHANGED spaces
       ELSE Keep(AfterType) /\ SetType([TheType EXCEPT !.size = UnlimitedSize])
    /\ UNCHANGED <<ns, ahead, notes, type, begun>>

\* The state that expects the closing parenthesis is never entered.
TypeSize ==
    /\ In("TYPE_SIZE")
    /\ IF Is({"uint"}) /\ tok.num <= UnlimitedSize
       THEN /\ Goto(AfterType)
            /\ SetType([TheType EXCEPT !.size = tok.num])
            /\ UNCHANGED <<ns, ahead, notes, type, begun>>
       ELSE Reject

FieldNameAnnotes ==
    /\ In("FIELD_NAME_ANNOTES")
    /\ IF Is({"@"}) THEN Goto("NAME_ANNOTE") ELSE Keep("FIELD_NAME")
    /\ UNCHANGED <<spaces, ns, ahead, notes, type, begun>>

\* Mutant of FieldName: a field needs no name.
FieldNameMissing ==
    /\ In("FIELD_NAME")
    /\ IF Is({"name"})
       THEN /\ Search(D.fields, tok.name) = {}
            /\ SetField([F EXCEPT !.a = annotes, !.name = tok.name])
            /\ annotes' = <<>>
            /\ Goto("FIELD_OPTIONAL")
       ELSE Keep("FIELD_OPTIONAL") /\ UNCHANGED <<spaces, annotes>>
    /\ UNCHANGED <<ns, ahead, laAnnotes, annote, type, begun>>

FieldName ==
    /\ In("FIELD_NAME")
    /\ IF Is({"name"}) /\ Search(D.fields, tok.name) = {}
       THEN /\ SetField([F EXCEPT !.a = annotes, !.name = tok.name])
            /\ annotes' = <<>>
            /\ Goto("FIELD_OPTIONAL")
            /\ UNCHANGED <<ns, ahead, laAnnotes, annote, type, begun>>
       ELSE Reject

FieldOptional ==
    /\ In("FIELD_OPTIONAL")
    /\ IF Is({"?"})
       THEN Goto("FIELD_NEXT") /\ SetField([F EXCEPT !.opt = TRUE])
       ELSE Keep("FIELD_NEXT") /\ UNCHANGED spaces
    /\ UNCHANGED <<ns, ahead, notes, type, begun>>

\* Mutant of FieldNext: what follows the last field is left to this state again.
FieldNextStays ==
    /\ In("FIELD_NEXT")
    /\ IF Is({","}) THEN Goto("FIELD") ELSE Keep("FIELD_NEXT")
    /\ UNCHANGED <<spaces, ns, ahead, notes, type, begun>>

FieldNext ==
    /\ In("FIELD_NEXT")
    /\ IF Is({","}) THEN Goto("FIELD") ELSE Keep("ANY")
    /\ UNCHANGED <<spaces, ns, ahead, notes, type, begun>>
-----------------------------------------------------------------------------
\* A step that allocates may find no memory.
Allocates ==
    \/ state = "START" /\ ~Is({"namespace"})
    \/ state \in {"TYPEDEF", "ENUM", "ENUM_SINGLETON", "SYMBOL", "FIELD"}
    \/ /\ state \in {"NS", "DEF_OR_ANNOTE", "ENUM_OR_TYPEDEF", "SYMBOL_NAME", "GROUP_SUPER", "FIELD_TYPE",
                     "FIELD_NAME"} \union AnnoteStates
       /\ Is({"name", "cname"})
    \/ state \in {ValueState(s) : s \in AnnoteStates} /\ Is({"literal"})
    \/ state = "DEF_TYPE" /\ ~Is({"=", "<-"})

NoMemory ==
    /\ ok /\ pending
    /\ Allocates
    /\ Reject
    /\ UNCHANGED input

Handle ==
    \/ Start \/ Ns \/ TopLevel \/ DefOrAnnote \/ AnnoteName \/ AnnoteValue
    \/ DefType \/ EnumOrTypedef \/ SymbolOrRef \/ Typedef
    \/ Enum \/ SymbolAnnotes \/ SymbolName \/ Symbol \/ SymbolSlash \/ SymbolValue \/ SymbolNext
    \/ AfterGroupHead \/ GroupId \/ GroupSuper
    \/ Field \/ FieldType \/ TypeDynamic \/ TypeLBracket \/ TypeRBracket
    \/ TypeLParen \/ TypeLParenOptional \/ TypeSize
    \/ FieldNameAnnotes \/ FieldName \/ FieldOptional \/ FieldNext
    \/ NoMemory

Next == GetToken \/ Handle

\* parseSchema runs until it returns.
Spec == Init /\ [][Next]_vars /\ WF_vars(Next)
-----------------------------------------------------------------------------
Accepted == ok /\ ~pending /\ tok.kind = "eof" /\ read # <<>>

AllDefs == UNION {{spaces[k].defs[l] : l \in DOMAIN spaces[k].defs} : k \in DOMAIN spaces}

States ==
    {"START", "NS", "ANY", "DEF_OR_ANNOTE", "DEF_TYPE", "ENUM_OR_TYPEDEF", "SYMBOL_OR_REF", "TYPEDEF",
     "ENUM", "ENUM_SINGLETON", "SYMBOL_ANNOTES", "SYMBOL_NAME", "SYMBOL", "SYMBOL_SLASH",
     "SYMBOL_VALUE", "SYMBOL_NEXT", "SUPER_OR_FIELD_OR_ANY", "FIELD_OR_ANY", "GROUP_ID",
     "GROUP_SUPER", "FIELD", "FIELD_TYPE", "TYPE_DYNAMIC", "TYPE_LBRACKET", "TYPE_RBRACKET",
     "TYPE_LPAREN", "TYPE_LPAREN_OPTIONAL", "TYPE_SIZE", "FIELD_NAME_ANNOTES", "FIELD_NAME",
     "FIELD_OPTIONAL", "FIELD_NEXT"}
        \union AnnoteStates \union {ValueState(s) : s \in AnnoteStates}

\* The state is one of the code's, the pointers point into the lists.
TypeOK ==
    /\ state \in States
    /\ pending \in BOOLEAN /\ ok \in BOOLEAN
    /\ ns \in 0 .. Len(spaces)
    /\ \A d \in AllDefs : /\ d.nth \in 1 .. begun
                          /\ \A k \in DOMAIN d.symbols :
                                d.symbols[k].value \in (-ENUM_MAX - 1) .. ENUM_MAX

AllDistinct(list) == \A k, l \in DOMAIN list : list[k].name = list[l].name => k = l

\* No namespace has two definitions of a name, no group two fields and no enum two
\* symbols, whichever way the definition began.
NamesUnique ==
    Accepted =>
        /\ \A k \in DOMAIN spaces : AllDistinct(spaces[k].defs)
        /\ \A d \in AllDefs : AllDistinct(d.fields) /\ AllDistinct(d.symbols)

\* The values of an enum ascend, so that no two symbols share one, however values
\* given and values counted on follow each other.
EnumValuesAscend ==
    \A d \in AllDefs : \A k, l \in DOMAIN d.symbols :
        (k < l /\ (l < Len(d.symbols) \/ state \notin {"SYMBOL_SLASH", "SYMBOL_VALUE"}) /\ ok)
            => d.symbols[k].value < d.symbols[l].value

Complete(t) == t.tag # "none" /\ (t.tag = "ref" => t.name # NoName)
CompleteNotes(a) == \A k \in DOMAIN a : a[k].value # NoName

\* A schema that is accepted has no half-made parts: wherever the input ends, every
\* field has a type and a name, a typedef a type, an enum a symbol, an annotation
\* a value.
AcceptedIsComplete ==
    Accepted =>
        \A d \in AllDefs :
            /\ CompleteNotes(d.a)
            /\ d.kind = "typedef" => Complete(d.type)
            /\ d.kind = "enum" => d.symbols # <<>>
            /\ \A k \in DOMAIN d.fields : /\ d.fields[k].name # NoName
                                          /\ Complete(d.fields[k].type)
                                          /\ CompleteNotes(d.fields[k].a)

\* The words of a schema in the order of the source: names, types, literals and the
\* marks ? and [.
NoteWords(a) == FlattenSeq([k \in DOMAIN a |-> <<a[k].name, a[k].value>>])
TypeWords(t) ==
    NoteWords(t.a) \o <<IF t.tag = "ref" THEN t.name ELSE t.tag>> \o (IF t.seq THEN <<"[">> ELSE <<>>)
FieldWords(f) ==
    TypeWords(f.type) \o NoteWords(f.a) \o <<f.name>> \o (IF f.opt THEN <<"?">> ELSE <<>>)
FieldsWords(fields) == FlattenSeq([k \in DOMAIN fields |-> FieldWords(fields[k])])
SymbolWords(s) == NoteWords(s.a) \o <<s.name>>
SymbolsWords(symbols) == FlattenSeq([k \in DOMAIN symbols |-> SymbolWords(symbols[k])])
SuperWords(d) == IF d.super = NoName THEN <<>> ELSE <<d.super>>
DefWords(d) ==
    (NoteWords(d.a) \o <<d.name>>)
        \o CASE d.kind = "group" -> SuperWords(d) \o FieldsWords(d.fields)
             [] d.kind = "typedef" -> TypeWords(d.type)
             [] d.kind = "enum" -> SymbolsWords(d.symbols)
SchemaWords(defs) == FlattenSeq([k \in DOMAIN defs |-> DefWords(defs[k])])

Word(t) == IF t.kind \in {"name", "cname", "literal"} THEN t.name ELSE t.kind
IsWord(t) == t.kind \in {"name", "cname", "literal", "?", "["} \union BuiltIn
TokenWords(t) == IF IsWord(t) THEN <<Word(t)>> ELSE <<>>
WordsOf(tokens) == FlattenSeq([k \in DOMAIN tokens |-> TokenWords(tokens[k])])

\* One namespace; no annotation is written twice, none after an =.
Plain ==
    /\ \A k \in DOMAIN read : read[k].kind # "namespace"
    /\ \A k, l \in {m \in DOMAIN read : read[m].kind = "@"} :
          /\ k > 1 => read[k - 1].kind # "="
          /\ k # l => ~Finds(read[k + 1].name, read[l + 1].name)

\* What was accepted is what was written: the schema has every name, type and mark
\* of the input, each once, in its place, with the annotations where they were.
AcceptedIsWhatWasWritten ==
    (Accepted /\ Plain) => SchemaWords(Defs) = WordsOf(read)

\* The parser is never stuck on a token, passing it from state to state: the parse
\* of any input ends.
Ends == <>(~ok \/ Accepted)

\* "<annotes> <name> = <laAnnotes> <laName> ...": what is annotated before the name
\* belongs to the definition, what is annotated after the = to its type.
AnnotesStayWithTheirDefinition ==
    \A d \in AllDefs :
        /\ \A k \in DOMAIN d.a : d.a[k].at = d.nth - 1
        /\ \A k \in DOMAIN d.type.a : d.type.a[k].at = d.nth

\* "annotes before a field type": an annotation where a field begins is parsed.
FieldTypeCanBeAnnotated ==
    (state = "TYPE_ANNOTE" /\ Is({"@"}) /\ read[Len(read) - 1].kind \in {"->", ","}) => ok

\* "duplicate definition name": a definition is refused at its = only if the
\* namespace has its name.
RefusesOnlyDuplicates ==
    (state = "DEF_TYPE" /\ Is({"="}) /\ ~ok) => \E k \in DOMAIN Defs : Defs[k].name = name

\* "expecting ')'" is said of a size that is not closed: the ) of a size that is
\* closed is not refused.
SizeCanBeClosed ==
    (Is({")"}) /\ Len(read) > 2 /\ read[Len(read) - 1].kind = "uint" /\ read[Len(read) - 2].kind = "(")
        => ok
=============================================================================
