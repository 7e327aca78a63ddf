------------------------- MODULE SchemaParserProofs -------------------------
(***************************************************************************)
(* Proofs about the schema parser, for every alphabet of tokens, every     *)
(* input and every order of failed allocations.                            *)
(***************************************************************************)
EXTENDS SchemaParser, SequenceTheorems, WellFoundedInduction, TLAPS

\* Names and literals have characters. The lexer gives a name at the very end of
\* the input none; of a schema that ends so, only AcceptedComplete and AcceptedWritten
\* say nothing.
WordsHaveCharacters ==
    \A a \in Alphabets : \A t \in a : t.kind \in {"name", "cname", "literal"} => t.name # NoName

Named(n) == WordsHaveCharacters => n # NoName

Tokens == (UNION Alphabets) \union {Eof}
Texts == {t.name : t \in Tokens}

\* What the lists hold.
NotesRead == [name : Texts, value : Texts, at : Nat]
TypesRead ==
    [tag : BuiltIn \union {"ref", "none"}, name : Texts, dyn : BOOLEAN, seq : BOOLEAN, size : Int, a : Seq(NotesRead)]
FieldsRead == [name : Texts, opt : BOOLEAN, a : Seq(NotesRead), type : TypesRead]
SymbolsRead == [name : Texts, value : Int, a : Seq(NotesRead)]
DefsRead ==
    [kind : {"group", "typedef", "enum"}, name : Texts, nth : Nat, a : Seq(NotesRead), id : Int,
     hasId : BOOLEAN, super : Texts, fields : Seq(FieldsRead), symbols : Seq(SymbolsRead),
     type : TypesRead]
SpacesRead == [name : Texts, defs : Seq(DefsRead)]

WholeType(t) == t.tag # "none" /\ (t.tag = "ref" => Named(t.name))
WholeNotes(a) == \A k \in DOMAIN a : Named(a[k].value)
WholeField(f) == Named(f.name) /\ WholeType(f.type) /\ WholeNotes(f.a)

\* The first n elements of the list have different names.
DistinctUpTo(list, n) == \A k, l \in 1 .. n : list[k].name = list[l].name => k = l
AscendingUpTo(list, n) == \A k, l \in 1 .. n : k < l => list[k].value < list[l].value

-----------------------------------------------------------------------------
\* How far the definition that is being read is made, by the state of the parser.
ValueStates ==
    {"DEF_ANNOTE_VALUE", "TYPEDEF_ANNOTE_VALUE", "SYMBOL_ANNOTE_VALUE", "TYPE_ANNOTE_VALUE", "NAME_ANNOTE_VALUE"}
SymbolStates == {"SYMBOL_ANNOTES", "SYMBOL_ANNOTE", "SYMBOL_ANNOTE_VALUE", "SYMBOL_NAME", "SYMBOL"}
SlashStates == {"SYMBOL_SLASH", "SYMBOL_VALUE"}
BareStates == {"FIELD_TYPE", "TYPE_ANNOTE", "TYPE_ANNOTE_VALUE"}
TailStates ==
    {"TYPE_DYNAMIC", "TYPE_LBRACKET", "TYPE_RBRACKET", "TYPE_LPAREN", "TYPE_LPAREN_OPTIONAL", "TYPE_SIZE"}
NameStates == {"FIELD_NAME_ANNOTES", "NAME_ANNOTE", "NAME_ANNOTE_VALUE", "FIELD_NAME"}
EndStates == {"FIELD_OPTIONAL", "FIELD_NEXT"}
HeadStates == {"SUPER_OR_FIELD_OR_ANY", "FIELD_OR_ANY", "GROUP_ID", "GROUP_SUPER", "FIELD", "SYMBOL_NEXT"}
NamingStates ==
    {"ENUM_OR_TYPEDEF", "TYPEDEF_ANNOTE", "TYPEDEF_ANNOTE_VALUE", "SYMBOL_OR_REF", "TYPEDEF", "ENUM",
     "ENUM_SINGLETON"}
AtTop == {"START", "NS", "ANY", "DEF_OR_ANNOTE", "DEF_ANNOTE", "DEF_ANNOTE_VALUE", "DEF_TYPE"}

Stage(s, t) ==
    CASE s \in SymbolStates -> "symbols"
      [] s \in SlashStates -> "symbol"
      [] s \in BareStates -> "bare"
      [] s \in NameStates \/ (s \in TailStates /\ t = "field") -> "typed"
      [] OTHER -> "whole"

Open(stage) == stage \in {"bare", "typed"}
WholeFields(stage, d) == IF Open(stage) THEN Len(d.fields) - 1 ELSE Len(d.fields)
WholeSymbols(stage, d) == IF stage = "symbol" THEN Len(d.symbols) - 1 ELSE Len(d.symbols)

\* A definition is whole but for its last field ("bare", "typed"), its last symbol
\* ("symbol") or its first symbol ("symbols").
FieldsAt(stage, d) ==
    /\ DistinctUpTo(d.fields, WholeFields(stage, d))
    /\ \A k \in 1 .. WholeFields(stage, d) : WholeField(d.fields[k])
    /\ Open(stage) => d.fields # <<>>
    /\ stage = "typed" => WholeType(d.fields[Len(d.fields)].type)

SymbolsAt(stage, d) ==
    /\ DistinctUpTo(d.symbols, Len(d.symbols))
    /\ \A k \in 1 .. Len(d.symbols) : d.symbols[k].value \in (-ENUM_MAX - 1) .. ENUM_MAX
    /\ AscendingUpTo(d.symbols, WholeSymbols(stage, d))
    /\ stage = "symbol" => d.symbols # <<>>
    /\ (d.kind = "enum" /\ stage # "symbols") => d.symbols # <<>>

HeadAt(d, n) ==
    /\ WholeNotes(d.a)
    /\ d.nth \in 1 .. n
    /\ d.kind = "typedef" => WholeType(d.type)

InStage(stage, d, n) == HeadAt(d, n) /\ FieldsAt(stage, d) /\ SymbolsAt(stage, d)

DefsAt(sp, at, n, stage) ==
    \A k \in DOMAIN sp : \A l \in DOMAIN sp[k].defs :
        InStage(IF k = at /\ l = Len(sp[k].defs) THEN stage ELSE "whole", sp[k].defs[l], n)

SpacesOK(sp) ==
    /\ sp \in Seq(SpacesRead)
    /\ \A k \in DOMAIN sp : AllDistinct(sp[k].defs)

-----------------------------------------------------------------------------
\* The variables besides the lists of definitions.
ScalarsOK ==
    /\ state \in States
    /\ type \in {"field", "typedef"}
    /\ state \in BareStates \union NameStates => type = "field"
    /\ pending \in BOOLEAN /\ ok \in BOOLEAN
    /\ begun \in Nat
    /\ name \in Texts /\ laName \in Texts /\ laType \in BuiltIn \union {"ref"}
    /\ state \in {"SYMBOL_OR_REF", "TYPEDEF", "ENUM"} => (laType = "ref" => Named(laName))
    /\ state \in NamingStates \union {"DEF_TYPE"} => begun >= 1

InputOK ==
    /\ alphabet \in Alphabets
    /\ tok \in Tokens
    /\ read \in Seq(Tokens)
    /\ (ok /\ ~pending /\ tok.kind = "eof" /\ read # <<>>) => state = "ANY"

\* Every annotation has a value but the one whose value comes next.
WholeBut(list, which) ==
    \A k \in DOMAIN list :
        (state \in ValueStates /\ annote.list = which /\ k = annote.index) \/ Named(list[k].value)

NotesOK ==
    /\ annotes \in Seq(NotesRead) /\ laAnnotes \in Seq(NotesRead)
    /\ annote \in [list : {"annotes", "laAnnotes"}, index : Nat]
    /\ state \in ValueStates =>
          annote.index \in 1 .. Len(IF annote.list = "annotes" THEN annotes ELSE laAnnotes)
    /\ WholeBut(annotes, "annotes") /\ WholeBut(laAnnotes, "laAnnotes")

\* Where the state says that there is a namespace or a definition, there is one, and
\* a name that was found to be new is still new.
PlaceOK ==
    /\ ns \in 0 .. Len(spaces)
    /\ state \notin {"START", "NS"} => ns \in 1 .. Len(spaces)
    /\ state \notin AtTop \union NamingStates => Defs # <<>>
    /\ state \in EndStates => D.fields # <<>>
    /\ state \in NamingStates => Search(Defs, name) = {}

DataOK == SpacesOK(spaces) /\ DefsAt(spaces, ns, begun, Stage(state, type))

IInv == ScalarsOK /\ InputOK /\ NotesOK /\ PlaceOK /\ DataOK

-----------------------------------------------------------------------------
\* Lists.

\* The first of the elements that are found is one of them.
LEMMA FirstIsFound ==
    ASSUME NEW list, NEW n \in Nat, DOMAIN list = 1 .. n, NEW sought, Search(list, sought) # {}
    PROVE  First(Search(list, sought)) \in 1 .. n
<1> DEFINE found == Search(list, sought)
           R == OpToRel(<, Nat)
<1>1. found \subseteq 1 .. n
  BY DEF Search
<1>2. PICK k \in found : \A l \in found : ~(<<l, k>> \in R)
  <2>1. IsWellFoundedOn(R, Nat)
    BY NatLessThanWellFounded
  <2>2. found \subseteq Nat /\ found # {}
    BY <1>1
  <2> HIDE DEF found, R
  <2> QED BY <2>1, <2>2, WFMin
<1>3. \A l \in found : k <= l
  <2> SUFFICES ASSUME NEW l \in found, ~(k <= l) PROVE FALSE
    OBVIOUS
  <2>1. l \in Nat /\ k \in Nat /\ l < k
    BY <1>1
  <2>2. <<l, k>> \in R
    BY <2>1 DEF OpToRel
  <2> QED BY <1>2, <2>2
<1>4. First(found) \in found
  <2> HIDE DEF found
  <2> QED BY <1>2, <1>3 DEF First
<1> QED BY <1>1, <1>4

\* A name that is not found is in no element of the list.
LEMMA NotFound ==
    ASSUME NEW list, NEW sought, Search(list, sought) = {}
    PROVE  \A k \in DOMAIN list : list[k].name # sought
BY DEF Search, Finds

\* The domain and the elements of a sequence with one more element.
LEMMA Appended ==
    ASSUME NEW T, NEW list \in Seq(T), NEW e \in T
    PROVE  /\ Append(list, e) \in Seq(T)
           /\ Len(Append(list, e)) = Len(list) + 1
           /\ Append(list, e) # <<>>
           /\ \A k \in 1 .. Len(list) : Append(list, e)[k] = list[k]
           /\ Append(list, e)[Len(list) + 1] = e
OBVIOUS

\* The domain and the elements of a sequence whose last element is replaced.
LEMMA Replaced ==
    ASSUME NEW T, NEW list \in Seq(T), list # <<>>, NEW e \in T
    PROVE  /\ [list EXCEPT ![Len(list)] = e] \in Seq(T)
           /\ Len([list EXCEPT ![Len(list)] = e]) = Len(list)
           /\ [list EXCEPT ![Len(list)] = e] # <<>>
           /\ \A k \in 1 .. (Len(list) - 1) : [list EXCEPT ![Len(list)] = e][k] = list[k]
           /\ [list EXCEPT ![Len(list)] = e][Len(list)] = e
<1>1. Len(list) \in 1 .. Len(list)
  OBVIOUS
<1> QED BY <1>1, ExceptSeq

-----------------------------------------------------------------------------
\* Definitions.

\* The parts of a definition whose last field is replaced.
LEMMA WithField ==
    ASSUME NEW d \in DefsRead, d.fields # <<>>, NEW f \in FieldsRead
    PROVE  LET e == [d EXCEPT !.fields[Len(d.fields)] = f] IN
           /\ e \in DefsRead
           /\ e.fields = [d.fields EXCEPT ![Len(d.fields)] = f]
           /\ e.name = d.name /\ e.kind = d.kind /\ e.nth = d.nth /\ e.a = d.a /\ e.type = d.type
           /\ e.symbols = d.symbols
<1> DEFINE e == [d EXCEPT !.fields[Len(d.fields)] = f]
           g == [d.fields EXCEPT ![Len(d.fields)] = f]
<1>1. g \in Seq(FieldsRead)
  BY Replaced DEF DefsRead
<1>2. e = [d EXCEPT !.fields = g]
  BY DEF DefsRead
<1> HIDE DEF g
<1>3. /\ [d EXCEPT !.fields = g] \in DefsRead
      /\ [d EXCEPT !.fields = g].fields = g
  BY <1>1 DEF DefsRead
<1> QED BY <1>2, <1>3 DEF g, DefsRead

\* Replacing the last field takes the definition to the stage the new field is at.
LEMMA SetFieldStage ==
    ASSUME NEW d \in DefsRead, NEW n \in Nat, NEW stage, NEW next,
           InStage(stage, d, n), stage # "symbol", stage # "symbols",
           next \in {"bare", "typed", "whole"},
           d.fields # <<>>, NEW f \in FieldsRead,
           next = "typed" => WholeType(f.type),
           next = "whole" => /\ WholeField(f)
                             /\ \A k \in 1 .. (Len(d.fields) - 1) : d.fields[k].name # f.name
    PROVE  LET e == [d EXCEPT !.fields[Len(d.fields)] = f] IN
           e \in DefsRead /\ e.name = d.name /\ InStage(next, e, n)
<1> DEFINE e == [d EXCEPT !.fields[Len(d.fields)] = f]
           g == [d.fields EXCEPT ![Len(d.fields)] = f]
           m == Len(d.fields)
<1>1. /\ e \in DefsRead /\ e.fields = g
      /\ e.name = d.name /\ e.kind = d.kind /\ e.nth = d.nth /\ e.a = d.a /\ e.type = d.type
      /\ e.symbols = d.symbols
  BY WithField
<1>2. d.fields \in Seq(FieldsRead) /\ m \in Nat /\ m > 0
  BY DEF DefsRead
<1>3. /\ Len(g) = m /\ g # <<>> /\ g[m] = f
      /\ \A k \in 1 .. (m - 1) : g[k] = d.fields[k]
  BY <1>2, Replaced
<1> HIDE DEF e, g
<1>4. HeadAt(e, n) /\ SymbolsAt(next, e)
  BY <1>1 DEF InStage, HeadAt, SymbolsAt, WholeSymbols
<1>5. /\ \A k \in 1 .. (m - 1) : WholeField(d.fields[k])
      /\ \A k, l \in 1 .. (m - 1) : d.fields[k].name = d.fields[l].name => k = l
  BY <1>2 DEF InStage, FieldsAt, DistinctUpTo, WholeFields
<1>6. FieldsAt(next, e)
  <2>1. CASE next = "whole"
    <3>1. \A k \in 1 .. m : WholeField(g[k])
      BY <1>2, <1>3, <1>5, <2>1
    <3>2. \A k, l \in 1 .. m : g[k].name = g[l].name => k = l
      BY <1>2, <1>3, <1>5, <2>1
    <3> QED BY <1>1, <1>3, <2>1, <3>1, <3>2 DEF FieldsAt, DistinctUpTo, WholeFields, Open
  <2>2. CASE next # "whole"
    <3>1. \A k \in 1 .. (m - 1) : WholeField(g[k])
      BY <1>3, <1>5
    <3>2. \A k, l \in 1 .. (m - 1) : g[k].name = g[l].name => k = l
      BY <1>3, <1>5
    <3> QED BY <1>1, <1>3, <2>2, <3>1, <3>2 DEF FieldsAt, DistinctUpTo, WholeFields, Open
  <2> QED BY <2>1, <2>2
<1> QED BY <1>1, <1>4, <1>6 DEF InStage, e

\* The empty strings and lists that things begin with.
LEMMA EmptyThings ==
    /\ NoName \in Texts
    /\ <<>> \in Seq(NotesRead) /\ <<>> \in Seq(FieldsRead) /\ <<>> \in Seq(SymbolsRead) /\ <<>> \in Seq(DefsRead)
    /\ EmptyField \in FieldsRead
<1>1. NoName \in Texts
  <2>1. Eof \in Tokens /\ Eof.name = NoName
    BY DEF Tokens, Eof
  <2> QED BY <2>1 DEF Texts
<1>2. /\ <<>> \in Seq(NotesRead) /\ <<>> \in Seq(FieldsRead) /\ <<>> \in Seq(SymbolsRead)
      /\ <<>> \in Seq(DefsRead)
  BY EmptySeq
<1> HIDE DEF Texts
<1>3. [tag |-> "none", name |-> NoName, dyn |-> FALSE, seq |-> FALSE, size |-> 0, a |-> <<>>] \in TypesRead
  <2>1. "none" \in BuiltIn \union {"ref", "none"} /\ FALSE \in BOOLEAN /\ 0 \in Int
    OBVIOUS
  <2> QED BY <1>1, <1>2, <2>1, Zenon DEF TypesRead
<1>4. EmptyField \in FieldsRead
  BY <1>1, <1>2, <1>3 DEF EmptyField, FieldsRead
<1> QED BY <1>1, <1>2, <1>4

\* A new field is bare: the fields before it are whole.
LEMMA NewFieldStage ==
    ASSUME NEW d \in DefsRead, NEW n \in Nat, InStage("whole", d, n)
    PROVE  LET e == [d EXCEPT !.fields = Append(@, EmptyField)] IN
           e \in DefsRead /\ e.name = d.name /\ e.fields # <<>> /\ InStage("bare", e, n)
<1> DEFINE e == [d EXCEPT !.fields = Append(@, EmptyField)]
           g == Append(d.fields, EmptyField)
           m == Len(d.fields)
<1>1. d.fields \in Seq(FieldsRead) /\ m \in Nat
  BY DEF DefsRead
<1>2. /\ g \in Seq(FieldsRead) /\ Len(g) = m + 1 /\ g # <<>>
      /\ \A k \in 1 .. m : g[k] = d.fields[k]
  BY <1>1, EmptyThings, Appended
<1> HIDE DEF g
<1>3. /\ e \in DefsRead /\ e.fields = g
      /\ e.name = d.name /\ e.kind = d.kind /\ e.nth = d.nth /\ e.a = d.a /\ e.type = d.type
      /\ e.symbols = d.symbols
  BY <1>2 DEF DefsRead, g
<1> HIDE DEF e
<1>4. HeadAt(e, n) /\ SymbolsAt("bare", e)
  BY <1>3 DEF InStage, HeadAt, SymbolsAt, WholeSymbols
<1>5. /\ \A k \in 1 .. m : WholeField(d.fields[k])
      /\ \A k, l \in 1 .. m : d.fields[k].name = d.fields[l].name => k = l
  BY <1>1 DEF InStage, FieldsAt, DistinctUpTo, WholeFields, Open
<1>6. WholeFields("bare", e) = m
  BY <1>1, <1>2, <1>3 DEF WholeFields, Open
<1>7. FieldsAt("bare", e)
  BY <1>1, <1>2, <1>3, <1>5, <1>6 DEF FieldsAt, DistinctUpTo
<1> QED BY <1>2, <1>3, <1>4, <1>7 DEF InStage, e

\* A new symbol has no value yet: the symbols before it have ascending ones.
LEMMA NewSymbolStage ==
    ASSUME NEW d \in DefsRead, NEW n \in Nat, InStage("symbols", d, n),
           NEW s \in SymbolsRead, s.value = 0, Search(d.symbols, s.name) = {}
    PROVE  LET e == [d EXCEPT !.symbols = Append(@, s)] IN
           e \in DefsRead /\ e.name = d.name /\ InStage("symbol", e, n)
<1> DEFINE e == [d EXCEPT !.symbols = Append(@, s)]
           g == Append(d.symbols, s)
           m == Len(d.symbols)
<1>1. d.symbols \in Seq(SymbolsRead) /\ m \in Nat /\ DOMAIN d.symbols = 1 .. m
  BY DEF DefsRead
<1>2. /\ g \in Seq(SymbolsRead) /\ Len(g) = m + 1 /\ g # <<>> /\ g[m + 1] = s
      /\ \A k \in 1 .. m : g[k] = d.symbols[k]
  BY <1>1, Appended
<1> HIDE DEF g
<1>3. /\ e \in DefsRead /\ e.symbols = g
      /\ e.name = d.name /\ e.kind = d.kind /\ e.nth = d.nth /\ e.a = d.a /\ e.type = d.type
      /\ e.fields = d.fields
  BY <1>2 DEF DefsRead, g
<1> HIDE DEF e
<1>4. HeadAt(e, n) /\ FieldsAt("symbol", e)
  BY <1>3 DEF InStage, HeadAt, FieldsAt, WholeFields, Open
<1>5. /\ \A k \in 1 .. m : d.symbols[k].value \in (-ENUM_MAX - 1) .. ENUM_MAX
      /\ \A k, l \in 1 .. m : d.symbols[k].name = d.symbols[l].name => k = l
      /\ \A k, l \in 1 .. m : k < l => d.symbols[k].value < d.symbols[l].value
  BY <1>1 DEF InStage, SymbolsAt, DistinctUpTo, AscendingUpTo, WholeSymbols
<1>6. \A k \in 1 .. m : d.symbols[k].name # s.name
  BY <1>1, NotFound
<1>7. \A k, l \in 1 .. (m + 1) : g[k].name = g[l].name => k = l
  <2>1. \A k \in 1 .. m : g[k].name = d.symbols[k].name /\ g[k].name # s.name
    BY <1>2, <1>6
  <2>2. \A k \in 1 .. (m + 1) : k \in 1 .. m \/ k = m + 1
    BY <1>1
  <2>3. g[m + 1].name = s.name
    BY <1>2
  <2> QED BY <1>5, <2>1, <2>2, <2>3
<1>8. \A k \in 1 .. (m + 1) : g[k].value \in (-ENUM_MAX - 1) .. ENUM_MAX
  <2> SUFFICES ASSUME NEW k \in 1 .. (m + 1) PROVE g[k].value \in (-ENUM_MAX - 1) .. ENUM_MAX
    OBVIOUS
  <2>1. CASE k \in 1 .. m
    BY <1>2, <1>5, <2>1
  <2>2. CASE k = m + 1
    <3>1. g[k].value = 0
      BY <1>2, <2>2
    <3> QED BY <3>1, ParserAssumption
  <2> QED BY <1>1, <2>1, <2>2
<1>9. \A k, l \in 1 .. m : k < l => g[k].value < g[l].value
  BY <1>2, <1>5
<1>10. SymbolsAt("symbol", e)
  <2>1. WholeSymbols("symbol", e) = m
    BY <1>1, <1>2, <1>3 DEF WholeSymbols
  <2> QED BY <1>2, <1>3, <1>7, <1>8, <1>9, <2>1 DEF SymbolsAt, DistinctUpTo, AscendingUpTo
<1> QED BY <1>3, <1>4, <1>10 DEF InStage, e

\* The last symbol gets a value that is above the one before it.
LEMMA SetSymbolStage ==
    ASSUME NEW d \in DefsRead, NEW n \in Nat, InStage("symbol", d, n),
           NEW v \in (-ENUM_MAX - 1) .. ENUM_MAX,
           Len(d.symbols) > 1 => v > d.symbols[Len(d.symbols) - 1].value
    PROVE  LET e == [d EXCEPT !.symbols[Len(d.symbols)] = [d.symbols[Len(d.symbols)] EXCEPT !.value = v]] IN
           e \in DefsRead /\ e.name = d.name /\ InStage("whole", e, n)
<1> DEFINE m == Len(d.symbols)
           s == [d.symbols[m] EXCEPT !.value = v]
           g == [d.symbols EXCEPT ![m] = s]
           e == [d EXCEPT !.symbols[m] = s]
<1>1. /\ d.symbols \in Seq(SymbolsRead) /\ m \in Nat /\ DOMAIN d.symbols = 1 .. m
      /\ d.symbols # <<>> /\ m > 0 /\ d.symbols[m] \in SymbolsRead
  <2>1. d.symbols \in Seq(SymbolsRead) /\ d.symbols # <<>>
    BY DEF DefsRead, InStage, SymbolsAt
  <2> QED BY <2>1
<1>2. s \in SymbolsRead /\ s.value = v /\ s.name = d.symbols[m].name
  <2>1. v \in Int
    BY ParserAssumption
  <2>2. ASSUME NEW x \in SymbolsRead
        PROVE  LET y == [x EXCEPT !.value = v] IN y \in SymbolsRead /\ y.value = v /\ y.name = x.name
    BY <2>1 DEF SymbolsRead
  <2> QED BY <1>1, <2>2
<1> HIDE DEF s
<1>3. /\ g \in Seq(SymbolsRead) /\ Len(g) = m /\ g # <<>> /\ g[m] = s
      /\ \A k \in 1 .. (m - 1) : g[k] = d.symbols[k]
  BY <1>1, <1>2, Replaced
<1>4. e = [d EXCEPT !.symbols = g]
  BY DEF DefsRead
<1> HIDE DEF g
<1>5. [d EXCEPT !.symbols = g] \in DefsRead /\ [d EXCEPT !.symbols = g].symbols = g
  BY <1>3 DEF DefsRead
<1>6. /\ e \in DefsRead /\ e.symbols = g
      /\ e.name = d.name /\ e.kind = d.kind /\ e.nth = d.nth /\ e.a = d.a /\ e.type = d.type
      /\ e.fields = d.fields
  BY <1>4, <1>5 DEF DefsRead
<1> HIDE DEF e
<1>7. HeadAt(e, n) /\ FieldsAt("whole", e)
  BY <1>6 DEF InStage, HeadAt, FieldsAt, WholeFields, Open
<1>8. /\ \A k \in 1 .. m : d.symbols[k].value \in (-ENUM_MAX - 1) .. ENUM_MAX
      /\ \A k, l \in 1 .. m : d.symbols[k].name = d.symbols[l].name => k = l
      /\ \A k, l \in 1 .. (m - 1) : k < l => d.symbols[k].value < d.symbols[l].value
  BY <1>1 DEF InStage, SymbolsAt, DistinctUpTo, AscendingUpTo, WholeSymbols
<1>9. \A k, l \in 1 .. m : g[k].name = g[l].name => k = l
  <2>1. \A k \in 1 .. m : k \in 1 .. (m - 1) \/ k = m
    BY <1>1
  <2>2. \A k \in 1 .. m : g[k].name = d.symbols[k].name
    BY <1>2, <1>3, <2>1
  <2> QED BY <1>8, <2>2
<1>10. \A k \in 1 .. m : g[k].value \in (-ENUM_MAX - 1) .. ENUM_MAX
  <2>1. \A k \in 1 .. m : k \in 1 .. (m - 1) \/ k = m
    BY <1>1
  <2> QED BY <1>2, <1>3, <1>8, <2>1
<1>11. \A k, l \in 1 .. m : k < l => g[k].value < g[l].value
  <2> SUFFICES ASSUME NEW k \in 1 .. m, NEW l \in 1 .. m, k < l PROVE g[k].value < g[l].value
    OBVIOUS
  <2>1. k \in 1 .. (m - 1) /\ g[k].value = d.symbols[k].value
    <3>1. k \in 1 .. (m - 1)
      BY <1>1
    <3> QED BY <1>3, <3>1
  <2>2. CASE l < m
    <3>1. l \in 1 .. (m - 1)
      BY <1>1, <2>2
    <3> QED BY <1>3, <1>8, <2>1, <3>1
  <2>3. CASE l = m
    <3> DEFINE a == d.symbols[k].value
               b == d.symbols[m - 1].value
    <3>1. g[l].value = v
      BY <1>2, <1>3, <2>3
    <3>2. m > 1 /\ m - 1 \in 1 .. (m - 1) /\ m - 1 \in 1 .. m
      BY <1>1, <2>1
    <3>3. a \in Int /\ b \in Int /\ v \in Int
      <4>1. a \in (-ENUM_MAX - 1) .. ENUM_MAX /\ b \in (-ENUM_MAX - 1) .. ENUM_MAX
        BY <1>8, <3>2
      <4> HIDE DEF a, b
      <4> QED BY <4>1, ParserAssumption
    <3>4. v > b
      BY <3>2
    <3>5. k = m - 1 \/ a < b
      <4>1. k = m - 1 \/ k < m - 1
        BY <1>1, <2>1
      <4> QED BY <1>8, <2>1, <3>2, <4>1
    <3>6. k = m - 1 => a = b
      OBVIOUS
    <3> HIDE DEF a, b
    <3>7. a < v
      BY <3>3, <3>4, <3>5, <3>6
    <3> QED BY <2>1, <3>1, <3>7 DEF a
  <2> QED BY <1>1, <2>2, <2>3
<1>12. SymbolsAt("whole", e)
  BY <1>3, <1>6, <1>9, <1>10, <1>11 DEF SymbolsAt, DistinctUpTo, AscendingUpTo, WholeSymbols
<1> QED BY <1>6, <1>7, <1>12 DEF InStage, e, s

\* The id, the supergroup and the type of a definition are apart from its lists.
LEMMA HeadStage ==
    ASSUME NEW d \in DefsRead, NEW n \in Nat, InStage("whole", d, n)
    PROVE  /\ \A i \in Int : LET e == [d EXCEPT !.hasId = TRUE, !.id = i] IN
                 e \in DefsRead /\ e.name = d.name /\ InStage("whole", e, n)
           /\ \A x \in Texts : LET e == [d EXCEPT !.super = x] IN
                 e \in DefsRead /\ e.name = d.name /\ InStage("whole", e, n)
           /\ \A t \in TypesRead : (d.kind = "typedef" => WholeType(t)) =>
                 LET e == [d EXCEPT !.type = t] IN
                 e \in DefsRead /\ e.name = d.name /\ InStage("whole", e, n)
<1> DEFINE Same(e) == /\ e.name = d.name /\ e.kind = d.kind /\ e.nth = d.nth /\ e.a = d.a
                      /\ e.fields = d.fields /\ e.symbols = d.symbols
<1>1. ASSUME NEW e, e \in DefsRead, Same(e), d.kind = "typedef" => WholeType(e.type)
      PROVE  e \in DefsRead /\ e.name = d.name /\ InStage("whole", e, n)
  BY <1>1 DEF InStage, HeadAt, FieldsAt, SymbolsAt, WholeFields, WholeSymbols, Open
<1>2. ASSUME NEW i \in Int
      PROVE  LET e == [d EXCEPT !.hasId = TRUE, !.id = i] IN e \in DefsRead /\ Same(e) /\ e.type = d.type
  BY DEF DefsRead
<1>3. ASSUME NEW x \in Texts
      PROVE  LET e == [d EXCEPT !.super = x] IN e \in DefsRead /\ Same(e) /\ e.type = d.type
  BY DEF DefsRead
<1>4. ASSUME NEW t \in TypesRead
      PROVE  LET e == [d EXCEPT !.type = t] IN e \in DefsRead /\ Same(e) /\ e.type = t
  BY DEF DefsRead
<1>5. d.kind = "typedef" => WholeType(d.type)
  BY DEF InStage, HeadAt
<1> HIDE DEF Same
<1> QED BY <1>1, <1>2, <1>3, <1>4, <1>5

-----------------------------------------------------------------------------
\* Namespaces.

\* The definition that is being read.
LEMMA LastDef ==
    ASSUME SpacesOK(spaces), ns \in 1 .. Len(spaces), Defs # <<>>,
           NEW stage, NEW n, DefsAt(spaces, ns, n, stage)
    PROVE  D \in DefsRead /\ InStage(stage, D, n)
<1>1. /\ spaces \in Seq(SpacesRead) /\ ns \in DOMAIN spaces
      /\ Defs \in Seq(DefsRead)
  <2>1. spaces \in Seq(SpacesRead) /\ ns \in DOMAIN spaces
    BY DEF SpacesOK
  <2>2. spaces[ns] \in SpacesRead
    BY <2>1
  <2> QED BY <2>1, <2>2 DEF SpacesRead, Defs
<1>2. Len(Defs) \in DOMAIN Defs /\ D \in DefsRead
  BY <1>1 DEF D
<1> QED BY <1>1, <1>2 DEF DefsAt, D, Defs

\* A list of definitions in which the last one is replaced under its name.
LEMMA SetDefKeeps ==
    ASSUME SpacesOK(spaces), ns \in 1 .. Len(spaces), Defs # <<>>, begun \in Nat,
           NEW d \in DefsRead, d.name = D.name, NEW stage, NEW next,
           DefsAt(spaces, ns, begun, stage), InStage(next, d, begun),
           SetDef(d), ns' = ns, begun' = begun
    PROVE  /\ SpacesOK(spaces)' /\ DefsAt(spaces', ns', begun', next)
           /\ Len(spaces') = Len(spaces) /\ Defs' # <<>> /\ D' = d
<1> DEFINE new == [Defs EXCEPT ![Len(Defs)] = d]
           space == [spaces[ns] EXCEPT !.defs = new]
<1>1. /\ spaces \in Seq(SpacesRead) /\ ns \in DOMAIN spaces /\ spaces[ns] \in SpacesRead
      /\ Defs \in Seq(DefsRead) /\ DOMAIN spaces = 1 .. Len(spaces)
  <2>1. spaces \in Seq(SpacesRead) /\ ns \in DOMAIN spaces
    BY DEF SpacesOK
  <2>2. spaces[ns] \in SpacesRead
    BY <2>1
  <2> QED BY <2>1, <2>2 DEF SpacesRead, Defs
<1>2. /\ new \in Seq(DefsRead) /\ Len(new) = Len(Defs) /\ new # <<>> /\ new[Len(Defs)] = d
      /\ \A k \in 1 .. (Len(Defs) - 1) : new[k] = Defs[k]
  BY <1>1, Replaced
<1>3. spaces' = [spaces EXCEPT ![ns] = space]
  BY <1>1 DEF SetDef, Defs, SpacesRead
<1> HIDE DEF new
<1>4. space \in SpacesRead /\ space.defs = new /\ space.name = spaces[ns].name
  BY <1>1, <1>2 DEF SpacesRead
<1> HIDE DEF space
<1>5. /\ spaces' \in Seq(SpacesRead) /\ Len(spaces') = Len(spaces) /\ DOMAIN spaces' = DOMAIN spaces
      /\ spaces'[ns] = space /\ \A k \in DOMAIN spaces : k # ns => spaces'[k] = spaces[k]
  BY <1>1, <1>3, <1>4
<1>6. Defs' = new
  BY <1>4, <1>5 DEF Defs
<1>7. D' = d
  BY <1>2, <1>6 DEF D
<1>8. \A k \in 1 .. Len(Defs) : new[k].name = Defs[k].name
  <2>1. new[Len(Defs)].name = Defs[Len(Defs)].name
    BY <1>2 DEF D
  <2>2. \A k \in 1 .. Len(Defs) : k \in 1 .. (Len(Defs) - 1) \/ k = Len(Defs)
    BY <1>1
  <2> QED BY <1>2, <2>1, <2>2
<1>9. AllDistinct(new)
  <2>1. \A k, l \in 1 .. Len(Defs) : Defs[k].name = Defs[l].name => k = l
    BY <1>1 DEF SpacesOK, AllDistinct, Defs
  <2> QED BY <1>2, <1>8, <2>1 DEF AllDistinct
<1>10. SpacesOK(spaces)'
  <2>1. \A k \in DOMAIN spaces' : AllDistinct(spaces'[k].defs)
    BY <1>1, <1>4, <1>5, <1>9 DEF SpacesOK
  <2> QED BY <1>5, <2>1 DEF SpacesOK, AllDistinct
<1>11. DefsAt(spaces', ns, begun, next)
  <2> SUFFICES ASSUME NEW k \in DOMAIN spaces', NEW l \in DOMAIN spaces'[k].defs
               PROVE  InStage(IF k = ns /\ l = Len(spaces'[k].defs) THEN next ELSE "whole",
                              spaces'[k].defs[l], begun)
    BY DEF DefsAt
  <2>1. CASE k # ns
    <3>1. spaces'[k] = spaces[k] /\ k \in DOMAIN spaces
      BY <1>5, <2>1
    <3> QED BY <2>1, <3>1 DEF DefsAt
  <2>2. CASE k = ns /\ l = Len(Defs)
    BY <1>2, <1>4, <1>5, <2>2
  <2>3. CASE k = ns /\ l # Len(Defs)
    <3>1. l \in 1 .. (Len(Defs) - 1) /\ spaces'[k].defs = new
      BY <1>1, <1>2, <1>4, <1>5, <2>3
    <3>2. l \in DOMAIN spaces[ns].defs /\ l # Len(spaces[ns].defs) /\ spaces'[k].defs[l] = spaces[ns].defs[l]
      BY <1>1, <1>2, <3>1 DEF Defs
    <3>3. InStage("whole", spaces[ns].defs[l], begun)
      BY <1>1, <3>2 DEF DefsAt
    <3> QED BY <1>2, <2>3, <3>1, <3>2, <3>3
  <2> QED BY <2>1, <2>2, <2>3
<1> QED BY <1>2, <1>5, <1>6, <1>7, <1>10, <1>11

\* A list of whole definitions to which one of a new name is added.
LEMMA AddDefKeeps ==
    ASSUME SpacesOK(spaces), ns \in 1 .. Len(spaces), begun \in Nat,
           NEW d \in DefsRead, Search(Defs, d.name) = {}, NEW next,
           DefsAt(spaces, ns, begun, "whole"), InStage(next, d, begun),
           AddDef(d), ns' = ns, begun' = begun
    PROVE  /\ SpacesOK(spaces)' /\ DefsAt(spaces', ns', begun', next)
           /\ Len(spaces') = Len(spaces) /\ Defs' # <<>> /\ D' = d
<1> DEFINE new == Append(Defs, d)
           space == [spaces[ns] EXCEPT !.defs = new]
<1>1. /\ spaces \in Seq(SpacesRead) /\ ns \in DOMAIN spaces /\ spaces[ns] \in SpacesRead
      /\ Defs \in Seq(DefsRead) /\ DOMAIN spaces = 1 .. Len(spaces)
  <2>1. spaces \in Seq(SpacesRead) /\ ns \in DOMAIN spaces
    BY DEF SpacesOK
  <2>2. spaces[ns] \in SpacesRead
    BY <2>1
  <2> QED BY <2>1, <2>2 DEF SpacesRead, Defs
<1>2. /\ new \in Seq(DefsRead) /\ Len(new) = Len(Defs) + 1 /\ new # <<>> /\ new[Len(Defs) + 1] = d
      /\ \A k \in 1 .. Len(Defs) : new[k] = Defs[k]
  BY <1>1, Appended
<1>3. spaces' = [spaces EXCEPT ![ns] = space]
  BY <1>1 DEF AddDef, Defs, SpacesRead
<1> HIDE DEF new
<1>4. space \in SpacesRead /\ space.defs = new /\ space.name = spaces[ns].name
  BY <1>1, <1>2 DEF SpacesRead
<1> HIDE DEF space
<1>5. /\ spaces' \in Seq(SpacesRead) /\ Len(spaces') = Len(spaces) /\ DOMAIN spaces' = DOMAIN spaces
      /\ spaces'[ns] = space /\ \A k \in DOMAIN spaces : k # ns => spaces'[k] = spaces[k]
  BY <1>1, <1>3, <1>4
<1>6. Defs' = new
  BY <1>4, <1>5 DEF Defs
<1>7. D' = d
  BY <1>2, <1>6 DEF D
<1>8. AllDistinct(new)
  <2>1. \A k, l \in 1 .. Len(Defs) : Defs[k].name = Defs[l].name => k = l
    BY <1>1 DEF SpacesOK, AllDistinct, Defs
  <2>2. \A k \in 1 .. Len(Defs) : Defs[k].name # d.name
    BY <1>1, NotFound
  <2> QED BY <1>1, <1>2, <2>1, <2>2 DEF AllDistinct
<1>9. SpacesOK(spaces)'
  <2>1. \A k \in DOMAIN spaces' : AllDistinct(spaces'[k].defs)
    BY <1>1, <1>4, <1>5, <1>8 DEF SpacesOK
  <2> QED BY <1>5, <2>1 DEF SpacesOK, AllDistinct
<1>10. DefsAt(spaces', ns, begun, next)
  <2> SUFFICES ASSUME NEW k \in DOMAIN spaces', NEW l \in DOMAIN spaces'[k].defs
               PROVE  InStage(IF k = ns /\ l = Len(spaces'[k].defs) THEN next ELSE "whole",
                              spaces'[k].defs[l], begun)
    BY DEF DefsAt
  <2>1. CASE k # ns
    <3>1. spaces'[k] = spaces[k] /\ k \in DOMAIN spaces
      BY <1>5, <2>1
    <3> QED BY <2>1, <3>1 DEF DefsAt
  <2>2. CASE k = ns /\ l = Len(Defs) + 1
    BY <1>2, <1>4, <1>5, <2>2
  <2>3. CASE k = ns /\ l # Len(Defs) + 1
    <3>1. l \in 1 .. Len(Defs) /\ spaces'[k].defs = new
      BY <1>1, <1>2, <1>4, <1>5, <2>3
    <3>2. l \in DOMAIN spaces[ns].defs /\ spaces'[k].defs[l] = spaces[ns].defs[l]
      BY <1>1, <1>2, <3>1 DEF Defs
    <3>3. InStage("whole", spaces[ns].defs[l], begun)
      BY <1>1, <3>2 DEF DefsAt
    <3> QED BY <1>2, <2>3, <3>1, <3>2, <3>3
  <2> QED BY <2>1, <2>2, <2>3
<1> QED BY <1>2, <1>5, <1>6, <1>7, <1>9, <1>10

\* The stages of a definition are kept or relaxed while the lists stay as they are.
LEMMA Restage ==
    ASSUME SpacesOK(spaces), NEW stage, NEW next, DefsAt(spaces, ns, begun, stage),
           (ns \in 1 .. Len(spaces) /\ Defs # <<>>) => InStage(next, D, begun),
           spaces' = spaces, ns' = ns, begun' = begun
    PROVE  SpacesOK(spaces)' /\ DefsAt(spaces', ns', begun', next)
<1>1. DefsAt(spaces, ns, begun, next)
  <2> SUFFICES ASSUME NEW k \in DOMAIN spaces, NEW l \in DOMAIN spaces[k].defs
               PROVE  InStage(IF k = ns /\ l = Len(spaces[k].defs) THEN next ELSE "whole",
                              spaces[k].defs[l], begun)
    BY DEF DefsAt
  <2>1. InStage(IF k = ns /\ l = Len(spaces[k].defs) THEN stage ELSE "whole", spaces[k].defs[l], begun)
    BY DEF DefsAt
  <2>2. CASE k = ns /\ l = Len(spaces[k].defs)
    <3>1. spaces \in Seq(SpacesRead)
      BY DEF SpacesOK
    <3>2. ns \in 1 .. Len(spaces) /\ Defs # <<>>
      BY <2>2, <3>1 DEF Defs
    <3> QED BY <2>2, <3>2 DEF D, Defs
  <2> QED BY <2>1, <2>2
<1> QED BY <1>1 DEF SpacesOK, AllDistinct

\* What is whole is whole enough for the first symbol of an enum.
LEMMA WholeHasSymbols ==
    ASSUME NEW d, NEW n, InStage("whole", d, n)
    PROVE  InStage("symbols", d, n)
BY DEF InStage, FieldsAt, SymbolsAt, WholeFields, WholeSymbols, Open

\* A definition that was begun stays so.
LEMMA BegunGrows ==
    ASSUME NEW sp, NEW at, NEW n \in Nat, DefsAt(sp, at, n, "whole")
    PROVE  DefsAt(sp, at, n + 1, "whole")
<1>1. ASSUME NEW d, InStage("whole", d, n) PROVE InStage("whole", d, n + 1)
  BY <1>1 DEF InStage, HeadAt
<1> HIDE DEF InStage
<1> QED BY <1>1 DEF DefsAt

-----------------------------------------------------------------------------
\* Steps that only move to another state.

\* The states by name.
LEMMA StatesByName ==
    /\ {ValueState(s) : s \in AnnoteStates} = ValueStates
    /\ States = ValueStates \union AtTop \union SymbolStates \union SlashStates \union BareStates
                  \union TailStates \union NameStates \union EndStates \union HeadStates
                  \union NamingStates
<1>1. {ValueState(s) : s \in AnnoteStates} = ValueStates
  <2>1. /\ ValueState("DEF_ANNOTE") = "DEF_ANNOTE_VALUE"
        /\ ValueState("TYPEDEF_ANNOTE") = "TYPEDEF_ANNOTE_VALUE"
        /\ ValueState("SYMBOL_ANNOTE") = "SYMBOL_ANNOTE_VALUE"
        /\ ValueState("TYPE_ANNOTE") = "TYPE_ANNOTE_VALUE"
        /\ ValueState("NAME_ANNOTE") = "NAME_ANNOTE_VALUE"
    BY DEF ValueState
  <2> QED BY <2>1 DEF AnnoteStates, ValueStates
<1>2. States = ValueStates \union AtTop \union SymbolStates \union SlashStates \union BareStates
                  \union TailStates \union NameStates \union EndStates \union HeadStates
                  \union NamingStates
  BY <1>1 DEF States, AnnoteStates, ValueStates, AtTop, SymbolStates, SlashStates, BareStates,
              TailStates, NameStates, EndStates, HeadStates, NamingStates
<1> QED BY <1>1, <1>2

\* A state s may follow: what the invariant says of s it says of this state.
Follows(s) ==
    /\ s \in States /\ state \notin ValueStates /\ s \notin ValueStates
    /\ s \in BareStates \union NameStates => type = "field"
    /\ s \in NamingStates => state \in NamingStates
    /\ s # "DEF_TYPE"
    /\ s \in {"SYMBOL_OR_REF", "TYPEDEF", "ENUM"} => state \in {"SYMBOL_OR_REF", "TYPEDEF", "ENUM"}
    /\ state \in {"START", "NS"} => s \in {"START", "NS"}
    /\ state \in AtTop \union NamingStates => s \in AtTop \union NamingStates
    /\ s \in EndStates => state \in EndStates
    /\ \/ Stage(s, type) = Stage(state, type)
       \/ Stage(state, type) = "whole" /\ Stage(s, type) = "symbols"

\* A step that goes to a state that may follow, and changes nothing else, keeps the
\* invariant.
LEMMA QuietStep ==
    ASSUME IInv, NEW s, Follows(s), ok, pending, UNCHANGED input,
           Keep(s) \/ (Goto(s) /\ (tok.kind # "eof" \/ s = "ANY")),
           UNCHANGED <<spaces, ns, ahead, notes, type, begun>>
    PROVE  IInv'
<1> USE DEF IInv, ahead, notes, input
<1>1. state' = s /\ ok' = ok /\ pending' \in BOOLEAN
      /\ (pending' \/ tok.kind # "eof" \/ s = "ANY")
  BY DEF Keep, Goto, ScalarsOK
<1>2. ScalarsOK'
  BY <1>1 DEF ScalarsOK, Follows, NamingStates, BareStates, NameStates
<1>3. InputOK'
  BY <1>1 DEF InputOK
<1>4. NotesOK'
  BY <1>1 DEF NotesOK, WholeBut, Follows
<1>5. PlaceOK'
  <2>1. Defs' = Defs /\ D' = D
    BY DEF Defs, D
  <2>2. Search(Defs, name)' = Search(Defs, name)
    BY DEF Search, Defs
  <2> QED BY <1>1, <2>1, <2>2 DEF PlaceOK, Follows, AtTop, NamingStates, EndStates
<1>6. DataOK'
  <2>1. SpacesOK(spaces) /\ DefsAt(spaces, ns, begun, Stage(state, type))
    BY DEF DataOK
  <2>2. (ns \in 1 .. Len(spaces) /\ Defs # <<>>) => InStage(Stage(s, type), D, begun)
    <3> HAVE ns \in 1 .. Len(spaces) /\ Defs # <<>>
    <3>1. InStage(Stage(state, type), D, begun)
      BY <2>1, LastDef
    <3> QED BY <3>1, WholeHasSymbols DEF Follows
  <2>3. Stage(state, type)' = Stage(s, type)
    BY <1>1
  <2>4. SpacesOK(spaces)' /\ DefsAt(spaces', ns', begun', Stage(s, type))
    BY <2>1, <2>2, Restage
  <2> QED BY <2>3, <2>4 DEF DataOK
<1> QED BY <1>2, <1>3, <1>4, <1>5, <1>6

\* A refusal keeps the invariant.
LEMMA RejectKeeps ==
    ASSUME IInv, ok, pending, Reject, UNCHANGED input
    PROVE  IInv'
<1> USE DEF IInv, ahead, notes, input, Reject
<1>1. ScalarsOK' /\ InputOK'
  BY DEF ScalarsOK, InputOK
<1>2. NotesOK'
  BY DEF NotesOK, WholeBut
<1>3. PlaceOK'
  <2>1. Defs' = Defs /\ D' = D
    BY DEF Defs, D
  <2>2. Search(Defs, name)' = Search(Defs, name)
    BY DEF Search, Defs
  <2> QED BY <2>1, <2>2 DEF PlaceOK
<1>4. DataOK'
  BY DEF DataOK, SpacesOK, AllDistinct
<1> QED BY <1>1, <1>2, <1>3, <1>4

\* Which states may follow which.
LEMMA QuietStates ==
    ASSUME type \in {"field", "typedef"}, state \in NameStates => type = "field"
    PROVE  /\ state = "START" => Follows("NS")
           /\ state = "ANY" => Follows("NS") /\ Follows("DEF_OR_ANNOTE") /\ Follows("ANY")
           /\ state = "DEF_OR_ANNOTE" => Follows("DEF_ANNOTE")
           /\ state = "ENUM_OR_TYPEDEF" => Follows("ENUM_SINGLETON") /\ Follows("TYPEDEF_ANNOTE")
           /\ state = "SYMBOL_OR_REF" => Follows("ENUM") /\ Follows("TYPEDEF")
           /\ state = "SYMBOL_ANNOTES" => Follows("SYMBOL_ANNOTE") /\ Follows("SYMBOL_NAME")
           /\ state = "SYMBOL_SLASH" => Follows("SYMBOL_VALUE")
           /\ state = "SYMBOL_NEXT" => Follows("SYMBOL_ANNOTES") /\ Follows("ANY")
           /\ state \in {"SUPER_OR_FIELD_OR_ANY", "FIELD_OR_ANY"} =>
                 Follows("GROUP_SUPER") /\ Follows("FIELD") /\ Follows("ANY")
           /\ state = "TYPE_DYNAMIC" => Follows("TYPE_LBRACKET")
           /\ state = "TYPE_LBRACKET" => Follows("TYPE_RBRACKET") /\ Follows(AfterType)
           /\ state \in {"TYPE_LPAREN", "TYPE_LPAREN_OPTIONAL"} => Follows("TYPE_SIZE")
           /\ state = "FIELD_NAME_ANNOTES" => Follows("NAME_ANNOTE") /\ Follows("FIELD_NAME")
           /\ state = "FIELD_OPTIONAL" => Follows("FIELD_NEXT")
           /\ state = "FIELD_NEXT" => Follows("FIELD") /\ Follows("ANY")
<1> USE StatesByName DEF Follows, Stage, AfterType, ValueStates, AtTop, SymbolStates, SlashStates,
        BareStates, TailStates, NameStates, EndStates, HeadStates, NamingStates
<1>1. state = "START" => Follows("NS")
  OBVIOUS
<1>2. state = "ANY" => Follows("NS") /\ Follows("DEF_OR_ANNOTE") /\ Follows("ANY")
  OBVIOUS
<1>3. state = "DEF_OR_ANNOTE" => Follows("DEF_ANNOTE")
  OBVIOUS
<1>4. state = "ENUM_OR_TYPEDEF" => Follows("ENUM_SINGLETON") /\ Follows("TYPEDEF_ANNOTE")
  OBVIOUS
<1>5. state = "SYMBOL_OR_REF" => Follows("ENUM") /\ Follows("TYPEDEF")
  OBVIOUS
<1>6. state = "SYMBOL_ANNOTES" => Follows("SYMBOL_ANNOTE") /\ Follows("SYMBOL_NAME")
  OBVIOUS
<1>7. state = "SYMBOL_SLASH" => Follows("SYMBOL_VALUE")
  OBVIOUS
<1>8. state = "SYMBOL_NEXT" => Follows("SYMBOL_ANNOTES") /\ Follows("ANY")
  OBVIOUS
<1>9. state \in {"SUPER_OR_FIELD_OR_ANY", "FIELD_OR_ANY"} =>
         Follows("GROUP_SUPER") /\ Follows("FIELD") /\ Follows("ANY")
  OBVIOUS
<1>10. state = "TYPE_DYNAMIC" => Follows("TYPE_LBRACKET")
  OBVIOUS
<1>11. state = "TYPE_LBRACKET" => Follows("TYPE_RBRACKET") /\ Follows(AfterType)
  OBVIOUS
<1>12. state \in {"TYPE_LPAREN", "TYPE_LPAREN_OPTIONAL"} => Follows("TYPE_SIZE")
  OBVIOUS
<1>13. state = "FIELD_NAME_ANNOTES" => Follows("NAME_ANNOTE") /\ Follows("FIELD_NAME")
  OBVIOUS
<1>14. state = "FIELD_OPTIONAL" => Follows("FIELD_NEXT")
  OBVIOUS
<1>15. state = "FIELD_NEXT" => Follows("FIELD") /\ Follows("ANY")
  OBVIOUS
<1> HIDE DEF Follows
<1> QED BY <1>1, <1>2, <1>3, <1>4, <1>5, <1>6, <1>7, <1>8, <1>9, <1>10, <1>11, <1>12, <1>13, <1>14, <1>15

\* The steps that look at the token and move on.
LEMMA QuietSteps ==
    ASSUME IInv,
           \/ TopLevel \/ SymbolOrRef \/ SymbolAnnotes \/ SymbolNext \/ AfterGroupHead
           \/ TypeLBracket \/ TypeLParen \/ FieldNameAnnotes \/ FieldNext
    PROVE  IInv'
<1>1. type \in {"field", "typedef"} /\ (state \in NameStates => type = "field")
  BY DEF IInv, ScalarsOK
<1>2. ASSUME NEW s, Follows(s), ok, pending, UNCHANGED input,
             UNCHANGED <<spaces, ns, ahead, notes, type, begun>>, Keep(s)
      PROVE  IInv'
  BY <1>2, QuietStep
<1>3. ASSUME NEW s, Follows(s), ok, pending, UNCHANGED input,
             UNCHANGED <<spaces, ns, ahead, notes, type, begun>>, Goto(s),
             tok.kind # "eof" \/ s = "ANY"
      PROVE  IInv'
  BY <1>3, QuietStep
<1>4. ASSUME ok, pending, UNCHANGED input, Reject PROVE IInv'
  BY <1>4, RejectKeeps
<1> USE <1>1, <1>2, <1>3, <1>4, QuietStates DEF In, Is
<1>a. CASE TopLevel
  BY <1>a DEF TopLevel
<1>b. CASE SymbolOrRef
  BY <1>b DEF SymbolOrRef
<1>c. CASE SymbolAnnotes
  BY <1>c DEF SymbolAnnotes
<1>d. CASE SymbolNext
  BY <1>d DEF SymbolNext
<1>e. CASE AfterGroupHead
  BY <1>e DEF AfterGroupHead
<1>f. CASE TypeLBracket
  BY <1>f DEF TypeLBracket
<1>g. CASE TypeLParen
  BY <1>g DEF TypeLParen
<1>h. CASE FieldNameAnnotes
  BY <1>h DEF FieldNameAnnotes
<1>i. CASE FieldNext
  BY <1>i DEF FieldNext
<1> QED BY <1>a, <1>b, <1>c, <1>d, <1>e, <1>f, <1>g, <1>h, <1>i

-----------------------------------------------------------------------------
\* Steps that write.

\* The parts of a token.
LEMMA TokenParts ==
    ASSUME NEW t \in Tokens
    PROVE  /\ t.name \in Texts /\ t.num \in Int
           /\ t.kind \in {"name", "cname", "literal"} => Named(t.name)
<1>1. t.name \in Texts
  BY DEF Texts
<1>2. CASE t = Eof
  BY <1>1, <1>2 DEF Eof
<1>3. CASE t # Eof
  <2>1. PICK a \in Alphabets : t \in a
    BY <1>3 DEF Tokens
  <2> QED BY <1>1, <2>1, ParserAssumption DEF Named, WordsHaveCharacters
<1> QED BY <1>2, <1>3

\* The definition that is being read, where there is one.
LEMMA TheDef ==
    ASSUME IInv, state \notin AtTop \union NamingStates
    PROVE  /\ SpacesOK(spaces) /\ ns \in 1 .. Len(spaces) /\ Defs # <<>> /\ begun \in Nat
           /\ D \in DefsRead /\ InStage(Stage(state, type), D, begun)
           /\ DefsAt(spaces, ns, begun, Stage(state, type))
<1>1. SpacesOK(spaces) /\ DefsAt(spaces, ns, begun, Stage(state, type)) /\ begun \in Nat
  BY DEF IInv, DataOK, ScalarsOK
<1>2. ns \in 1 .. Len(spaces) /\ Defs # <<>>
  BY DEF IInv, PlaceOK, AtTop
<1> QED BY <1>1, <1>2, LastDef

\* A state that a step which writes to the last definition goes to.
Writes(s, t) ==
    /\ state \notin AtTop \union NamingStates /\ state \notin ValueStates
    /\ s \in States \ (ValueStates \union NamingStates \union {"START", "NS", "DEF_TYPE"})
    /\ s \in BareStates \union NameStates => t = "field"

\* A step that replaces the last definition by one that is as far as the next state
\* wants it keeps the invariant.
LEMMA SetDefStep ==
    ASSUME IInv, ok, pending, UNCHANGED input, NEW s, NEW d \in DefsRead,
           Writes(s, type'), d.name = D.name, InStage(Stage(s, type'), d, begun),
           s \in EndStates => d.fields # <<>>,
           SetDef(d), UNCHANGED <<ns, ahead, laAnnotes, annote, begun>>,
           annotes' \in {annotes, <<>>}, type' \in {"field", "typedef"},
           Keep(s) \/ (Goto(s) /\ (tok.kind # "eof" \/ s = "ANY"))
    PROVE  IInv'
<1>1. state' = s /\ ok' = ok /\ pending' \in BOOLEAN
      /\ (pending' \/ tok.kind # "eof" \/ s = "ANY")
  BY DEF Keep, Goto, IInv, ScalarsOK
<1>2. /\ SpacesOK(spaces)' /\ DefsAt(spaces', ns', begun', Stage(s, type'))
      /\ Len(spaces') = Len(spaces) /\ Defs' # <<>> /\ D' = d
      /\ ns \in 1 .. Len(spaces)
  BY TheDef, SetDefKeeps DEF Writes
<1>3. ScalarsOK'
  BY <1>1 DEF IInv, ScalarsOK, Writes, NamingStates, ahead
<1>4. InputOK'
  BY <1>1 DEF IInv, InputOK, input
<1>5. NotesOK'
  <2>1. /\ annotes' \in Seq(NotesRead) /\ laAnnotes' \in Seq(NotesRead)
        /\ annote' \in [list : {"annotes", "laAnnotes"}, index : Nat]
    BY EmptyThings DEF IInv, NotesOK
  <2>2. \A k \in DOMAIN annotes : Named(annotes[k].value)
    BY DEF IInv, NotesOK, WholeBut, Writes
  <2>3. \A k \in DOMAIN laAnnotes : Named(laAnnotes[k].value)
    BY DEF IInv, NotesOK, WholeBut, Writes
  <2>4. \A k \in DOMAIN annotes' : Named(annotes'[k].value)
    BY <2>2
  <2> QED BY <1>1, <2>1, <2>3, <2>4 DEF NotesOK, WholeBut, Writes
<1>6. PlaceOK'
  BY <1>1, <1>2 DEF PlaceOK, Writes
<1>7. DataOK'
  BY <1>1, <1>2 DEF DataOK
<1> QED BY <1>3, <1>4, <1>5, <1>6, <1>7 DEF IInv

\* The states of these steps, and how far the definition is before and after.
LEMMA WriteStates ==
    ASSUME type \in {"field", "typedef"}, state \in BareStates \union NameStates => type = "field"
    PROVE  /\ state = "SYMBOL" => /\ Writes("SYMBOL_SLASH", type)
                                  /\ Stage(state, type) = "symbols" /\ Stage("SYMBOL_SLASH", type) = "symbol"
           /\ state \in SlashStates => /\ Writes("SYMBOL_NEXT", type)
                                       /\ Stage(state, type) = "symbol" /\ Stage("SYMBOL_NEXT", type) = "whole"
           /\ \A s \in HeadStates :
                 state \in HeadStates =>
                    Writes(s, type) /\ Stage(state, type) = "whole" /\ Stage(s, type) = "whole"
           /\ \A s \in {"FIELD_TYPE", "TYPE_ANNOTE"} :
                 state = "FIELD" =>
                    Writes(s, "field") /\ Stage(state, type) = "whole" /\ Stage(s, "field") = "bare"
           /\ \A s \in TailStates \union {"FIELD_NAME_ANNOTES"} :
                 state = "FIELD_TYPE" =>
                    Writes(s, "field") /\ Stage(state, type) = "bare" /\ Stage(s, "field") = "typed"
           /\ \A s \in TailStates \union {AfterType} :
                 state \in TailStates =>
                    /\ Writes(s, type) /\ Stage(s, type) = Stage(state, type)
                    /\ Stage(state, type) = IF type = "field" THEN "typed" ELSE "whole"
           /\ state = "FIELD_NAME" => /\ Writes("FIELD_OPTIONAL", type)
                                      /\ Stage(state, type) = "typed" /\ Stage("FIELD_OPTIONAL", type) = "whole"
           /\ state = "FIELD_OPTIONAL" => /\ Writes("FIELD_NEXT", type)
                                          /\ Stage(state, type) = "whole" /\ Stage("FIELD_NEXT", type) = "whole"
<1> USE StatesByName DEF Writes, Stage, AfterType, ValueStates, AtTop, SymbolStates, SlashStates,
        BareStates, TailStates, NameStates, EndStates, HeadStates, NamingStates
<1>1. state = "SYMBOL" => /\ Writes("SYMBOL_SLASH", type)
                          /\ Stage(state, type) = "symbols" /\ Stage("SYMBOL_SLASH", type) = "symbol"
  OBVIOUS
<1>2. state \in SlashStates => /\ Writes("SYMBOL_NEXT", type)
                               /\ Stage(state, type) = "symbol" /\ Stage("SYMBOL_NEXT", type) = "whole"
  OBVIOUS
<1>3. ASSUME NEW s \in HeadStates, state \in HeadStates
      PROVE  Writes(s, type) /\ Stage(state, type) = "whole" /\ Stage(s, type) = "whole"
  BY <1>3
<1>4. ASSUME NEW s \in {"FIELD_TYPE", "TYPE_ANNOTE"}, state = "FIELD"
      PROVE  Writes(s, "field") /\ Stage(state, type) = "whole" /\ Stage(s, "field") = "bare"
  BY <1>4
<1>5. ASSUME NEW s \in TailStates \union {"FIELD_NAME_ANNOTES"}, state = "FIELD_TYPE"
      PROVE  Writes(s, "field") /\ Stage(state, type) = "bare" /\ Stage(s, "field") = "typed"
  BY <1>5
<1>6. ASSUME NEW s \in TailStates \union {AfterType}, state \in TailStates
      PROVE  /\ Writes(s, type) /\ Stage(s, type) = Stage(state, type)
             /\ Stage(state, type) = IF type = "field" THEN "typed" ELSE "whole"
  BY <1>6
<1>7. state = "FIELD_NAME" => /\ Writes("FIELD_OPTIONAL", type)
                              /\ Stage(state, type) = "typed" /\ Stage("FIELD_OPTIONAL", type) = "whole"
  OBVIOUS
<1>8. state = "FIELD_OPTIONAL" => /\ Writes("FIELD_NEXT", type)
                                  /\ Stage(state, type) = "whole" /\ Stage("FIELD_NEXT", type) = "whole"
  OBVIOUS
<1> HIDE DEF Writes, Stage, AfterType, SlashStates, HeadStates, TailStates
<1> QED BY <1>1, <1>2, <1>3, <1>4, <1>5, <1>6, <1>7, <1>8

\* The types that the lemma above is for.
LEMMA TypeOfState ==
    ASSUME IInv
    PROVE  /\ type \in {"field", "typedef"}
           /\ state \in BareStates \union NameStates => type = "field"
BY DEF IInv, ScalarsOK

\* A symbol, its value and the next one.
LEMMA SymbolKeeps ==
    ASSUME IInv, Symbol
    PROVE  IInv'
<1> DEFINE s == [name |-> name, value |-> 0, a |-> annotes]
           d == [D EXCEPT !.symbols = Append(@, s)]
<1>1. ok /\ pending /\ state = "SYMBOL" /\ UNCHANGED input
  BY DEF Symbol, In
<1>2. CASE Search(D.symbols, name) # {}
  BY <1>1, <1>2, RejectKeeps DEF Symbol
<1>3. CASE Search(D.symbols, name) = {}
  <2>1. /\ Writes("SYMBOL_SLASH", type)
        /\ Stage(state, type) = "symbols" /\ Stage("SYMBOL_SLASH", type) = "symbol"
    BY <1>1, TypeOfState, WriteStates
  <2>2. /\ D \in DefsRead /\ InStage("symbols", D, begun) /\ begun \in Nat
    BY <2>1, TheDef DEF Writes
  <2>3. s \in SymbolsRead /\ s.value = 0 /\ s.name = name
    BY DEF IInv, ScalarsOK, NotesOK, SymbolsRead
  <2> HIDE DEF s
  <2>4. d \in DefsRead /\ d.name = D.name /\ InStage("symbol", d, begun)
    BY <1>3, <2>2, <2>3, NewSymbolStage
  <2>5. /\ SetDef(d) /\ Keep("SYMBOL_SLASH")
        /\ annotes' = <<>> /\ UNCHANGED <<ns, ahead, laAnnotes, annote, type, begun>>
    BY <1>3 DEF Symbol, s
  <2>6. "SYMBOL_SLASH" \notin EndStates
    BY DEF EndStates
  <2> HIDE DEF d
  <2>7. type' = type /\ type' \in {"field", "typedef"}
    BY <2>5, TypeOfState
  <2> QED BY <1>1, <2>1, <2>4, <2>5, <2>6, <2>7, SetDefStep
<1> QED BY <1>2, <1>3

\* Lists that stay as they are have their last definition replaced by itself.
LEMMA SameDef ==
    ASSUME IInv, state \notin AtTop \union NamingStates, spaces' = spaces
    PROVE  SetDef(D)
<1>1. spaces \in Seq(SpacesRead) /\ ns \in DOMAIN spaces /\ Defs # <<>>
  <2>1. SpacesOK(spaces) /\ ns \in 1 .. Len(spaces) /\ Defs # <<>>
    BY TheDef
  <2> QED BY <2>1 DEF SpacesOK
<1>2. Defs \in Seq(DefsRead) /\ spaces[ns] \in SpacesRead
  <2>1. spaces[ns] \in SpacesRead
    BY <1>1
  <2> QED BY <2>1 DEF SpacesRead, Defs
<1>3. [Defs EXCEPT ![Len(Defs)] = D] = Defs
  BY <1>2 DEF D
<1>4. [spaces[ns] EXCEPT !.defs = Defs] = spaces[ns]
  BY <1>2 DEF SpacesRead, Defs
<1>5. [spaces EXCEPT ![ns] = spaces[ns]] = spaces
  BY <1>1
<1> QED BY <1>3, <1>4, <1>5 DEF SetDef, Defs

\* SYMBOL_SLASH: a / is shifted, a value counted on, or there is none.
LEMMA SymbolSlashKeeps ==
    ASSUME IInv, SymbolSlash
    PROVE  IInv'
<1>1. /\ ok /\ pending /\ state = "SYMBOL_SLASH" /\ UNCHANGED input
      /\ UNCHANGED <<ns, ahead, notes, type, begun>>
  BY DEF SymbolSlash, In, Reject
<1>2. /\ Writes("SYMBOL_NEXT", type) /\ "SYMBOL_NEXT" \notin EndStates
      /\ Stage(state, type) = "symbol" /\ Stage("SYMBOL_NEXT", type) = "whole"
  BY <1>1, TypeOfState, WriteStates DEF SlashStates, EndStates
<1>3. D \in DefsRead /\ InStage("symbol", D, begun) /\ begun \in Nat
  BY <1>2, TheDef DEF Writes
<1>4. /\ D.symbols \in Seq(SymbolsRead) /\ D.symbols # <<>>
      /\ \A k \in 1 .. Len(D.symbols) : D.symbols[k].value \in (-ENUM_MAX - 1) .. ENUM_MAX
  BY <1>3 DEF DefsRead, InStage, SymbolsAt
<1>5. CASE Is({"/"})
  <2>1. Goto("SYMBOL_VALUE") /\ UNCHANGED spaces /\ tok.kind # "eof"
    BY <1>5 DEF SymbolSlash, Is
  <2>2. Follows("SYMBOL_VALUE")
    BY <1>1, TypeOfState, QuietStates
  <2> QED BY <1>1, <2>1, <2>2, QuietStep
<1>6. CASE ~Is({"/"}) /\ ~HasPrevious
  <2>1. Keep("SYMBOL_NEXT") /\ UNCHANGED spaces
    BY <1>6 DEF SymbolSlash
  <2>2. SetDef(D)
    BY <1>2, <2>1, SameDef DEF Writes
  <2>3. Len(D.symbols) = 1
    <3> DEFINE m == Len(D.symbols)
    <3>1. m \in Nat /\ m # 0
      BY <1>4, EmptySeq
    <3>2. ~(m > 1)
      BY <1>6 DEF HasPrevious
    <3> HIDE DEF m
    <3>3. m = 1
      BY <3>1, <3>2
    <3> QED BY <3>3 DEF m
  <2>4. InStage("whole", D, begun)
    BY <1>3, <1>4, <2>3 DEF InStage, FieldsAt, SymbolsAt, WholeFields, WholeSymbols, Open,
                            DistinctUpTo, AscendingUpTo
  <2>5. /\ type' = type /\ type' \in {"field", "typedef"} /\ annotes' \in {annotes, <<>>}
        /\ UNCHANGED <<ns, ahead, laAnnotes, annote, begun>>
    BY <1>1, TypeOfState DEF notes
  <2> QED BY <1>1, <1>2, <1>3, <2>1, <2>2, <2>4, <2>5, SetDefStep
<1>7. CASE ~Is({"/"}) /\ HasPrevious /\ Previous # ENUM_MAX
  <2> DEFINE m == Len(D.symbols)
             d == [D EXCEPT !.symbols[m] = [D.symbols[m] EXCEPT !.value = Previous + 1]]
  <2>1. Keep("SYMBOL_NEXT") /\ SetDef(d)
    BY <1>7 DEF SymbolSlash, SetSymbol, S
  <2>2. /\ Previous + 1 \in (-ENUM_MAX - 1) .. ENUM_MAX
        /\ Previous + 1 > D.symbols[m - 1].value
    <3>1. Previous \in (-ENUM_MAX - 1) .. ENUM_MAX /\ Previous = D.symbols[m - 1].value
      BY <1>4, <1>7 DEF HasPrevious, Previous
    <3> QED BY <1>7, <3>1, ParserAssumption
  <2>3. d \in DefsRead /\ d.name = D.name /\ InStage("whole", d, begun)
    BY <1>3, <2>2, SetSymbolStage
  <2>4. /\ type' = type /\ type' \in {"field", "typedef"} /\ annotes' \in {annotes, <<>>}
        /\ UNCHANGED <<ns, ahead, laAnnotes, annote, begun>>
    BY <1>1, TypeOfState DEF notes
  <2> HIDE DEF d
  <2> QED BY <1>1, <1>2, <2>1, <2>3, <2>4, SetDefStep
<1>8. CASE ~Is({"/"}) /\ HasPrevious /\ Previous = ENUM_MAX
  BY <1>1, <1>8, RejectKeeps DEF SymbolSlash
<1> QED BY <1>5, <1>6, <1>7, <1>8

\* SYMBOL_VALUE: a value above the previous one.
LEMMA SymbolValueKeeps ==
    ASSUME IInv, SymbolValue
    PROVE  IInv'
<1> DEFINE fits == /\ Is({"uint", "int"})
                   /\ tok.num \in (-ENUM_MAX - 1) .. ENUM_MAX
                   /\ HasPrevious => tok.num > Previous
<1>1. ok /\ pending /\ state = "SYMBOL_VALUE" /\ UNCHANGED input
  BY DEF SymbolValue, In
<1>2. CASE ~fits
  BY <1>1, <1>2, RejectKeeps DEF SymbolValue
<1>3. CASE fits
  <2> DEFINE m == Len(D.symbols)
             d == [D EXCEPT !.symbols[m] = [D.symbols[m] EXCEPT !.value = tok.num]]
  <2>1. /\ Goto("SYMBOL_NEXT") /\ SetDef(d) /\ tok.kind # "eof"
        /\ UNCHANGED <<ns, ahead, notes, type, begun>>
    BY <1>3 DEF SymbolValue, SetSymbol, S, Is
  <2>2. /\ Writes("SYMBOL_NEXT", type) /\ "SYMBOL_NEXT" \notin EndStates
        /\ Stage(state, type) = "symbol" /\ Stage("SYMBOL_NEXT", type) = "whole"
    BY <1>1, TypeOfState, WriteStates DEF SlashStates, EndStates
  <2>3. D \in DefsRead /\ InStage("symbol", D, begun) /\ begun \in Nat
    BY <2>2, TheDef DEF Writes
  <2>4. m > 1 => tok.num > D.symbols[m - 1].value
    BY <1>3 DEF HasPrevious, Previous
  <2>5. d \in DefsRead /\ d.name = D.name /\ InStage("whole", d, begun)
    BY <1>3, <2>3, <2>4, SetSymbolStage
  <2>6. /\ type' = type /\ type' \in {"field", "typedef"} /\ annotes' \in {annotes, <<>>}
        /\ UNCHANGED <<ns, ahead, laAnnotes, annote, begun>>
    BY <2>1, TypeOfState DEF notes
  <2> HIDE DEF d
  <2> QED BY <1>1, <2>1, <2>2, <2>5, <2>6, SetDefStep
<1> QED BY <1>2, <1>3

\* The id and the supergroup of a group.
LEMMA GroupHeadKeeps ==
    ASSUME IInv, GroupId \/ GroupSuper
    PROVE  IInv'
<1>1. /\ ok /\ pending /\ state \in {"GROUP_ID", "GROUP_SUPER"} /\ UNCHANGED input
      /\ tok.name \in Texts /\ tok.num \in Int
  BY TokenParts DEF GroupId, GroupSuper, In, IInv, InputOK
<1>2. \A s \in {"SUPER_OR_FIELD_OR_ANY", "FIELD_OR_ANY"} :
         /\ Writes(s, type) /\ s \notin EndStates
         /\ Stage(state, type) = "whole" /\ Stage(s, type) = "whole"
  BY <1>1, TypeOfState, WriteStates DEF HeadStates, EndStates
<1>3. D \in DefsRead /\ InStage("whole", D, begun) /\ begun \in Nat
  BY <1>2, TheDef DEF Writes
<1>4. ASSUME NEW s \in {"SUPER_OR_FIELD_OR_ANY", "FIELD_OR_ANY"},
             NEW d, d \in DefsRead, d.name = D.name, InStage("whole", d, begun),
             SetDef(d), Goto(s), tok.kind # "eof", UNCHANGED <<ns, ahead, notes, type, begun>>
      PROVE  IInv'
  <2>1. /\ type' = type /\ type' \in {"field", "typedef"} /\ annotes' \in {annotes, <<>>}
        /\ UNCHANGED <<ns, ahead, laAnnotes, annote, begun>>
    BY <1>4, TypeOfState DEF notes
  <2> QED BY <1>1, <1>2, <1>4, <2>1, SetDefStep
<1>5. CASE Reject
  BY <1>1, <1>5, RejectKeeps
<1>6. CASE GroupId /\ ~Reject
  <2> DEFINE d == [D EXCEPT !.hasId = TRUE, !.id = tok.num]
  <2>1. d \in DefsRead /\ d.name = D.name /\ InStage("whole", d, begun)
    BY <1>1, <1>3, HeadStage
  <2>2. /\ Goto("SUPER_OR_FIELD_OR_ANY") /\ SetDef(d) /\ tok.kind # "eof"
        /\ UNCHANGED <<ns, ahead, notes, type, begun>>
    BY <1>6 DEF GroupId, Is
  <2> HIDE DEF d
  <2> QED BY <1>4, <2>1, <2>2
<1>7. CASE GroupSuper /\ ~Reject
  <2> DEFINE d == [D EXCEPT !.super = tok.name]
  <2>1. d \in DefsRead /\ d.name = D.name /\ InStage("whole", d, begun)
    BY <1>1, <1>3, HeadStage
  <2>2. /\ Goto("FIELD_OR_ANY") /\ SetDef(d) /\ tok.kind # "eof"
        /\ UNCHANGED <<ns, ahead, notes, type, begun>>
    BY <1>7 DEF GroupSuper, Is
  <2> HIDE DEF d
  <2> QED BY <1>4, <2>1, <2>2
<1> QED BY <1>5, <1>6, <1>7

\* FIELD: an empty field is added.
LEMMA FieldKeeps ==
    ASSUME IInv, Field
    PROVE  IInv'
<1> DEFINE d == [D EXCEPT !.fields = Append(@, EmptyField)]
           s == IF Is({"@"}) THEN "TYPE_ANNOTE" ELSE "FIELD_TYPE"
<1>1. /\ ok /\ pending /\ state = "FIELD" /\ UNCHANGED input
      /\ SetDef(d) /\ type' = "field" /\ Keep(s)
      /\ UNCHANGED <<ns, ahead, notes, begun>>
  BY DEF Field, In
<1>2. /\ s \in {"FIELD_TYPE", "TYPE_ANNOTE"} /\ s \notin EndStates
  BY DEF EndStates
<1> HIDE DEF s
<1>3. Writes(s, "field") /\ Stage(state, type) = "whole" /\ Stage(s, "field") = "bare"
  BY <1>1, <1>2, TypeOfState, WriteStates
<1>4. D \in DefsRead /\ InStage("whole", D, begun) /\ begun \in Nat
  BY <1>3, TheDef DEF Writes
<1>5. d \in DefsRead /\ d.name = D.name /\ InStage("bare", d, begun)
  BY <1>4, NewFieldStage
<1>6. annotes' \in {annotes, <<>>} /\ UNCHANGED <<ns, ahead, laAnnotes, annote, begun>>
  BY <1>1 DEF notes
<1> HIDE DEF d
<1> QED BY <1>1, <1>2, <1>3, <1>5, <1>6, SetDefStep

\* The last field of a definition whose last field is open.
LEMMA LastField ==
    ASSUME NEW d \in DefsRead, NEW n, NEW stage, Open(stage), InStage(stage, d, n)
    PROVE  /\ d.fields # <<>> /\ d.fields[Len(d.fields)] \in FieldsRead
           /\ stage = "typed" => WholeType(d.fields[Len(d.fields)].type)
<1>1. d.fields # <<>> /\ d.fields \in Seq(FieldsRead)
  BY DEF InStage, FieldsAt, DefsRead
<1>2. d.fields[Len(d.fields)] \in FieldsRead
  BY <1>1
<1> QED BY <1>1, <1>2 DEF InStage, FieldsAt

\* A field with another type.
LEMMA WithType ==
    ASSUME NEW f \in FieldsRead, NEW t \in TypesRead
    PROVE  [f EXCEPT !.type = t] \in FieldsRead /\ [f EXCEPT !.type = t].type = t
BY DEF FieldsRead

\* FIELD_TYPE: the last field gets a whole type.
LEMMA FieldTypeKeeps ==
    ASSUME IInv, FieldType
    PROVE  IInv'
<1> DEFINE t == [TheType EXCEPT !.a = annotes]
<1>1. /\ ok /\ pending /\ state = "FIELD_TYPE" /\ UNCHANGED input
      /\ tok.name \in Texts /\ (tok.kind \in {"name", "cname"} => Named(tok.name))
  BY TokenParts DEF FieldType, In, IInv, InputOK
<1>2. type = "field"
  BY <1>1, TypeOfState DEF BareStates
<1>3. \A s \in TailStates \union {"FIELD_NAME_ANNOTES"} :
         /\ Writes(s, "field") /\ s \notin EndStates
         /\ Stage(state, type) = "bare" /\ Stage(s, "field") = "typed"
  BY <1>1, TypeOfState, WriteStates DEF TailStates, EndStates
<1>4. D \in DefsRead /\ InStage("bare", D, begun) /\ begun \in Nat
  BY <1>3, TheDef DEF Writes
<1>5. D.fields # <<>> /\ F \in FieldsRead
  BY <1>4, LastField DEF Open, F
<1>6. TheType \in TypesRead /\ annotes \in Seq(NotesRead)
  BY <1>2, <1>5 DEF TheType, FieldsRead, IInv, NotesOK
<1>7. ASSUME NEW u, u \in TypesRead, WholeType(u), SetType(u),
             NEW s \in TailStates \union {"FIELD_NAME_ANNOTES"},
             Goto(s), tok.kind # "eof", annotes' = <<>>, UNCHANGED <<ns, ahead, laAnnotes, annote, type, begun>>
      PROVE  IInv'
  <2> DEFINE f == [F EXCEPT !.type = u]
             d == [D EXCEPT !.fields[Len(D.fields)] = f]
  <2>1. f \in FieldsRead /\ f.type = u
    BY <1>5, <1>7, WithType
  <2>2. SetDef(d)
    BY <1>2, <1>7 DEF SetType, SetField
  <2> HIDE DEF f
  <2>3. d \in DefsRead /\ d.name = D.name /\ InStage("typed", d, begun)
    BY <1>4, <1>5, <1>7, <2>1, SetFieldStage
  <2> HIDE DEF d
  <2>4. type' = "field" /\ annotes' \in {annotes, <<>>}
    BY <1>2, <1>7
  <2> QED BY <1>1, <1>3, <1>7, <2>2, <2>3, <2>4, SetDefStep
<1>8. CASE Reject
  BY <1>1, <1>8, RejectKeeps
<1>9. CASE ~Reject /\ Is(BuiltIn)
  <2> DEFINE u == [t EXCEPT !.tag = IType(tok.kind)]
             s == CASE Is({"string"}) -> "TYPE_LPAREN_OPTIONAL"
                    [] Is({"fixed"}) -> "TYPE_LPAREN"
                    [] OTHER -> "FIELD_NAME_ANNOTES"
  <2>1. IType(tok.kind) \in BuiltIn /\ tok.kind # "eof"
    BY <1>9 DEF IType, BuiltIn, Is
  <2>2. u \in TypesRead /\ u.tag = IType(tok.kind)
    <3> HIDE DEF BuiltIn
    <3>1. [TheType EXCEPT !.a = annotes, !.tag = IType(tok.kind)] \in TypesRead
          /\ [TheType EXCEPT !.a = annotes, !.tag = IType(tok.kind)].tag = IType(tok.kind)
      BY <1>6, <2>1 DEF TypesRead
    <3> QED BY <3>1
  <2>3. WholeType(u)
    BY <2>1, <2>2 DEF WholeType, BuiltIn
  <2>4. s \in TailStates \union {"FIELD_NAME_ANNOTES"}
    BY DEF TailStates
  <2>5. SetType(u) /\ Goto(s) /\ annotes' = <<>> /\ UNCHANGED <<ns, ahead, laAnnotes, annote, type, begun>>
    BY <1>9 DEF FieldType, Is, BuiltIn
  <2> HIDE DEF u, s
  <2> QED BY <1>7, <2>1, <2>2, <2>3, <2>4, <2>5
<1>10. CASE ~Reject /\ ~Is(BuiltIn)
  <2> DEFINE u == [t EXCEPT !.tag = "ref", !.name = tok.name]
  <2>1. Is({"name", "cname"}) /\ tok.kind # "eof"
    BY <1>10 DEF FieldType, Is
  <2>2. u \in TypesRead /\ u.tag = "ref" /\ u.name = tok.name
    BY <1>1, <1>6 DEF TypesRead
  <2>3. WholeType(u)
    BY <1>1, <2>1, <2>2 DEF WholeType, Is
  <2>4. "TYPE_DYNAMIC" \in TailStates \union {"FIELD_NAME_ANNOTES"}
    BY DEF TailStates
  <2>5. /\ SetType(u) /\ Goto("TYPE_DYNAMIC")
        /\ annotes' = <<>> /\ UNCHANGED <<ns, ahead, laAnnotes, annote, type, begun>>
    BY <1>10 DEF FieldType
  <2> HIDE DEF u
  <2> QED BY <1>7, <2>1, <2>2, <2>3, <2>4, <2>5
<1> QED BY <1>8, <1>9, <1>10

\* A step of the type's tail that changes neither its tag nor its name.
LEMMA TailStep ==
    ASSUME IInv, ok, pending, UNCHANGED input, state \in TailStates,
           NEW s \in TailStates \union {AfterType}, NEW t,
           TheType \in TypesRead => t \in TypesRead /\ t.tag = TheType.tag /\ t.name = TheType.name,
           SetType(t), UNCHANGED <<ns, ahead, notes, type, begun>>,
           Keep(s) \/ (Goto(s) /\ tok.kind # "eof")
    PROVE  IInv'
<1>1. /\ Writes(s, type) /\ Stage(s, type) = Stage(state, type)
      /\ Stage(state, type) = IF type = "field" THEN "typed" ELSE "whole"
  BY TypeOfState, WriteStates
<1>2. s \notin EndStates
  BY DEF EndStates, TailStates, AfterType
<1>3. D \in DefsRead /\ InStage(Stage(state, type), D, begun) /\ begun \in Nat
  BY <1>1, TheDef DEF Writes
<1>4. /\ type' = type /\ type' \in {"field", "typedef"} /\ annotes' \in {annotes, <<>>}
      /\ UNCHANGED <<ns, ahead, laAnnotes, annote, begun>>
  BY TypeOfState DEF notes
<1>5. CASE type = "field"
  <2> DEFINE f == [F EXCEPT !.type = t]
             d == [D EXCEPT !.fields[Len(D.fields)] = f]
  <2>1. /\ D.fields # <<>> /\ F \in FieldsRead /\ WholeType(F.type)
    BY <1>1, <1>3, <1>5, LastField DEF Open, F
  <2>2. /\ t \in TypesRead /\ WholeType(t)
    <3>1. TheType \in TypesRead /\ WholeType(TheType)
      BY <1>5, <2>1 DEF TheType, FieldsRead
    <3> QED BY <3>1 DEF WholeType
  <2>3. f \in FieldsRead /\ f.type = t
    BY <2>1, <2>2, WithType
  <2>4. SetDef(d)
    BY <1>5 DEF SetType, SetField
  <2> HIDE DEF f
  <2>5. d \in DefsRead /\ d.name = D.name /\ InStage("typed", d, begun)
    BY <1>1, <1>3, <1>5, <2>1, <2>2, <2>3, SetFieldStage
  <2> HIDE DEF d
  <2> QED BY <1>1, <1>2, <1>4, <1>5, <2>4, <2>5, SetDefStep
<1>6. CASE type # "field"
  <2> DEFINE d == [D EXCEPT !.type = t]
  <2>1. t \in TypesRead /\ (D.kind = "typedef" => WholeType(t))
    <3>1. TheType = D.type /\ TheType \in TypesRead
      BY <1>3, <1>6 DEF TheType, DefsRead
    <3>2. D.kind = "typedef" => WholeType(D.type)
      BY <1>3 DEF InStage, HeadAt
    <3> QED BY <3>1, <3>2 DEF WholeType
  <2>2. d \in DefsRead /\ d.name = D.name /\ InStage("whole", d, begun)
    BY <1>1, <1>3, <1>6, <2>1, HeadStage
  <2>3. SetDef(d)
    BY <1>6 DEF SetType
  <2> HIDE DEF d
  <2> QED BY <1>1, <1>2, <1>4, <1>6, <2>2, <2>3, SetDefStep
<1> QED BY <1>5, <1>6

\* What the tail of a type changes of the type.
LEMMA TailParts ==
    ASSUME NEW t \in TypesRead, NEW n \in Int
    PROVE  /\ LET u == [t EXCEPT !.dyn = TRUE] IN u \in TypesRead /\ u.tag = t.tag /\ u.name = t.name
           /\ LET u == [t EXCEPT !.seq = TRUE] IN u \in TypesRead /\ u.tag = t.tag /\ u.name = t.name
           /\ LET u == [t EXCEPT !.size = n] IN u \in TypesRead /\ u.tag = t.tag /\ u.name = t.name
BY DEF TypesRead

\* The marks and the size of a type.
LEMMA TailKeeps ==
    ASSUME IInv, TypeDynamic \/ TypeRBracket \/ TypeLParenOptional \/ TypeSize
    PROVE  IInv'
<1>1. ok /\ pending /\ UNCHANGED input /\ tok.num \in Int /\ UnlimitedSize \in Int
  BY TokenParts, ParserAssumption
     DEF TypeDynamic, TypeRBracket, TypeLParenOptional, TypeSize, In, IInv, InputOK, UnlimitedSize
<1>2. "TYPE_DYNAMIC" \in TailStates \union {AfterType} /\ AfterType \in TailStates \union {AfterType}
  BY DEF TailStates
<1>3. ASSUME Reject PROVE IInv'
  BY <1>1, <1>3, RejectKeeps
<1>4. CASE TypeDynamic
  <2>1. state = "TYPE_DYNAMIC" /\ state \in TailStates /\ UNCHANGED <<ns, ahead, notes, type, begun>>
    BY <1>4 DEF TypeDynamic, In, TailStates
  <2>2. CASE Is({"*"})
    <3> DEFINE t == [TheType EXCEPT !.dyn = TRUE]
    <3>1. SetType(t) /\ Goto("TYPE_DYNAMIC") /\ tok.kind # "eof"
      BY <1>4, <2>2 DEF TypeDynamic, Is
    <3>2. TheType \in TypesRead => t \in TypesRead /\ t.tag = TheType.tag /\ t.name = TheType.name
      BY <1>1, TailParts
    <3> HIDE DEF t
    <3> QED BY <1>1, <1>2, <2>1, <3>1, <3>2, TailStep
  <2>3. CASE ~Is({"*"})
    <3>1. Keep("TYPE_LBRACKET") /\ UNCHANGED spaces
      BY <1>4, <2>3 DEF TypeDynamic
    <3>2. Follows("TYPE_LBRACKET")
      BY <2>1, TypeOfState, QuietStates
    <3> QED BY <1>1, <2>1, <3>1, <3>2, QuietStep
  <2> QED BY <2>2, <2>3
<1>5. CASE TypeRBracket /\ ~Reject
  <2> DEFINE t == [TheType EXCEPT !.seq = TRUE]
  <2>1. /\ state \in TailStates /\ SetType(t) /\ Goto(AfterType) /\ tok.kind # "eof"
        /\ UNCHANGED <<ns, ahead, notes, type, begun>>
    BY <1>5 DEF TypeRBracket, In, Is, TailStates
  <2>2. TheType \in TypesRead => t \in TypesRead /\ t.tag = TheType.tag /\ t.name = TheType.name
    BY <1>1, TailParts
  <2> HIDE DEF t
  <2> QED BY <1>1, <1>2, <2>1, <2>2, TailStep
<1>6. CASE TypeLParenOptional
  <2>1. state = "TYPE_LPAREN_OPTIONAL" /\ state \in TailStates /\ UNCHANGED <<ns, ahead, notes, type, begun>>
    BY <1>6 DEF TypeLParenOptional, In, TailStates
  <2>2. CASE Is({"("})
    <3>1. Goto("TYPE_SIZE") /\ UNCHANGED spaces /\ tok.kind # "eof"
      BY <1>6, <2>2 DEF TypeLParenOptional, Is
    <3>2. Follows("TYPE_SIZE")
      BY <2>1, TypeOfState, QuietStates
    <3> QED BY <1>1, <2>1, <3>1, <3>2, QuietStep
  <2>3. CASE ~Is({"("})
    <3> DEFINE t == [TheType EXCEPT !.size = UnlimitedSize]
    <3>1. SetType(t) /\ Keep(AfterType)
      BY <1>6, <2>3 DEF TypeLParenOptional
    <3>2. TheType \in TypesRead => t \in TypesRead /\ t.tag = TheType.tag /\ t.name = TheType.name
      BY <1>1, TailParts
    <3> HIDE DEF t
    <3> QED BY <1>1, <1>2, <2>1, <3>1, <3>2, TailStep
  <2> QED BY <2>2, <2>3
<1>7. CASE TypeSize /\ ~Reject
  <2> DEFINE t == [TheType EXCEPT !.size = tok.num]
  <2>1. /\ state \in TailStates /\ SetType(t) /\ Goto(AfterType) /\ tok.kind # "eof"
        /\ UNCHANGED <<ns, ahead, notes, type, begun>>
    BY <1>7 DEF TypeSize, In, Is, TailStates
  <2>2. TheType \in TypesRead => t \in TypesRead /\ t.tag = TheType.tag /\ t.name = TheType.name
    BY <1>1, TailParts
  <2> HIDE DEF t
  <2> QED BY <1>1, <1>2, <2>1, <2>2, TailStep
<1> QED BY <1>3, <1>4, <1>5, <1>6, <1>7

\* FIELD_NAME: the field is whole once it has a name no other field has.
LEMMA FieldNameKeeps ==
    ASSUME IInv, FieldName
    PROVE  IInv'
<1> DEFINE f == [F EXCEPT !.a = annotes, !.name = tok.name]
           d == [D EXCEPT !.fields[Len(D.fields)] = f]
<1>1. /\ ok /\ pending /\ state = "FIELD_NAME" /\ UNCHANGED input
      /\ tok.name \in Texts /\ (tok.kind = "name" => Named(tok.name))
  BY TokenParts DEF FieldName, In, IInv, InputOK
<1>2. CASE Reject
  BY <1>1, <1>2, RejectKeeps
<1>3. CASE ~Reject
  <2>1. /\ Is({"name"}) /\ Search(D.fields, tok.name) = {}
        /\ SetDef(d) /\ annotes' = <<>> /\ Goto("FIELD_OPTIONAL")
        /\ UNCHANGED <<ns, ahead, laAnnotes, annote, type, begun>>
    BY <1>3 DEF FieldName, SetField
  <2>2. /\ Writes("FIELD_OPTIONAL", type)
        /\ Stage(state, type) = "typed" /\ Stage("FIELD_OPTIONAL", type) = "whole"
    BY <1>1, TypeOfState, WriteStates
  <2>3. D \in DefsRead /\ InStage("typed", D, begun) /\ begun \in Nat
    BY <2>2, TheDef DEF Writes
  <2>4. /\ D.fields # <<>> /\ F \in FieldsRead /\ WholeType(F.type)
    BY <2>3, LastField DEF Open, F
  <2>5. annotes \in Seq(NotesRead) /\ WholeNotes(annotes)
    BY <1>1 DEF IInv, NotesOK, WholeBut, WholeNotes, ValueStates
  <2>6. /\ f \in FieldsRead /\ f.name = tok.name /\ f.type = F.type /\ f.a = annotes
    BY <1>1, <2>4, <2>5 DEF FieldsRead
  <2> HIDE DEF f
  <2>7. WholeField(f)
    BY <1>1, <2>1, <2>4, <2>5, <2>6 DEF WholeField, Is
  <2>8. \A k \in 1 .. (Len(D.fields) - 1) : D.fields[k].name # f.name
    <3>1. D.fields \in Seq(FieldsRead)
      BY <2>3 DEF DefsRead
    <3>2. \A k \in DOMAIN D.fields : D.fields[k].name # tok.name
      BY <2>1, NotFound
    <3> QED BY <2>6, <3>1, <3>2
  <2>9. d \in DefsRead /\ d.name = D.name /\ InStage("whole", d, begun)
    BY <2>3, <2>4, <2>6, <2>7, <2>8, SetFieldStage
  <2>10. d.fields # <<>>
    BY <2>3, <2>4, <2>6, WithField, Replaced DEF DefsRead
  <2> HIDE DEF d
  <2>11. tok.kind # "eof" /\ type' = type /\ type' \in {"field", "typedef"}
    BY <2>1, TypeOfState DEF Is
  <2> QED BY <1>1, <2>1, <2>2, <2>9, <2>10, <2>11, SetDefStep
<1> QED BY <1>2, <1>3

\* FIELD_OPTIONAL: a whole field may become optional.
LEMMA FieldOptionalKeeps ==
    ASSUME IInv, FieldOptional
    PROVE  IInv'
<1> DEFINE f == [F EXCEPT !.opt = TRUE]
           d == [D EXCEPT !.fields[Len(D.fields)] = f]
<1>1. /\ ok /\ pending /\ state = "FIELD_OPTIONAL" /\ UNCHANGED input
      /\ UNCHANGED <<ns, ahead, notes, type, begun>>
  BY DEF FieldOptional, In
<1>2. CASE ~Is({"?"})
  <2>1. Keep("FIELD_NEXT") /\ UNCHANGED spaces
    BY <1>2 DEF FieldOptional
  <2>2. Follows("FIELD_NEXT")
    BY <1>1, TypeOfState, QuietStates
  <2> QED BY <1>1, <2>1, <2>2, QuietStep
<1>3. CASE Is({"?"})
  <2>1. SetDef(d) /\ Goto("FIELD_NEXT") /\ tok.kind # "eof"
    BY <1>3 DEF FieldOptional, SetField, Is
  <2>2. /\ Writes("FIELD_NEXT", type)
        /\ Stage(state, type) = "whole" /\ Stage("FIELD_NEXT", type) = "whole"
    BY <1>1, TypeOfState, WriteStates
  <2>3. D \in DefsRead /\ InStage("whole", D, begun) /\ begun \in Nat
    BY <2>2, TheDef DEF Writes
  <2>4. D.fields # <<>> /\ D.fields \in Seq(FieldsRead)
    BY <1>1, <2>3 DEF IInv, PlaceOK, EndStates, DefsRead
  <2>5. Len(D.fields) \in 1 .. Len(D.fields) /\ F \in FieldsRead
    <3>1. Len(D.fields) \in 1 .. Len(D.fields)
      BY <2>4, EmptySeq
    <3> QED BY <2>4, <3>1, ElementOfSeq DEF F
  <2>6. WholeField(F) /\ \A k \in 1 .. (Len(D.fields) - 1) : D.fields[k].name # F.name
    <3>1. \A k \in 1 .. Len(D.fields) : WholeField(D.fields[k])
      BY <2>3 DEF InStage, FieldsAt, WholeFields, Open
    <3>2. \A k, l \in 1 .. Len(D.fields) : D.fields[k].name = D.fields[l].name => k = l
      BY <2>3 DEF InStage, FieldsAt, WholeFields, Open, DistinctUpTo
    <3> QED BY <2>4, <2>5, <3>1, <3>2 DEF F
  <2>7. f \in FieldsRead /\ f.name = F.name /\ f.type = F.type /\ f.a = F.a
    BY <2>5 DEF FieldsRead
  <2> HIDE DEF f
  <2>8. WholeField(f) /\ \A k \in 1 .. (Len(D.fields) - 1) : D.fields[k].name # f.name
    BY <2>6, <2>7 DEF WholeField
  <2>9. d \in DefsRead /\ d.name = D.name /\ InStage("whole", d, begun)
    BY <2>3, <2>4, <2>7, <2>8, SetFieldStage
  <2>10. d.fields # <<>>
    BY <2>3, <2>4, <2>7, WithField, Replaced
  <2> HIDE DEF d
  <2>11. /\ type' = type /\ type' \in {"field", "typedef"} /\ annotes' \in {annotes, <<>>}
         /\ UNCHANGED <<ns, ahead, laAnnotes, annote, begun>>
    BY <1>1, TypeOfState DEF notes
  <2> QED BY <1>1, <2>1, <2>2, <2>9, <2>10, <2>11, SetDefStep
<1> QED BY <1>2, <1>3

-----------------------------------------------------------------------------
\* Steps that begin a definition.

\* Notes that are taken over or dropped, once none is left without a value.
LEMMA NotesStay ==
    ASSUME NotesOK, state \notin ValueStates, state' \notin ValueStates, annote' = annote,
           annotes' \in {annotes, laAnnotes, <<>>}, laAnnotes' \in {laAnnotes, <<>>}
    PROVE  NotesOK'
<1>1. \A k \in DOMAIN annotes : Named(annotes[k].value)
  BY DEF NotesOK, WholeBut
<1>2. \A k \in DOMAIN laAnnotes : Named(laAnnotes[k].value)
  BY DEF NotesOK, WholeBut
<1>3. \A k \in DOMAIN annotes' : Named(annotes'[k].value)
  BY <1>1, <1>2
<1>4. \A k \in DOMAIN laAnnotes' : Named(laAnnotes'[k].value)
  BY <1>2
<1>5. annotes' \in Seq(NotesRead) /\ laAnnotes' \in Seq(NotesRead)
  BY EmptyThings DEF NotesOK
<1> QED BY <1>3, <1>4, <1>5 DEF NotesOK, WholeBut

\* A definition that begins has no fields and no symbols.
LEMMA NewDef ==
    ASSUME IInv, state \notin ValueStates, begun >= 1, NEW kind \in {"group", "typedef", "enum"}
    PROVE  LET d == Definition(kind, name) IN
           /\ d \in DefsRead /\ d.name = name /\ d.kind = kind
           /\ kind = "group" => InStage("whole", d, begun)
           /\ kind = "enum" => InStage("symbols", d, begun)
           /\ \A t \in TypesRead : (kind = "typedef" /\ WholeType(t)) =>
                 LET e == [d EXCEPT !.type = t] IN
                 e \in DefsRead /\ e.name = name /\ InStage("whole", e, begun)
<1> DEFINE d == Definition(kind, name)
           none == [tag |-> "none", name |-> NoName, dyn |-> FALSE, seq |-> FALSE, size |-> 0, a |-> <<>>]
<1>1. name \in Texts /\ begun \in Nat /\ annotes \in Seq(NotesRead) /\ WholeNotes(annotes)
  BY DEF IInv, ScalarsOK, NotesOK, WholeBut, WholeNotes
<1>2. none \in TypesRead
  BY EmptyThings DEF EmptyField, FieldsRead
<1> HIDE DEF none
<1>3. d = [kind |-> kind, name |-> name, nth |-> begun, a |-> annotes, id |-> 0, hasId |-> FALSE,
           super |-> NoName, fields |-> <<>>, symbols |-> <<>>, type |-> none]
  BY DEF Definition, none
<1>4. d \in DefsRead
  <2>1. 0 \in Int /\ FALSE \in BOOLEAN
    OBVIOUS
  <2>2. begun \in Nat /\ annotes \in Seq(NotesRead) /\ name \in Texts
    BY <1>1
  <2>3. NoName \in Texts /\ <<>> \in Seq(FieldsRead) /\ <<>> \in Seq(SymbolsRead)
    BY EmptyThings
  <2> HIDE DEF Texts
  <2> QED BY <1>2, <1>3, <2>1, <2>2, <2>3 DEF DefsRead
<1>5. /\ d.name = name /\ d.kind = kind /\ d.nth = begun /\ d.a = annotes
      /\ d.fields = <<>> /\ d.symbols = <<>>
  BY <1>3
<1> HIDE DEF d
<1>6. ASSUME NEW e, e.nth = begun, e.a = annotes, e.fields = <<>>, e.symbols = <<>>, e.kind = kind,
             NEW stage \in {"whole", "symbols"}, kind = "enum" => stage = "symbols",
             kind = "typedef" => WholeType(e.type)
      PROVE  InStage(stage, e, begun)
  <2>1. HeadAt(e, begun)
    BY <1>1, <1>6 DEF HeadAt
  <2>2. FieldsAt(stage, e)
    BY <1>6 DEF FieldsAt, WholeFields, DistinctUpTo, Open
  <2>3. SymbolsAt(stage, e)
    BY <1>6 DEF SymbolsAt, WholeSymbols, DistinctUpTo, AscendingUpTo
  <2> QED BY <2>1, <2>2, <2>3 DEF InStage
<1>7. kind = "group" => InStage("whole", d, begun)
  BY <1>5, <1>6
<1>8. kind = "enum" => InStage("symbols", d, begun)
  BY <1>5, <1>6
<1>9. ASSUME NEW t \in TypesRead, kind = "typedef", WholeType(t)
      PROVE  LET e == [d EXCEPT !.type = t] IN
             e \in DefsRead /\ e.name = name /\ InStage("whole", e, begun)
  <2> DEFINE e == [d EXCEPT !.type = t]
  <2>1. /\ e \in DefsRead /\ e.name = name /\ e.nth = begun /\ e.a = annotes /\ e.fields = <<>>
        /\ e.symbols = <<>> /\ e.kind = kind /\ e.type = t
    BY <1>4, <1>5 DEF DefsRead
  <2> HIDE DEF e
  <2>2. InStage("whole", e, begun)
    BY <1>6, <1>9, <2>1
  <2> QED BY <2>1, <2>2 DEF e
<1> QED BY <1>4, <1>5, <1>7, <1>8, <1>9 DEF d

\* A state that a step which begins a definition goes to.
BeginsAt(s) ==
    s \in States \ (ValueStates \union NamingStates \union BareStates \union NameStates
                        \union EndStates \union {"START", "NS", "DEF_TYPE"})

\* A step that adds a definition of a new name keeps the invariant.
LEMMA AddDefStep ==
    ASSUME IInv, ok, pending, UNCHANGED input, NEW s, BeginsAt(s), NEW d \in DefsRead,
           state \in {"DEF_TYPE", "TYPEDEF", "ENUM", "ENUM_SINGLETON"},
           d.name = name, Search(Defs, name) = {}, InStage(Stage(s, type'), d, begun),
           AddDef(d), UNCHANGED <<ns, laName, laType, annote, begun>>,
           name' \in {name, laName}, type' \in {"field", "typedef"},
           annotes' \in {annotes, laAnnotes, <<>>}, laAnnotes' \in {laAnnotes, <<>>},
           Keep(s) \/ (Goto(s) /\ tok.kind # "eof")
    PROVE  IInv'
<1>1. state' = s /\ ok' = ok /\ pending' \in BOOLEAN /\ (pending' \/ tok.kind # "eof")
  BY DEF Keep, Goto, IInv, ScalarsOK
<1>2. /\ state \notin ValueStates /\ Stage(state, type) = "whole" /\ state \notin {"START", "NS"}
      /\ s \notin {"SYMBOL_OR_REF", "TYPEDEF", "ENUM"}
  BY DEF ValueStates, Stage, SymbolStates, SlashStates, BareStates, NameStates, TailStates, BeginsAt,
         NamingStates
<1>3. /\ SpacesOK(spaces)' /\ DefsAt(spaces', ns', begun', Stage(s, type'))
      /\ Len(spaces') = Len(spaces) /\ Defs' # <<>>
      /\ ns \in 1 .. Len(spaces)
  <2>1. SpacesOK(spaces) /\ DefsAt(spaces, ns, begun, "whole") /\ begun \in Nat
    BY <1>2 DEF IInv, DataOK, ScalarsOK
  <2>2. ns \in 1 .. Len(spaces)
    BY <1>2 DEF IInv, PlaceOK
  <2> QED BY <2>1, <2>2, AddDefKeeps
<1>4. ScalarsOK'
  BY <1>1, <1>2 DEF IInv, ScalarsOK, BeginsAt
<1>5. InputOK'
  BY <1>1 DEF IInv, InputOK, input
<1>6. NotesOK'
  BY <1>1, <1>2, NotesStay DEF IInv, BeginsAt
<1>7. PlaceOK'
  BY <1>1, <1>3 DEF PlaceOK, BeginsAt
<1>8. DataOK'
  BY <1>1, <1>3 DEF DataOK
<1> QED BY <1>4, <1>5, <1>6, <1>7, <1>8 DEF IInv

\* Where a definition can begin, and how far it is then.
LEMMA BeginStates ==
    ASSUME NEW t \in {"field", "typedef"}
    PROVE  /\ \A s \in {"GROUP_ID", "GROUP_SUPER", "FIELD", "ANY"} : BeginsAt(s) /\ Stage(s, t) = "whole"
           /\ \A s \in {"TYPE_DYNAMIC", "TYPE_LBRACKET"} : BeginsAt(s) /\ Stage(s, "typedef") = "whole"
           /\ \A s \in {"SYMBOL_ANNOTES", "SYMBOL"} : BeginsAt(s) /\ Stage(s, t) = "symbols"
BY StatesByName DEF BeginsAt, Stage, ValueStates, AtTop, SymbolStates, SlashStates, BareStates,
   TailStates, NameStates, EndStates, HeadStates, NamingStates

\* DEF_TYPE: a group, or a = after the name.
LEMMA DefTypeKeeps ==
    ASSUME IInv, DefType
    PROVE  IInv'
<1> DEFINE d == Definition("group", name)
           grouped == Is({"/", ":", "->", "name", "cname", "@", "namespace", "eof"})
<1>1. ok /\ pending /\ state = "DEF_TYPE" /\ UNCHANGED input
  BY DEF DefType, In
<1>2. state \notin ValueStates /\ begun >= 1
  BY <1>1 DEF ValueStates, IInv, ScalarsOK
<1>3. CASE Reject
  BY <1>1, <1>3, RejectKeeps
<1>4. CASE ~Reject /\ grouped
  <2> DEFINE s == CASE Is({"/"}) -> "GROUP_ID"
                    [] Is({":"}) -> "GROUP_SUPER"
                    [] Is({"->"}) -> "FIELD"
                    [] OTHER -> "ANY"
  <2>1. /\ Search(Defs, name) = {} /\ AddDef(d) /\ annotes' = <<>>
        /\ UNCHANGED <<ns, ahead, laAnnotes, annote, type, begun>>
        /\ CASE Is({"/"}) -> Goto("GROUP_ID")
             [] Is({":"}) -> Goto("GROUP_SUPER")
             [] Is({"->"}) -> Goto("FIELD")
             [] OTHER -> Keep("ANY")
    BY <1>4 DEF DefType, Is
  <2>2. Keep(s) \/ (Goto(s) /\ tok.kind # "eof")
    BY <2>1 DEF Is
  <2>3. s \in {"GROUP_ID", "GROUP_SUPER", "FIELD", "ANY"}
    OBVIOUS
  <2> HIDE DEF s
  <2>4. d \in DefsRead /\ d.name = name /\ InStage("whole", d, begun)
    BY <1>2, NewDef
  <2> HIDE DEF d
  <2>5. type' = type /\ type \in {"field", "typedef"} /\ name' = name /\ UNCHANGED <<laName, laType>>
    BY <2>1, TypeOfState DEF ahead
  <2>6. BeginsAt(s) /\ Stage(s, type') = "whole"
    BY <2>3, <2>5, BeginStates
  <2> QED BY <1>1, <2>1, <2>2, <2>4, <2>5, <2>6, AddDefStep
<1>5. CASE ~Reject /\ ~grouped
  <2>1. /\ Is({"="}) /\ Search(Defs, name) = {} /\ Goto("ENUM_OR_TYPEDEF")
        /\ UNCHANGED <<spaces, ns, ahead, notes, type, begun>>
    BY <1>5 DEF DefType
  <2>2. state' = "ENUM_OR_TYPEDEF" /\ tok.kind # "eof" /\ ok' = ok /\ pending' \in BOOLEAN
    BY <2>1 DEF Goto, Is
  <2>3. ScalarsOK'
    BY <1>2, <2>1, <2>2, StatesByName
       DEF IInv, ScalarsOK, ahead, NamingStates, BareStates, NameStates
  <2>4. InputOK'
    BY <1>1, <2>2 DEF IInv, InputOK, input
  <2>5. NotesOK'
    BY <1>2, <2>1, <2>2, NotesStay DEF IInv, notes, ValueStates
  <2>6. PlaceOK'
    <3>1. Search(Defs, name)' = Search(Defs, name)
      BY <2>1 DEF Search, Defs, ahead
    <3> QED BY <1>1, <2>1, <2>2, <3>1 DEF IInv, PlaceOK, NamingStates, EndStates
  <2>7. DataOK'
    <3>1. Stage(state, type) = "whole" /\ Stage("ENUM_OR_TYPEDEF", type) = "whole"
      BY <1>1 DEF Stage, SymbolStates, SlashStates, BareStates, TailStates, NameStates
    <3> QED BY <2>1, <2>2, <3>1 DEF IInv, DataOK, SpacesOK, AllDistinct
  <2> QED BY <2>3, <2>4, <2>5, <2>6, <2>7 DEF IInv
<1> QED BY <1>3, <1>4, <1>5

\* TYPEDEF: the type is what was looked ahead.
LEMMA TypedefKeeps ==
    ASSUME IInv, Typedef
    PROVE  IInv'
<1> DEFINE n == IF laType = "ref" THEN laName ELSE NoName
           c == Definition("typedef", name)
           t == [[[c.type EXCEPT !.tag = laType] EXCEPT !.name = n] EXCEPT !.a = laAnnotes]
           d == [c EXCEPT !.type = t]
           s == IF laType = "ref" THEN "TYPE_DYNAMIC" ELSE "TYPE_LBRACKET"
<1>1. /\ ok /\ pending /\ state = "TYPEDEF" /\ UNCHANGED input
      /\ AddDef([c EXCEPT !.type.tag = laType, !.type.name = n, !.type.a = laAnnotes])
      /\ annotes' = <<>> /\ laAnnotes' = <<>> /\ type' = "typedef" /\ Keep(s)
      /\ UNCHANGED <<ns, ahead, annote, begun>>
  BY DEF Typedef, In
<1>2. state \notin ValueStates /\ begun >= 1 /\ Search(Defs, name) = {}
  BY <1>1 DEF ValueStates, NamingStates, IInv, ScalarsOK, PlaceOK
<1>3. /\ laType \in BuiltIn \union {"ref"} /\ laAnnotes \in Seq(NotesRead) /\ n \in Texts
      /\ laType = "ref" => Named(n)
  BY <1>1, EmptyThings DEF IInv, ScalarsOK, NotesOK
<1>4. c \in DefsRead
  BY <1>2, NewDef
<1> HIDE DEF c, n
<1>5. [c EXCEPT !.type.tag = laType, !.type.name = n, !.type.a = laAnnotes] = d
  BY <1>4 DEF DefsRead, TypesRead
<1>6. t \in TypesRead /\ t.tag = laType /\ t.name = n
  <2>1. c.type \in TypesRead
    BY <1>4 DEF DefsRead
  <2>2. ASSUME NEW u \in TypesRead, NEW x \in BuiltIn \union {"ref"}
        PROVE  [u EXCEPT !.tag = x] \in TypesRead /\ [u EXCEPT !.tag = x].tag = x
    BY DEF TypesRead
  <2>3. ASSUME NEW u \in TypesRead, NEW x \in Texts
        PROVE  /\ [u EXCEPT !.name = x] \in TypesRead
               /\ [u EXCEPT !.name = x].name = x /\ [u EXCEPT !.name = x].tag = u.tag
    BY DEF TypesRead
  <2>4. ASSUME NEW u \in TypesRead, NEW x \in Seq(NotesRead)
        PROVE  /\ [u EXCEPT !.a = x] \in TypesRead
               /\ [u EXCEPT !.a = x].name = u.name /\ [u EXCEPT !.a = x].tag = u.tag
    BY DEF TypesRead
  <2>5. [c.type EXCEPT !.tag = laType] \in TypesRead /\ [c.type EXCEPT !.tag = laType].tag = laType
    BY <1>3, <2>1, <2>2
  <2> DEFINE t1 == [c.type EXCEPT !.tag = laType]
  <2>6. t1 \in TypesRead /\ t1.tag = laType
    BY <2>5
  <2> HIDE DEF t1
  <2>7. /\ [t1 EXCEPT !.name = n] \in TypesRead
        /\ [t1 EXCEPT !.name = n].name = n /\ [t1 EXCEPT !.name = n].tag = laType
    BY <1>3, <2>3, <2>6
  <2> DEFINE t2 == [t1 EXCEPT !.name = n]
  <2>8. t2 \in TypesRead /\ t2.name = n /\ t2.tag = laType
    BY <2>7
  <2> HIDE DEF t2
  <2>9. /\ [t2 EXCEPT !.a = laAnnotes] \in TypesRead
        /\ [t2 EXCEPT !.a = laAnnotes].name = n /\ [t2 EXCEPT !.a = laAnnotes].tag = laType
    BY <1>3, <2>4, <2>8
  <2> QED BY <2>9 DEF t1, t2
<1>7. WholeType(t)
  BY <1>3, <1>6 DEF WholeType, BuiltIn
<1> HIDE DEF t
<1>8. d \in DefsRead /\ d.name = name /\ InStage("whole", d, begun) /\ AddDef(d)
  BY <1>1, <1>2, <1>5, <1>6, <1>7, NewDef DEF c
<1>9. s \in {"TYPE_DYNAMIC", "TYPE_LBRACKET"}
  OBVIOUS
<1> HIDE DEF d, s
<1>10. BeginsAt(s) /\ Stage(s, type') = "whole" /\ type' \in {"field", "typedef"}
  BY <1>1, <1>9, BeginStates
<1>11. name' = name /\ UNCHANGED <<ns, laName, laType, annote, begun>>
  BY <1>1 DEF ahead
<1> QED BY <1>1, <1>2, <1>8, <1>10, <1>11, AddDefStep

\* ENUM and ENUM_SINGLETON: the first symbol is what was looked ahead, or comes.
LEMMA EnumKeeps ==
    ASSUME IInv, Enum
    PROVE  IInv'
<1> DEFINE d == Definition("enum", name)
           s == IF state = "ENUM" THEN "SYMBOL" ELSE "SYMBOL_ANNOTES"
<1>1. /\ ok /\ pending /\ state \in {"ENUM", "ENUM_SINGLETON"} /\ UNCHANGED input
      /\ AddDef(d) /\ Keep(s) /\ UNCHANGED <<ns, laName, laType, annote, type, begun>>
      /\ name' \in {name, laName} /\ annotes' \in {annotes, laAnnotes, <<>>}
      /\ laAnnotes' \in {laAnnotes, <<>>}
  BY DEF Enum
<1>2. state \notin ValueStates /\ begun >= 1 /\ Search(Defs, name) = {}
  BY <1>1 DEF ValueStates, NamingStates, IInv, ScalarsOK, PlaceOK
<1>3. d \in DefsRead /\ d.name = name /\ InStage("symbols", d, begun)
  BY <1>2, NewDef
<1>4. s \in {"SYMBOL_ANNOTES", "SYMBOL"}
  OBVIOUS
<1> HIDE DEF d, s
<1>5. type' = type /\ type' \in {"field", "typedef"}
  BY <1>1, TypeOfState
<1>6. BeginsAt(s) /\ Stage(s, type') = "symbols"
  BY <1>4, <1>5, BeginStates
<1> QED BY <1>1, <1>2, <1>3, <1>5, <1>6, AddDefStep

\* Names that are noted: of a definition, of what is looked ahead, of a symbol.
LEMMA NamesKeep ==
    ASSUME IInv, DefOrAnnote \/ EnumOrTypedef \/ SymbolName
    PROVE  IInv'
<1>1. /\ ok /\ pending /\ UNCHANGED input /\ tok.name \in Texts
      /\ tok.kind = "name" => Named(tok.name)
  BY TokenParts DEF DefOrAnnote, EnumOrTypedef, SymbolName, In, IInv, InputOK
<1>2. CASE Reject
  BY <1>1, <1>2, RejectKeeps
<1> USE DEF IInv
<1>3. ASSUME NEW s, s \in States \ ValueStates, Goto(s), tok.kind # "eof", state \notin ValueStates,
             UNCHANGED <<spaces, ns, notes, type>>, begun' \in {begun, begun + 1},
             Stage(state, type) = Stage(s, type), begun' = begun \/ Stage(s, type) = "whole"
      PROVE  state' = s /\ InputOK' /\ NotesOK' /\ DataOK'
  <2>1. state' = s /\ ok' = ok /\ pending' \in BOOLEAN
    BY <1>3 DEF Goto
  <2>2. InputOK'
    BY <1>1, <1>3, <2>1 DEF InputOK, input
  <2>3. NotesOK'
    BY <1>3, <2>1, NotesStay DEF notes
  <2>4. DataOK'
    <3>1. DefsAt(spaces, ns, begun', Stage(s, type))
      BY <1>3, BegunGrows DEF DataOK, ScalarsOK
    <3> QED BY <1>3, <2>1, <3>1 DEF DataOK, SpacesOK, AllDistinct
  <2> QED BY <2>1, <2>2, <2>3, <2>4
<1>4. CASE DefOrAnnote /\ ~Reject
  <2>1. state = "DEF_OR_ANNOTE"
    BY <1>4 DEF DefOrAnnote, In
  <2>2. CASE Is({"@"})
    <3>1. /\ Goto("DEF_ANNOTE") /\ tok.kind # "eof"
          /\ UNCHANGED <<spaces, ns, ahead, notes, type, begun>>
      BY <1>4, <2>2 DEF DefOrAnnote, Is, ahead
    <3>2. Follows("DEF_ANNOTE")
      BY <2>1, TypeOfState, QuietStates
    <3> QED BY <1>1, <3>1, <3>2, QuietStep
  <2>3. CASE ~Is({"@"})
    <3>1. /\ Goto("DEF_TYPE") /\ tok.kind # "eof" /\ name' = tok.name /\ begun' = begun + 1
          /\ UNCHANGED <<spaces, ns, laName, laType, notes, type>>
      BY <1>4, <2>3 DEF DefOrAnnote, Is
    <3>2. /\ "DEF_TYPE" \in States \ ValueStates /\ state \notin ValueStates
          /\ Stage(state, type) = "whole" /\ Stage("DEF_TYPE", type) = "whole"
      BY <2>1, StatesByName DEF Stage, ValueStates, AtTop, SymbolStates, SlashStates, BareStates,
                                TailStates, NameStates
    <3>3. state' = "DEF_TYPE" /\ InputOK' /\ NotesOK' /\ DataOK'
      BY <1>3, <3>1, <3>2
    <3>4. ScalarsOK'
      <4>1. begun' \in Nat /\ begun' >= 1
        BY <3>1 DEF ScalarsOK
      <4>2. /\ state' \in States /\ pending' \in BOOLEAN /\ ok' \in BOOLEAN
            /\ state' \notin BareStates \union NameStates
        BY <3>1, <3>2, <3>3 DEF ScalarsOK, Goto, BareStates, NameStates
      <4>3. name' \in Texts /\ UNCHANGED <<laName, laType, type>>
        BY <1>1, <3>1
      <4> QED BY <3>3, <4>1, <4>2, <4>3 DEF ScalarsOK
    <3>5. PlaceOK'
      BY <2>1, <3>1, <3>3 DEF PlaceOK, AtTop, NamingStates, EndStates
    <3> QED BY <3>3, <3>4, <3>5
  <2> QED BY <2>2, <2>3
<1>5. CASE EnumOrTypedef /\ ~Reject
  <2>1. state = "ENUM_OR_TYPEDEF" /\ UNCHANGED <<spaces, ns, name, notes, type, begun>>
    BY <1>5 DEF EnumOrTypedef, In
  <2>2. Follows("ENUM_SINGLETON") /\ Follows("TYPEDEF_ANNOTE")
    BY <2>1, TypeOfState, QuietStates
  <2>3. CASE Is({"|", "@"})
    <3> PICK s \in {"ENUM_SINGLETON", "TYPEDEF_ANNOTE"} : Goto(s) /\ UNCHANGED <<laName, laType>>
      BY <1>5, <2>3 DEF EnumOrTypedef, Is, BuiltIn
    <3> QED BY <1>1, <2>1, <2>2, <2>3, QuietStep DEF Is, ahead
  <2>4. CASE ~Is({"|", "@"})
    <3>1. /\ tok.kind # "eof"
          /\ \/ /\ Goto("SYMBOL_OR_REF") /\ laName' = tok.name /\ laType' = "ref" /\ tok.kind = "name"
             \/ /\ Goto("TYPEDEF") /\ laType' = IType(tok.kind) /\ IType(tok.kind) \in BuiltIn
                /\ laName' = laName
      BY <1>5, <2>4 DEF EnumOrTypedef, Is, BuiltIn, IType
    <3>2. PICK s \in {"SYMBOL_OR_REF", "TYPEDEF"} : Goto(s)
      BY <3>1
    <3>3. /\ \A x \in {"SYMBOL_OR_REF", "TYPEDEF"} : x \in States \ ValueStates /\ Stage(x, type) = "whole"
          /\ state \notin ValueStates /\ Stage(state, type) = "whole"
      BY <2>1, StatesByName DEF Stage, ValueStates, NamingStates, SymbolStates, SlashStates, BareStates,
                                TailStates, NameStates
    <3>4. state' = s /\ InputOK' /\ NotesOK' /\ DataOK'
      BY <1>3, <2>1, <3>1, <3>2, <3>3
    <3>5. /\ laType' \in BuiltIn \union {"ref"} /\ laName' \in Texts
          /\ laType' = "ref" => Named(laName')
      BY <1>1, <3>1 DEF ScalarsOK, BuiltIn
    <3>6. ScalarsOK'
      <4>1. begun >= 1 /\ s \notin BareStates \union NameStates
        BY <2>1 DEF ScalarsOK, NamingStates, BareStates, NameStates
      <4>2. ok' \in BOOLEAN /\ pending' \in BOOLEAN /\ s \in States
        BY <3>1, <3>3 DEF ScalarsOK, Goto
      <4> QED BY <2>1, <3>4, <3>5, <4>1, <4>2 DEF ScalarsOK, Named
    <3>7. PlaceOK'
      <4>1. Search(Defs, name)' = Search(Defs, name)
        BY <2>1 DEF Search, Defs
      <4> QED BY <2>1, <3>4, <4>1 DEF PlaceOK, AtTop, NamingStates, EndStates
    <3> QED BY <3>4, <3>6, <3>7
  <2> QED BY <2>3, <2>4
<1>6. CASE SymbolName /\ ~Reject
  <2>1. /\ state = "SYMBOL_NAME" /\ Goto("SYMBOL") /\ tok.kind # "eof" /\ name' = tok.name
        /\ UNCHANGED <<spaces, ns, laName, laType, notes, type, begun>>
    BY <1>6 DEF SymbolName, In, Is
  <2>2. /\ "SYMBOL" \in States \ ValueStates /\ state \notin ValueStates
        /\ Stage(state, type) = "symbols" /\ Stage("SYMBOL", type) = "symbols"
    BY <2>1, StatesByName DEF Stage, ValueStates, SymbolStates, SlashStates, BareStates, TailStates,
                              NameStates
  <2>3. state' = "SYMBOL" /\ InputOK' /\ NotesOK' /\ DataOK'
    BY <1>3, <2>1, <2>2
  <2>4. ScalarsOK'
    BY <1>1, <2>1, <2>2, <2>3 DEF ScalarsOK, Goto, NamingStates, BareStates, NameStates
  <2>5. PlaceOK'
    <3>1. Defs' = Defs
      BY <2>1 DEF Defs
    <3> QED BY <2>1, <2>3, <3>1 DEF PlaceOK, AtTop, NamingStates, EndStates
  <2> QED BY <2>3, <2>4, <2>5
<1> QED BY <1>2, <1>4, <1>5, <1>6

-----------------------------------------------------------------------------
\* Annotations.

\* The state s is one of this state's part of the grammar.
Beside(s) ==
    /\ s \in States
    /\ s \notin {"DEF_TYPE", "SYMBOL_OR_REF", "TYPEDEF", "ENUM", "START", "NS"} \union EndStates
    /\ state \notin {"START", "NS"}
    /\ s \in BareStates \union NameStates => state \in BareStates \union NameStates
    /\ s \in NamingStates <=> state \in NamingStates
    /\ s \in AtTop <=> state \in AtTop
    /\ Stage(s, type) = Stage(state, type)

\* The states before and after the value of an annotation.
LEMMA AnnoteMoves ==
    /\ state \in AnnoteStates =>
          state \notin ValueStates /\ ValueState(state) \in ValueStates /\ Beside(ValueState(state))
    /\ state \in ValueStates => AfterValue(state) \notin ValueStates /\ Beside(AfterValue(state))
<1> USE DEF Beside, Stage, ValueStates, AtTop, SymbolStates, SlashStates, BareStates, TailStates,
        NameStates, EndStates, NamingStates, HeadStates
<1>1. CASE state \in AnnoteStates
  BY <1>1, StatesByName DEF AnnoteStates, ValueState
<1>2. CASE state \in ValueStates
  <2>1. /\ AfterValue("DEF_ANNOTE_VALUE") = "DEF_OR_ANNOTE"
        /\ AfterValue("TYPEDEF_ANNOTE_VALUE") = "ENUM_OR_TYPEDEF"
        /\ AfterValue("SYMBOL_ANNOTE_VALUE") = "SYMBOL_NAME"
        /\ AfterValue("TYPE_ANNOTE_VALUE") = "FIELD_TYPE"
        /\ AfterValue("NAME_ANNOTE_VALUE") = "FIELD_NAME"
    BY DEF AfterValue
  <2> QED BY <1>2, <2>1, StatesByName DEF AnnoteStates
<1>3. CASE state \notin AnnoteStates \union ValueStates
  BY <1>3
<1> QED BY <1>1, <1>2, <1>3

\* A step that moves beside this state and keeps the lists of annotations in order
\* keeps the invariant.
LEMMA AnnoteStep ==
    ASSUME IInv, UNCHANGED input, NEW s, Beside(s), Goto(s), tok.kind # "eof",
           UNCHANGED <<spaces, ns, ahead, type, begun>>, NotesOK'
    PROVE  IInv'
<1> USE DEF IInv
<1>1. state' = s /\ ok' = ok /\ pending' = FALSE
  BY DEF Goto
<1>2. ScalarsOK'
  BY <1>1 DEF ScalarsOK, Beside, ahead
<1>3. InputOK'
  BY <1>1 DEF InputOK, input
<1>4. PlaceOK'
  <2>1. Defs' = Defs
    BY DEF Defs
  <2>2. Search(Defs, name)' = Search(Defs, name)
    BY DEF Search, Defs, ahead
  <2> QED BY <1>1, <2>1, <2>2 DEF PlaceOK, Beside
<1>5. DataOK'
  BY <1>1 DEF DataOK, SpacesOK, AllDistinct, Beside
<1> QED BY <1>2, <1>3, <1>4, <1>5

\* An annotation that is found or is new; it has no value for now.
LEMMA AnnoteNameKeeps ==
    ASSUME IInv, AnnoteName
    PROVE  IInv'
<1> DEFINE found == Search(annotes, tok.name)
           new == [name |-> tok.name, value |-> NoName, at |-> begun]
<1>1. ok /\ pending /\ state \in AnnoteStates /\ UNCHANGED input
  BY DEF AnnoteName
<1>2. CASE Reject
  BY <1>1, <1>2, RejectKeeps
<1>3. CASE ~Reject
  <2>1. /\ Goto(ValueState(state)) /\ tok.kind # "eof" /\ UNCHANGED <<spaces, ns, ahead, type, begun>>
        /\ \/ /\ found # {} /\ annote' = [list |-> "annotes", index |-> First(found)]
              /\ UNCHANGED <<annotes, laAnnotes>>
           \/ /\ laAnnotes' = Append(laAnnotes, new) /\ annotes' = annotes
              /\ annote' = [list |-> "laAnnotes", index |-> Len(laAnnotes) + 1]
           \/ /\ annotes' = Append(annotes, new) /\ laAnnotes' = laAnnotes
              /\ annote' = [list |-> "annotes", index |-> Len(annotes) + 1]
    BY <1>3 DEF AnnoteName, Is
  <2>2. state \notin ValueStates /\ ValueState(state) \in ValueStates /\ Beside(ValueState(state))
    BY <1>1, AnnoteMoves
  <2>3. state' \in ValueStates
    BY <2>1, <2>2 DEF Goto
  <2>4. /\ annotes \in Seq(NotesRead) /\ laAnnotes \in Seq(NotesRead)
        /\ Len(annotes) \in Nat /\ Len(laAnnotes) \in Nat /\ DOMAIN annotes = 1 .. Len(annotes)
        /\ DOMAIN laAnnotes = 1 .. Len(laAnnotes)
    BY DEF IInv, NotesOK
  <2>5. /\ \A k \in 1 .. Len(annotes) : Named(annotes[k].value)
        /\ \A k \in 1 .. Len(laAnnotes) : Named(laAnnotes[k].value)
    BY <2>2, <2>4 DEF IInv, NotesOK, WholeBut
  <2>6. new \in NotesRead
    <3>1. tok.name \in Texts /\ NoName \in Texts /\ begun \in Nat
      BY TokenParts, EmptyThings DEF IInv, InputOK, ScalarsOK
    <3> QED BY <3>1 DEF NotesRead
  <2> HIDE DEF new, found
  <2>7. NotesOK'
    <3>1. CASE /\ found # {} /\ annote' = [list |-> "annotes", index |-> First(found)]
               /\ UNCHANGED <<annotes, laAnnotes>>
      <4>1. First(found) \in 1 .. Len(annotes)
        BY <2>4, <3>1, FirstIsFound DEF found
      <4>2. WholeBut(annotes, "annotes")' /\ WholeBut(laAnnotes, "laAnnotes")'
        BY <2>4, <2>5, <3>1 DEF WholeBut, Named
      <4>3. /\ annote'.list = "annotes" /\ annote'.index = First(found)
            /\ annote' \in [list : {"annotes", "laAnnotes"}, index : Nat]
        BY <3>1, <4>1
      <4> QED BY <2>4, <3>1, <4>1, <4>2, <4>3 DEF NotesOK
    <3>2. CASE /\ laAnnotes' = Append(laAnnotes, new) /\ annotes' = annotes
               /\ annote' = [list |-> "laAnnotes", index |-> Len(laAnnotes) + 1]
      <4>1. /\ laAnnotes' \in Seq(NotesRead) /\ Len(laAnnotes') = Len(laAnnotes) + 1
            /\ DOMAIN laAnnotes' = 1 .. (Len(laAnnotes) + 1)
            /\ \A k \in 1 .. Len(laAnnotes) : laAnnotes'[k] = laAnnotes[k]
        BY <2>4, <2>6, <3>2, Appended
      <4>2. /\ annote'.list = "laAnnotes" /\ annote'.index = Len(laAnnotes) + 1
            /\ annote' \in [list : {"annotes", "laAnnotes"}, index : Nat]
        BY <2>4, <3>2
      <4>3. WholeBut(laAnnotes, "laAnnotes")'
        BY <2>3, <2>4, <2>5, <4>1, <4>2 DEF WholeBut, Named
      <4>4. WholeBut(annotes, "annotes")'
        BY <2>4, <2>5, <3>2 DEF WholeBut, Named
      <4> QED BY <2>4, <3>2, <4>1, <4>2, <4>3, <4>4 DEF NotesOK
    <3>3. CASE /\ annotes' = Append(annotes, new) /\ laAnnotes' = laAnnotes
               /\ annote' = [list |-> "annotes", index |-> Len(annotes) + 1]
      <4>1. /\ annotes' \in Seq(NotesRead) /\ Len(annotes') = Len(annotes) + 1
            /\ DOMAIN annotes' = 1 .. (Len(annotes) + 1)
            /\ \A k \in 1 .. Len(annotes) : annotes'[k] = annotes[k]
        BY <2>4, <2>6, <3>3, Appended
      <4>2. /\ annote'.list = "annotes" /\ annote'.index = Len(annotes) + 1
            /\ annote' \in [list : {"annotes", "laAnnotes"}, index : Nat]
        BY <2>4, <3>3
      <4>3. WholeBut(annotes, "annotes")'
        BY <2>3, <2>4, <2>5, <4>1, <4>2 DEF WholeBut, Named
      <4>4. WholeBut(laAnnotes, "laAnnotes")'
        BY <2>4, <2>5, <3>3 DEF WholeBut, Named
      <4> QED BY <2>4, <3>3, <4>1, <4>2, <4>3, <4>4 DEF NotesOK
    <3> QED BY <2>1, <3>1, <3>2, <3>3 DEF found, new
  <2> QED BY <1>1, <2>1, <2>2, <2>7, AnnoteStep
<1> QED BY <1>2, <1>3

\* The value of an annotation: none is left without one.
LEMMA AnnoteValueKeeps ==
    ASSUME IInv, AnnoteValue
    PROVE  IInv'
<1> DEFINE i == annote.index
<1>1. ok /\ pending /\ state \in ValueStates /\ UNCHANGED input
  BY StatesByName DEF AnnoteValue
<1>2. CASE Reject
  BY <1>1, <1>2, RejectKeeps
<1>3. CASE ~Reject
  <2>1. /\ Goto(AfterValue(state)) /\ tok.kind = "literal"
        /\ UNCHANGED <<spaces, ns, ahead, annote, type, begun>>
        /\ \/ /\ annote.list = "annotes" /\ laAnnotes' = laAnnotes
              /\ annotes' = [annotes EXCEPT ![i].value = tok.name, ![i].at = begun]
           \/ /\ annote.list = "laAnnotes" /\ annotes' = annotes
              /\ laAnnotes' = [laAnnotes EXCEPT ![i].value = tok.name]
    BY <1>3 DEF AnnoteValue, Is
  <2>2. AfterValue(state) \notin ValueStates /\ Beside(AfterValue(state))
    BY <1>1, AnnoteMoves
  <2>3. state' \notin ValueStates
    BY <2>1, <2>2 DEF Goto
  <2>4. /\ annotes \in Seq(NotesRead) /\ laAnnotes \in Seq(NotesRead)
        /\ annote \in [list : {"annotes", "laAnnotes"}, index : Nat]
        /\ i \in 1 .. Len(IF annote.list = "annotes" THEN annotes ELSE laAnnotes)
        /\ WholeBut(annotes, "annotes") /\ WholeBut(laAnnotes, "laAnnotes")
    BY <1>1 DEF IInv, NotesOK
  <2>5. tok.name \in Texts /\ Named(tok.name) /\ begun \in Nat
    BY <2>1, TokenParts DEF IInv, InputOK, ScalarsOK
  <2>6. CASE /\ annote.list = "annotes" /\ laAnnotes' = laAnnotes
             /\ annotes' = [annotes EXCEPT ![i].value = tok.name, ![i].at = begun]
    <3> DEFINE e == [annotes[i] EXCEPT !.value = tok.name, !.at = begun]
    <3>1. i \in 1 .. Len(annotes) /\ annotes[i] \in NotesRead
      BY <2>4, <2>6
    <3>2. e \in NotesRead /\ e.value = tok.name
      BY <2>5, <3>1 DEF NotesRead
    <3>3. annotes' = [annotes EXCEPT ![i] = e]
      BY <2>6, <3>1 DEF NotesRead
    <3> HIDE DEF e, i
    <3>4. /\ annotes' \in Seq(NotesRead) /\ Len(annotes') = Len(annotes)
          /\ \A k \in 1 .. Len(annotes) : annotes'[k] = IF k = i THEN e ELSE annotes[k]
      BY <2>4, <3>1, <3>2, <3>3, ExceptSeq
    <3>5. \A k \in DOMAIN annotes' : Named(annotes'[k].value)
      BY <2>4, <2>5, <3>2, <3>4 DEF WholeBut, i
    <3>6. \A k \in DOMAIN laAnnotes : Named(laAnnotes[k].value)
      BY <2>4, <2>6 DEF WholeBut
    <3>7. NotesOK'
      BY <2>1, <2>3, <2>4, <2>6, <3>4, <3>5, <3>6 DEF NotesOK, WholeBut, Named
    <3> QED BY <1>1, <2>1, <2>2, <3>7, AnnoteStep
  <2>7. CASE /\ annote.list = "laAnnotes" /\ annotes' = annotes
             /\ laAnnotes' = [laAnnotes EXCEPT ![i].value = tok.name]
    <3> DEFINE e == [laAnnotes[i] EXCEPT !.value = tok.name]
    <3>1. i \in 1 .. Len(laAnnotes) /\ laAnnotes[i] \in NotesRead
      BY <2>4, <2>7
    <3>2. e \in NotesRead /\ e.value = tok.name
      BY <2>5, <3>1 DEF NotesRead
    <3>3. laAnnotes' = [laAnnotes EXCEPT ![i] = e]
      BY <2>7, <3>1 DEF NotesRead
    <3> HIDE DEF e, i
    <3>4. /\ laAnnotes' \in Seq(NotesRead) /\ Len(laAnnotes') = Len(laAnnotes)
          /\ \A k \in 1 .. Len(laAnnotes) : laAnnotes'[k] = IF k = i THEN e ELSE laAnnotes[k]
      BY <2>4, <3>1, <3>2, <3>3, ExceptSeq
    <3>5. \A k \in DOMAIN laAnnotes' : Named(laAnnotes'[k].value)
      BY <2>4, <2>5, <3>2, <3>4 DEF WholeBut, i
    <3>6. \A k \in DOMAIN annotes : Named(annotes[k].value)
      BY <2>4, <2>7 DEF WholeBut
    <3>7. NotesOK'
      BY <2>1, <2>3, <2>4, <2>7, <3>4, <3>5, <3>6 DEF NotesOK, WholeBut, Named
    <3> QED BY <1>1, <2>1, <2>2, <3>7, AnnoteStep
  <2> QED BY <2>1, <2>6, <2>7
<1> QED BY <1>2, <1>3

-----------------------------------------------------------------------------
\* Namespaces and tokens.

\* getNamespace finds a namespace or adds an empty one.
LEMMA OpenKeeps ==
    ASSUME SpacesOK(spaces), DefsAt(spaces, ns, begun, "whole"), NEW x \in Texts,
           OpenNamespace(x), begun' = begun
    PROVE  SpacesOK(spaces)' /\ DefsAt(spaces', ns', begun', "whole") /\ ns' \in 1 .. Len(spaces')
<1> DEFINE space == [name |-> x, defs |-> <<>>]
           found == Search(spaces, x)
<1>1. spaces \in Seq(SpacesRead) /\ Len(spaces) \in Nat /\ DOMAIN spaces = 1 .. Len(spaces)
  BY DEF SpacesOK
<1>2. \A k \in DOMAIN spaces : \A l \in DOMAIN spaces[k].defs : InStage("whole", spaces[k].defs[l], begun)
  BY DEF DefsAt
<1>3. CASE found # {}
  <2>1. ns' = First(found) /\ spaces' = spaces
    BY <1>3 DEF OpenNamespace
  <2>2. First(found) \in 1 .. Len(spaces)
    BY <1>1, <1>3, FirstIsFound
  <2>3. DefsAt(spaces', ns', begun', "whole")
    BY <1>2, <2>1 DEF DefsAt
  <2> QED BY <2>1, <2>2, <2>3 DEF SpacesOK, AllDistinct
<1>4. CASE found = {}
  <2>1. ns' = Len(spaces) + 1 /\ spaces' = Append(spaces, space)
    BY <1>4 DEF OpenNamespace
  <2>2. space \in SpacesRead /\ space.defs = <<>>
    BY EmptyThings DEF SpacesRead
  <2> HIDE DEF space
  <2>3. /\ spaces' \in Seq(SpacesRead) /\ Len(spaces') = Len(spaces) + 1
        /\ \A k \in 1 .. Len(spaces) : spaces'[k] = spaces[k]
        /\ spaces'[Len(spaces) + 1] = space /\ DOMAIN spaces' = 1 .. (Len(spaces) + 1)
    BY <1>1, <2>1, <2>2, Appended
  <2>4. ASSUME NEW k \in DOMAIN spaces'
        PROVE  /\ AllDistinct(spaces'[k].defs)
               /\ \A l \in DOMAIN spaces'[k].defs : InStage("whole", spaces'[k].defs[l], begun)
    <3>1. CASE k \in 1 .. Len(spaces)
      BY <1>1, <1>2, <2>3, <3>1 DEF SpacesOK
    <3>2. CASE k = Len(spaces) + 1
      <4>1. spaces'[k].defs = <<>>
        BY <2>2, <2>3, <3>2
      <4> QED BY <4>1 DEF AllDistinct
    <3> QED BY <1>1, <2>3, <3>1, <3>2
  <2>5. SpacesOK(spaces)'
    BY <2>3, <2>4 DEF SpacesOK, AllDistinct
  <2>6. DefsAt(spaces', ns', begun', "whole")
    BY <2>4 DEF DefsAt
  <2> QED BY <1>1, <2>1, <2>3, <2>5, <2>6
<1> QED BY <1>3, <1>4

\* The two ways to a namespace.
LEMMA SpacesKeep ==
    ASSUME IInv, Start \/ Ns
    PROVE  IInv'
<1>1. /\ ok /\ pending /\ state \in {"START", "NS"} /\ UNCHANGED input
      /\ tok.name \in Texts /\ NoName \in Texts
  BY TokenParts, EmptyThings DEF Start, Ns, In, IInv, InputOK
<1>2. CASE Reject
  BY <1>1, <1>2, RejectKeeps
<1>3. CASE Start /\ Is({"namespace"})
  <2>1. Goto("NS") /\ tok.kind # "eof" /\ UNCHANGED <<spaces, ns, ahead, notes, type, begun>>
    BY <1>3 DEF Start, Is
  <2>2. Follows("NS")
    BY <1>3, TypeOfState, QuietStates DEF Start, In
  <2> QED BY <1>1, <2>1, <2>2, QuietStep
<1>4. CASE ~Reject /\ ~(Start /\ Is({"namespace"}))
  <2>1. /\ Keep("ANY") \/ Goto("ANY")
        /\ OpenNamespace(NoName) \/ OpenNamespace(tok.name)
        /\ UNCHANGED <<ahead, notes, type, begun>>
    BY <1>4 DEF Start, Ns
  <2>2. state' = "ANY" /\ ok' = ok /\ pending' \in BOOLEAN
    BY <1>1, <2>1 DEF Keep, Goto
  <2>3. /\ state \notin ValueStates /\ "ANY" \in States \ ValueStates
        /\ Stage(state, type) = "whole" /\ Stage("ANY", type) = "whole"
    BY <1>1, StatesByName DEF ValueStates, Stage, AtTop, SymbolStates, SlashStates, BareStates,
                              TailStates, NameStates
  <2>4. SpacesOK(spaces)' /\ DefsAt(spaces', ns', begun', "whole") /\ ns' \in 1 .. Len(spaces')
    BY <1>1, <2>1, <2>3, OpenKeeps DEF IInv, DataOK
  <2>5. ScalarsOK'
    BY <2>1, <2>2, <2>3 DEF IInv, ScalarsOK, ahead, BareStates, NameStates, NamingStates
  <2>6. InputOK'
    BY <1>1, <2>2 DEF IInv, InputOK, input
  <2>7. NotesOK'
    BY <2>1, <2>2, <2>3, NotesStay DEF IInv, notes
  <2>8. PlaceOK'
    BY <2>2, <2>4 DEF PlaceOK, AtTop, NamingStates, EndStates, SpacesOK
  <2>9. DataOK'
    BY <2>1, <2>2, <2>3, <2>4 DEF DataOK
  <2> QED BY <2>5, <2>6, <2>7, <2>8, <2>9 DEF IInv
<1> QED BY <1>2, <1>3, <1>4

\* The next token.
LEMMA GetTokenKeeps ==
    ASSUME IInv, GetToken
    PROVE  IInv'
<1> USE DEF IInv
<1>1. PICK t \in alphabet \union {Eof} :
         /\ tok' = t /\ read' = Append(read, t)
         /\ ok' = (t.kind # "enomem") /\ pending' = (t.kind # "enomem")
  BY DEF GetToken
<1>2. UNCHANGED <<state, spaces, ns, ahead, notes, type, begun, alphabet>>
  BY DEF GetToken
<1>3. ScalarsOK'
  BY <1>1, <1>2 DEF ScalarsOK, ahead
<1>4. InputOK'
  <2>1. t \in Tokens
    BY <1>1 DEF InputOK, Tokens
  <2>2. read' \in Seq(Tokens)
    BY <1>1, <2>1 DEF InputOK
  <2> QED BY <1>1, <1>2, <2>1, <2>2 DEF InputOK
<1>5. NotesOK'
  BY <1>2 DEF NotesOK, WholeBut, notes, Named
<1>6. PlaceOK'
  <2>1. Defs' = Defs /\ D' = D
    BY <1>2 DEF Defs, D
  <2>2. Search(Defs, name)' = Search(Defs, name)
    BY <1>2 DEF Search, Defs, ahead
  <2> QED BY <1>2, <2>1, <2>2 DEF PlaceOK
<1>7. DataOK'
  BY <1>2 DEF DataOK, SpacesOK, AllDistinct
<1> QED BY <1>3, <1>4, <1>5, <1>6, <1>7

-----------------------------------------------------------------------------
\* The invariant.

\* It holds when parseSchema is called.
LEMMA InitHolds == Init => IInv
<1> SUFFICES ASSUME Init PROVE IInv
  OBVIOUS
<1>1. /\ state = "START" /\ tok = Eof /\ pending = FALSE /\ ok = TRUE
      /\ spaces = <<>> /\ ns = 0 /\ name = NoName /\ laName = NoName /\ laType = "ref"
      /\ annotes = <<>> /\ laAnnotes = <<>> /\ annote = [list |-> "annotes", index |-> 0]
      /\ type = "field" /\ begun = 0 /\ read = <<>> /\ alphabet \in Alphabets
  BY DEF Init
<1>2. ScalarsOK
  BY <1>1, StatesByName, EmptyThings DEF ScalarsOK, AtTop, NamingStates, BareStates, NameStates
<1>3. InputOK
  BY <1>1, EmptySeq DEF InputOK, Tokens
<1>4. NotesOK
  BY <1>1, EmptyThings DEF NotesOK, WholeBut, ValueStates
<1>5. PlaceOK
  BY <1>1 DEF PlaceOK, AtTop, NamingStates, EndStates
<1>6. DataOK
  BY <1>1, EmptySeq DEF DataOK, SpacesOK, DefsAt
<1> QED BY <1>2, <1>3, <1>4, <1>5, <1>6 DEF IInv

\* Every step of the parser keeps it.
LEMMA NextHolds == IInv /\ [Next]_vars => IInv'
<1> SUFFICES ASSUME IInv, [Next]_vars PROVE IInv'
  OBVIOUS
<1>1. CASE GetToken
  BY <1>1, GetTokenKeeps
<1>2. CASE Start \/ Ns
  BY <1>2, SpacesKeep
<1>3. CASE \/ TopLevel \/ SymbolOrRef \/ SymbolAnnotes \/ SymbolNext \/ AfterGroupHead
           \/ TypeLBracket \/ TypeLParen \/ FieldNameAnnotes \/ FieldNext
  BY <1>3, QuietSteps
<1>4. CASE DefOrAnnote \/ EnumOrTypedef \/ SymbolName
  BY <1>4, NamesKeep
<1>5. CASE AnnoteName
  BY <1>5, AnnoteNameKeeps
<1>6. CASE AnnoteValue
  BY <1>6, AnnoteValueKeeps
<1>7. CASE DefType
  BY <1>7, DefTypeKeeps
<1>8. CASE Typedef
  BY <1>8, TypedefKeeps
<1>9. CASE Enum
  BY <1>9, EnumKeeps
<1>10. CASE Symbol
  BY <1>10, SymbolKeeps
<1>11. CASE SymbolSlash
  BY <1>11, SymbolSlashKeeps
<1>12. CASE SymbolValue
  BY <1>12, SymbolValueKeeps
<1>13. CASE GroupId \/ GroupSuper
  BY <1>13, GroupHeadKeeps
<1>14. CASE Field
  BY <1>14, FieldKeeps
<1>15. CASE FieldType
  BY <1>15, FieldTypeKeeps
<1>16. CASE TypeDynamic \/ TypeRBracket \/ TypeLParenOptional \/ TypeSize
  BY <1>16, TailKeeps
<1>17. CASE FieldName
  BY <1>17, FieldNameKeeps
<1>18. CASE FieldOptional
  BY <1>18, FieldOptionalKeeps
<1>19. CASE NoMemory
  BY <1>19, RejectKeeps DEF NoMemory
<1>20. CASE UNCHANGED vars
  <2>1. Defs' = Defs /\ D' = D /\ Search(Defs, name)' = Search(Defs, name)
    BY <1>20 DEF Search, Defs, D, vars
  <2>2. ScalarsOK' /\ InputOK'
    BY <1>20 DEF vars, IInv, ScalarsOK, InputOK
  <2>3. NotesOK'
    BY <1>20 DEF vars, IInv, NotesOK, WholeBut
  <2>4. PlaceOK'
    BY <1>20, <2>1 DEF vars, IInv, PlaceOK
  <2>5. DataOK'
    BY <1>20 DEF vars, IInv, DataOK, SpacesOK, AllDistinct
  <2> QED BY <2>2, <2>3, <2>4, <2>5 DEF IInv
<1> QED BY <1>1, <1>2, <1>3, <1>4, <1>5, <1>6, <1>7, <1>8, <1>9, <1>10, <1>11, <1>12, <1>13, <1>14,
           <1>15, <1>16, <1>17, <1>18, <1>19, <1>20 DEF Next, Handle

\* The inductive invariant: every definition but the last is whole, the last is as far
\* as the state of the parser says, and what was noted for it is in order.
THEOREM Invariance == Spec => []IInv
BY InitHolds, NextHolds, PTL DEF Spec

\* A definition in any of the namespaces, and where it is.
LEMMA Somewhere ==
    ASSUME IInv, NEW d \in AllDefs
    PROVE  /\ d \in DefsRead
           /\ \E k \in DOMAIN spaces : \E l \in DOMAIN spaces[k].defs :
                 /\ d = spaces[k].defs[l]
                 /\ InStage(IF k = ns /\ l = Len(spaces[k].defs) THEN Stage(state, type) ELSE "whole", d, begun)
<1>1. PICK k \in DOMAIN spaces : \E l \in DOMAIN spaces[k].defs : d = spaces[k].defs[l]
  BY DEF AllDefs
<1>2. PICK l \in DOMAIN spaces[k].defs : d = spaces[k].defs[l]
  BY <1>1
<1>3. InStage(IF k = ns /\ l = Len(spaces[k].defs) THEN Stage(state, type) ELSE "whole", d, begun)
  BY <1>2 DEF IInv, DataOK, DefsAt
<1>4. d \in DefsRead
  <2>1. spaces[k] \in SpacesRead
    BY DEF IInv, DataOK, SpacesOK
  <2>2. spaces[k].defs \in Seq(DefsRead)
    BY <2>1 DEF SpacesRead
  <2> QED BY <1>2, <2>2
<1> QED BY <1>2, <1>3, <1>4

\* Every schema that is accepted ends at the top level.
LEMMA AcceptedAtTop ==
    ASSUME IInv, Accepted
    PROVE  state = "ANY" /\ \A d \in AllDefs : d \in DefsRead /\ InStage("whole", d, begun)
<1>1. state = "ANY"
  BY DEF Accepted, IInv, InputOK
<1>2. Stage(state, type) = "whole"
  BY <1>1 DEF Stage, SymbolStates, SlashStates, BareStates, TailStates, NameStates
<1> QED BY <1>1, <1>2, Somewhere

\* The types of the parser's variables, the places its pointers point to and the range of
\* the values of symbols.
THEOREM TypeCorrect == Spec => []TypeOK
<1>1. IInv => TypeOK
  <2> SUFFICES ASSUME IInv PROVE TypeOK
    OBVIOUS
  <2>1. state \in States /\ pending \in BOOLEAN /\ ok \in BOOLEAN /\ ns \in 0 .. Len(spaces)
    BY DEF IInv, ScalarsOK, PlaceOK
  <2>2. ASSUME NEW d \in AllDefs
        PROVE  /\ d.nth \in 1 .. begun
               /\ \A k \in DOMAIN d.symbols : d.symbols[k].value \in (-ENUM_MAX - 1) .. ENUM_MAX
    <3>1. PICK stage : InStage(stage, d, begun)
      BY Somewhere
    <3>2. d.symbols \in Seq(SymbolsRead)
      BY Somewhere DEF DefsRead
    <3>3. DOMAIN d.symbols = 1 .. Len(d.symbols)
      BY <3>2
    <3>4. d.nth \in 1 .. begun
      BY <3>1 DEF InStage, HeadAt
    <3>5. \A k \in 1 .. Len(d.symbols) : d.symbols[k].value \in (-ENUM_MAX - 1) .. ENUM_MAX
      BY <3>1 DEF InStage, SymbolsAt
    <3> QED BY <3>3, <3>4, <3>5
  <2> QED BY <2>1, <2>2 DEF TypeOK
<1> QED BY <1>1, Invariance, PTL

\* No namespace of an accepted schema has two definitions of a name, no group two fields
\* and no enum two symbols.
THEOREM UniqueNames == Spec => []NamesUnique
<1>1. IInv => NamesUnique
  <2> SUFFICES ASSUME IInv, Accepted
               PROVE  /\ \A k \in DOMAIN spaces : AllDistinct(spaces[k].defs)
                      /\ \A d \in AllDefs : AllDistinct(d.fields) /\ AllDistinct(d.symbols)
    BY DEF NamesUnique
  <2>1. \A k \in DOMAIN spaces : AllDistinct(spaces[k].defs)
    BY DEF IInv, DataOK, SpacesOK
  <2>2. ASSUME NEW d \in AllDefs PROVE AllDistinct(d.fields) /\ AllDistinct(d.symbols)
    <3>1. d \in DefsRead /\ InStage("whole", d, begun)
      BY AcceptedAtTop
    <3>2. DOMAIN d.fields = 1 .. Len(d.fields) /\ DOMAIN d.symbols = 1 .. Len(d.symbols)
      BY <3>1 DEF DefsRead
    <3>3. DistinctUpTo(d.fields, Len(d.fields)) /\ DistinctUpTo(d.symbols, Len(d.symbols))
      BY <3>1 DEF InStage, FieldsAt, SymbolsAt, WholeFields, Open
    <3> QED BY <3>2, <3>3 DEF DistinctUpTo, AllDistinct
  <2> QED BY <2>1, <2>2
<1> QED BY <1>1, Invariance, PTL

\* The values of the symbols of an enum ascend, up to the one that has no value yet.
THEOREM ValuesAscend == Spec => []EnumValuesAscend
<1>1. IInv => EnumValuesAscend
  <2> SUFFICES ASSUME IInv, NEW d \in AllDefs, NEW k \in DOMAIN d.symbols, NEW l \in DOMAIN d.symbols,
                      k < l, l < Len(d.symbols) \/ state \notin {"SYMBOL_SLASH", "SYMBOL_VALUE"}
               PROVE  d.symbols[k].value < d.symbols[l].value
    BY DEF EnumValuesAscend
  <2>1. PICK stage : InStage(stage, d, begun) /\ stage \in {"whole", Stage(state, type)}
    BY Somewhere
  <2>2. d.symbols \in Seq(SymbolsRead)
    BY Somewhere DEF DefsRead
  <2>3. k \in 1 .. Len(d.symbols) /\ l \in 1 .. Len(d.symbols) /\ Len(d.symbols) \in Nat
    BY <2>2
  <2>4. state \notin {"SYMBOL_SLASH", "SYMBOL_VALUE"} => stage # "symbol"
    BY <2>1 DEF Stage, SymbolStates, SlashStates, BareStates, TailStates, NameStates
  <2>5. AscendingUpTo(d.symbols, WholeSymbols(stage, d))
    BY <2>1 DEF InStage, SymbolsAt
  <2>6. k \in 1 .. WholeSymbols(stage, d) /\ l \in 1 .. WholeSymbols(stage, d)
    BY <2>3, <2>4 DEF WholeSymbols
  <2> QED BY <2>5, <2>6 DEF AscendingUpTo
<1> QED BY <1>1, Invariance, PTL

\* An accepted schema has no half-made parts, if names and literals have characters.
THEOREM AcceptedComplete == WordsHaveCharacters => (Spec => []AcceptedIsComplete)
<1> SUFFICES ASSUME WordsHaveCharacters PROVE Spec => []AcceptedIsComplete
  OBVIOUS
<1>1. IInv => AcceptedIsComplete
  <2> SUFFICES ASSUME IInv, Accepted, NEW d \in AllDefs
               PROVE  /\ CompleteNotes(d.a)
                      /\ d.kind = "typedef" => Complete(d.type)
                      /\ d.kind = "enum" => d.symbols # <<>>
                      /\ \A k \in DOMAIN d.fields : /\ d.fields[k].name # NoName
                                                    /\ Complete(d.fields[k].type)
                                                    /\ CompleteNotes(d.fields[k].a)
    BY DEF AcceptedIsComplete
  <2>1. d \in DefsRead /\ InStage("whole", d, begun)
    BY AcceptedAtTop
  <2>2. DOMAIN d.fields = 1 .. Len(d.fields)
    BY <2>1 DEF DefsRead
  <2>3. CompleteNotes(d.a) /\ (d.kind = "typedef" => Complete(d.type))
    BY <2>1 DEF InStage, HeadAt, WholeNotes, CompleteNotes, WholeType, Complete, Named
  <2>4. d.kind = "enum" => d.symbols # <<>>
    BY <2>1 DEF InStage, SymbolsAt
  <2>5. ASSUME NEW k \in DOMAIN d.fields
        PROVE  d.fields[k].name # NoName /\ Complete(d.fields[k].type) /\ CompleteNotes(d.fields[k].a)
    <3>1. WholeField(d.fields[k])
      BY <2>1, <2>2 DEF InStage, FieldsAt, WholeFields, Open
    <3> QED BY <3>1 DEF WholeField, WholeType, WholeNotes, Complete, CompleteNotes, Named
  <2> QED BY <2>3, <2>4, <2>5
<1> QED BY <1>1, Invariance, PTL

\* What holds of m and of the successor of each number it holds of, up to N.
LEMMA FromTo ==
    ASSUME NEW m \in Nat, NEW N \in Nat, NEW Q,
           m \in Q, \A n \in m .. (N - 1) : n \in Q => n + 1 \in Q
    PROVE  \A n \in m .. N : n \in Q
<1> DEFINE T == {n \in m .. N : n \notin Q}
           R == OpToRel(<, Nat)
<1> SUFFICES ASSUME T # {} PROVE FALSE
  OBVIOUS
<1>1. T \subseteq Nat
  OBVIOUS
<1>2. PICK k \in T : \A l \in T : ~(<<l, k>> \in R)
  <2>1. IsWellFoundedOn(R, Nat)
    BY NatLessThanWellFounded
  <2> HIDE DEF T, R
  <2> QED BY <1>1, <2>1, WFMin
<1>3. \A l \in T : k <= l
  <2> SUFFICES ASSUME NEW l \in T, ~(k <= l) PROVE FALSE
    OBVIOUS
  <2>1. l \in Nat /\ k \in Nat /\ l < k
    BY <1>1
  <2>2. <<l, k>> \in R
    BY <2>1 DEF OpToRel
  <2> QED BY <1>2, <2>2
<1>4. k \in Nat /\ k # m /\ k - 1 \in m .. (N - 1) /\ k - 1 \notin T
  BY <1>3
<1> QED BY <1>4

\* A list that is not empty, its last element and the list before it.
LEMMA Split ==
    ASSUME NEW T, NEW list \in Seq(T), list # <<>>
    PROVE  /\ Front(list) \in Seq(T) /\ Len(Front(list)) = Len(list) - 1
           /\ Len(list) \in 1 .. Len(list) /\ Last(list) \in T
           /\ \A k \in 1 .. (Len(list) - 1) : Front(list)[k] = list[k]
           /\ list = Append(Front(list), Last(list))
<1> DEFINE n == Len(list)
<1>1. n \in Nat \ {0} /\ \A k \in 1 .. n : list[k] \in T
  BY EmptySeq, ElementOfSeq
<1>2. Last(list) \in T /\ n \in 1 .. n
  BY <1>1 DEF Last
<1>3. /\ Front(list) \in Seq(T) /\ Len(Front(list)) = n - 1
      /\ \A k \in 1 .. (n - 1) : Front(list)[k] = list[k]
  <2> DEFINE s == SubSeq(list, 1, n - 1)
  <2>1. /\ s \in Seq(T) /\ Len(s) = IF 1 <= n - 1 THEN n - 1 - 1 + 1 ELSE 0
        /\ \A i \in 1 .. (n - 1 - 1 + 1) : s[i] = list[1 + i - 1]
    BY <1>1, SubSeqProperties
  <2> HIDE DEF s, n
  <2>2. Len(s) = n - 1 /\ 1 .. (n - 1 - 1 + 1) = 1 .. (n - 1) /\ \A i \in 1 .. (n - 1) : 1 + i - 1 = i
    BY <1>1, <2>1
  <2>3. s \in Seq(T) /\ Len(s) = n - 1 /\ \A k \in 1 .. (n - 1) : s[k] = list[k]
    BY <2>1, <2>2
  <2> QED BY <2>3 DEF s, Front, n
<1>4. list = Append(Front(list), Last(list))
  <2> DEFINE s == Front(list)
             l == Last(list)
  <2>1. s \in Seq(T) /\ l \in T /\ l = list[n] /\ Len(s) = n - 1
    BY <1>2, <1>3 DEF Last
  <2> HIDE DEF s, l
  <2>2. /\ Append(s, l) \in Seq(T) /\ Len(Append(s, l)) = Len(s) + 1
        /\ \A k \in 1 .. Len(s) : Append(s, l)[k] = s[k]
        /\ Append(s, l)[Len(s) + 1] = l
    BY <2>1, Appended
  <2>3. Len(Append(s, l)) = n
    BY <1>1, <2>1, <2>2
  <2>4. \A k \in 1 .. n : Append(s, l)[k] = list[k]
    <3> TAKE k \in 1 .. n
    <3>1. CASE k = n
      BY <1>1, <2>1, <2>2, <3>1
    <3>2. CASE k # n
      <4>1. k \in 1 .. (n - 1)
        BY <1>1, <3>2
      <4> QED BY <1>3, <2>1, <2>2, <4>1 DEF s
    <3> QED BY <3>1, <3>2
  <2>5. Append(s, l) = list
    <3> DEFINE r == Append(s, l)
    <3>1. r \in Seq(T) /\ Len(list) = Len(r) /\ \A i \in 1 .. Len(list) : list[i] = r[i]
      BY <2>2, <2>3, <2>4
    <3> HIDE DEF r
    <3>2. list = r
      BY <3>1, SeqEqual
    <3> QED BY <3>2 DEF r
  <2> QED BY <2>5 DEF s, l
<1> QED BY <1>2, <1>3, <1>4

\* The list before the last element, where that is known.
LEMMA SplitAppended ==
    ASSUME NEW T, NEW list \in Seq(T), NEW e \in T
    PROVE  /\ Append(list, e) \in Seq(T) /\ Append(list, e) # <<>>
           /\ Front(Append(list, e)) = list /\ Last(Append(list, e)) = e
<1> DEFINE r == Append(list, e)
<1>1. /\ r \in Seq(T) /\ Len(r) = Len(list) + 1 /\ r # <<>> /\ Len(list) \in Nat
      /\ \A k \in 1 .. Len(list) : r[k] = list[k]
      /\ r[Len(list) + 1] = e
  BY Appended
<1> HIDE DEF r
<1>2. Last(r) = e
  BY <1>1 DEF Last
<1>3. /\ Front(r) \in Seq(T) /\ Len(Front(r)) = Len(r) - 1
      /\ \A k \in 1 .. (Len(r) - 1) : Front(r)[k] = r[k]
  BY <1>1, Split
<1>4. Front(r) = list
  <2> DEFINE f == Front(r)
  <2>1. f \in Seq(T) /\ Len(f) = Len(list) /\ \A k \in 1 .. Len(f) : f[k] = list[k]
    BY <1>1, <1>3
  <2> HIDE DEF f
  <2>2. f = list
    BY <2>1, SeqEqual
  <2> QED BY <2>2 DEF f
<1> QED BY <1>1, <1>2, <1>4 DEF r

\* A list whose last element is replaced.
LEMMA SplitReplaced ==
    ASSUME NEW T, NEW list \in Seq(T), list # <<>>, NEW e \in T
    PROVE  [list EXCEPT ![Len(list)] = e] = Append(Front(list), e)
<1> DEFINE r == [list EXCEPT ![Len(list)] = e]
           n == Len(list)
<1>1. /\ r \in Seq(T) /\ Len(r) = n /\ r # <<>>
      /\ \A k \in 1 .. (n - 1) : r[k] = list[k]
      /\ r[n] = e
  BY Replaced
<1>2. /\ Front(list) \in Seq(T) /\ Len(Front(list)) = n - 1
      /\ \A k \in 1 .. (n - 1) : Front(list)[k] = list[k]
      /\ n \in Nat \ {0}
  BY Split, EmptySeq
<1> HIDE DEF r
<1>3. /\ Front(r) \in Seq(T) /\ Len(Front(r)) = n - 1
      /\ \A k \in 1 .. (n - 1) : Front(r)[k] = r[k]
      /\ r = Append(Front(r), Last(r)) /\ Last(r) = e
  BY <1>1, Split DEF Last
<1>4. Front(r) = Front(list)
  <2> DEFINE f == Front(r)
             g == Front(list)
  <2>1. f \in Seq(T) /\ g \in Seq(T) /\ Len(f) = Len(g) /\ \A k \in 1 .. Len(f) : f[k] = g[k]
    BY <1>1, <1>2, <1>3
  <2> HIDE DEF f, g
  <2>2. f = g
    BY <2>1, SeqEqual
  <2> QED BY <2>2 DEF f, g
<1> QED BY <1>3, <1>4 DEF r

\* A function on the first numbers is a list.
LEMMA FunctionIsList ==
    ASSUME NEW L, NEW n \in Nat, NEW r \in [1 .. n -> L]
    PROVE  r \in Seq(L) /\ Len(r) = n /\ DOMAIN r = 1 .. n
OBVIOUS

\* The sums of the first lists of a list of lists.
Sums(f, r, n) == f[1] = r[1] /\ \A i \in 1 .. (n - 1) : f[i + 1] = f[i] \o r[i + 1]

\* FlattenSeq is the last of these sums.
LEMMA FlatIs ==
    ASSUME NEW V, NEW r \in Seq(Seq(V)), r # <<>>
    PROVE  \E f : f \in [1 .. Len(r) -> Seq(V)] /\ Sums(f, r, Len(r)) /\ FlattenSeq(r) = f[Len(r)]
<1> DEFINE N == Len(r)
           L == Seq(V)
           Good == {n \in Nat : \E f \in [1 .. n -> L] : Sums(f, r, n)}
           Eq(f) == f = [i \in 1 .. N |-> IF i = 1 THEN r[i] ELSE f[i - 1] \o r[i]]
<1>1. N \in Nat /\ N >= 1 /\ \A i \in 1 .. N : r[i] \in L
  BY EmptySeq, ElementOfSeq
<1>2. 1 \in Good
  <2> DEFINE f == [i \in 1 .. 1 |-> r[1]]
  <2>1. f \in [1 .. 1 -> L] /\ Sums(f, r, 1)
    BY <1>1 DEF Sums
  <2> QED BY <2>1
<1>3. ASSUME NEW n \in 1 .. (N - 1), n \in Good PROVE n + 1 \in Good
  <2>1. PICK f \in [1 .. n -> L] : Sums(f, r, n)
    BY <1>3
  <2> DEFINE last == f[n] \o r[n + 1]
             m == n + 1
             h == [k \in 1 .. m |-> IF k = m THEN last ELSE f[k]]
  <2>2. last \in L
    <3>1. f[n] \in L /\ r[n + 1] \in L
      BY <1>1
    <3> QED BY <3>1, ConcatProperties
  <2>3. h \in [1 .. m -> L] /\ h[m] = last /\ \A k \in 1 .. n : h[k] = f[k]
    <3> HIDE DEF last, L
    <3> QED BY <2>2
  <2>4. n \in 1 .. n /\ 1 \in 1 .. n /\ m - 1 = n /\ m \in Nat
    OBVIOUS
  <2> HIDE DEF h, m
  <2>5. ASSUME NEW k \in 1 .. n PROVE h[k + 1] = h[k] \o r[k + 1]
    <3>1. CASE k = n
      BY <2>3, <2>4, <3>1 DEF m
    <3>2. CASE k # n
      <4>1. k \in 1 .. (n - 1) /\ k + 1 \in 1 .. n
        BY <3>2
      <4>2. f[k + 1] = f[k] \o r[k + 1]
        BY <2>1, <4>1 DEF Sums
      <4> QED BY <2>3, <4>1, <4>2
    <3> QED BY <3>1, <3>2
  <2>6. h[1] = r[1]
    BY <2>1, <2>3, <2>4 DEF Sums
  <2>7. Sums(h, r, m)
    BY <2>4, <2>5, <2>6 DEF Sums
  <2>8. m \in Good
    BY <2>3, <2>4, <2>7
  <2> QED BY <2>8 DEF m
<1>4. N \in Good
  <2> HIDE DEF Good
  <2>1. \A n \in 1 .. N : n \in Good
    BY <1>1, <1>2, <1>3, FromTo
  <2> QED BY <1>1, <2>1
<1>5. PICK f \in [1 .. N -> L] : Sums(f, r, N)
  BY <1>4
<1>6. Eq(f)
  <2> DEFINE h == [i \in 1 .. N |-> IF i = 1 THEN r[i] ELSE f[i - 1] \o r[i]]
  <2>1. ASSUME NEW i \in 1 .. N PROVE h[i] = f[i]
    <3>1. CASE i = 1
      BY <1>5, <3>1 DEF Sums
    <3>2. CASE i # 1
      <4>1. i - 1 \in 1 .. (N - 1) /\ (i - 1) + 1 = i
        BY <1>1, <3>2
      <4>2. f[(i - 1) + 1] = f[i - 1] \o r[(i - 1) + 1]
        <5> HIDE DEF N
        <5> QED BY <1>5, <4>1 DEF Sums
      <4> QED BY <3>2, <4>1, <4>2
    <3> QED BY <3>1, <3>2
  <2> QED BY <2>1
<1>7. Eq(CHOOSE g : Eq(g))
  <2> HIDE DEF Eq
  <2> QED BY <1>6
<1> DEFINE c == CHOOSE g : Eq(g)
<1>8. FlattenSeq(r) = c[N]
  BY <1>1 DEF FlattenSeq
<1> HIDE DEF c
<1>9. c = [i \in 1 .. N |-> IF i = 1 THEN r[i] ELSE c[i - 1] \o r[i]]
  BY <1>7 DEF c
<1>10. DOMAIN c = 1 .. N /\ c = [i \in 1 .. N |-> c[i]]
  BY <1>9
<1>11. Sums(c, r, N)
  <2> DEFINE d == [i \in 1 .. N |-> IF i = 1 THEN r[i] ELSE c[i - 1] \o r[i]]
  <2>1. d[1] = r[1]
    BY <1>1
  <2>2. ASSUME NEW i \in 1 .. (N - 1) PROVE d[i + 1] = c[i] \o r[i + 1]
    <3>1. i + 1 \in 1 .. N /\ i + 1 # 1 /\ (i + 1) - 1 = i
      BY <1>1
    <3> DEFINE j == i + 1
    <3> HIDE DEF j, N
    <3>2. d[j] = IF j = 1 THEN r[j] ELSE c[j - 1] \o r[j]
      BY <3>1 DEF j
    <3> QED BY <3>1, <3>2 DEF j
  <2>3. c = d
    BY <1>9
  <2> HIDE DEF d
  <2> QED BY <2>1, <2>2, <2>3 DEF Sums
<1>12. \A i \in 1 .. N : c[i] \in L
  <2> DEFINE Q == {i \in 1 .. N : c[i] \in L}
  <2>1. 1 \in Q
    BY <1>1, <1>11 DEF Sums
  <2>2. ASSUME NEW n \in 1 .. (N - 1), n \in Q PROVE n + 1 \in Q
    <3>1. n + 1 \in 1 .. N /\ c[n] \in L
      BY <1>1, <2>2
    <3>2. c[n + 1] = c[n] \o r[n + 1]
      BY <1>11 DEF Sums
    <3>3. r[n + 1] \in L
      BY <1>1, <3>1
    <3>4. c[n] \o r[n + 1] \in L
      BY <3>1, <3>3, ConcatProperties
    <3> QED BY <3>1, <3>2, <3>4
  <2> HIDE DEF Q
  <2>3. \A n \in 1 .. N : n \in Q
    BY <1>1, <2>1, <2>2, FromTo
  <2> QED BY <2>3 DEF Q
<1>13. c \in [1 .. N -> L]
  <2> HIDE DEF L
  <2> QED BY <1>10, <1>12
<1> QED BY <1>8, <1>11, <1>13

\* One more list is put after the others.
LEMMA FlatGrows ==
    ASSUME NEW V, NEW r \in Seq(Seq(V)), NEW e \in Seq(V)
    PROVE  /\ FlattenSeq(r) \in Seq(V) /\ FlattenSeq(<<>>) = <<>>
           /\ FlattenSeq(Append(r, e)) = FlattenSeq(r) \o e
<1> DEFINE L == Seq(V)
           N == Len(r)
           q == Append(r, e)
<1>1. FlattenSeq(<<>>) = <<>>
  BY EmptySeq DEF FlattenSeq
<1>2. /\ q \in Seq(L) /\ Len(q) = N + 1 /\ q # <<>> /\ N \in Nat
      /\ \A k \in 1 .. N : q[k] = r[k]
      /\ q[N + 1] = e
  <2> HIDE DEF L
  <2> QED BY Appended DEF L
<1> HIDE DEF q
<1>3. PICK g : g \in [1 .. Len(q) -> L] /\ Sums(g, q, Len(q)) /\ FlattenSeq(q) = g[Len(q)]
  BY <1>2, FlatIs
<1>4. g[1] = q[1] /\ \A i \in 1 .. N : g[i + 1] = g[i] \o q[i + 1]
  <2>1. 1 .. (Len(q) - 1) = 1 .. N
    BY <1>2
  <2> QED BY <1>3, <2>1 DEF Sums
<1>5. CASE r = <<>>
  <2>1. N = 0
    BY <1>5
  <2>2. FlattenSeq(q) = e
    BY <1>2, <1>3, <1>4, <2>1
  <2>3. <<>> \o e = e /\ <<>> \in L
    BY ConcatEmptySeq, EmptySeq
  <2> QED BY <1>1, <1>5, <2>2, <2>3 DEF q
<1>6. CASE r # <<>>
  <2>1. PICK f : f \in [1 .. N -> L] /\ Sums(f, r, N) /\ FlattenSeq(r) = f[N]
    BY <1>6, FlatIs
  <2>2. N >= 1 /\ N \in 1 .. N /\ 1 \in 1 .. N
    BY <1>6, EmptySeq
  <2>3. f[1] = r[1] /\ \A i \in 1 .. (N - 1) : f[i + 1] = f[i] \o r[i + 1]
    BY <2>1 DEF Sums
  <2>4. \A i \in 1 .. N : g[i] = f[i]
    <3> DEFINE Q == {i \in 1 .. N : g[i] = f[i]}
    <3>1. 1 \in Q
      BY <1>2, <1>4, <2>2, <2>3
    <3>2. ASSUME NEW n \in 1 .. (N - 1), n \in Q PROVE n + 1 \in Q
      <4>1. n + 1 \in 1 .. N /\ n \in 1 .. N /\ g[n] = f[n]
        BY <1>2, <3>2
      <4>2. g[n + 1] = g[n] \o q[n + 1]
        BY <1>4, <4>1
      <4>3. f[n + 1] = f[n] \o r[n + 1]
        BY <2>3
      <4>4. q[n + 1] = r[n + 1]
        BY <1>2, <4>1
      <4> QED BY <4>1, <4>2, <4>3, <4>4
    <3> HIDE DEF Q
    <3>3. \A n \in 1 .. N : n \in Q
      BY <1>2, <2>2, <3>1, <3>2, FromTo
    <3> QED BY <3>3 DEF Q
  <2>5. g[N + 1] = g[N] \o q[N + 1]
    BY <1>4, <2>2
  <2>6. g[N] = f[N] /\ f[N] \in L
    BY <2>1, <2>2, <2>4
  <2> QED BY <1>1, <1>2, <1>3, <2>1, <2>5, <2>6 DEF q
<1> QED BY <1>5, <1>6

\* The words of the elements of a list, one list of words after the other.
WordsBy(w, list) == FlattenSeq([k \in DOMAIN list |-> w[list[k]]])

\* What one more element does to the words of a list.
Grown(w, list, T, V) ==
    /\ WordsBy(w, list) \in Seq(V) /\ WordsBy(w, <<>>) = <<>>
    /\ \A e \in T : WordsBy(w, Append(list, e)) = WordsBy(w, list) \o w[e]

\* One more element has its words at the end.
LEMMA WordsByGrows ==
    ASSUME NEW T, NEW V, NEW w \in [T -> Seq(V)], NEW list \in Seq(T)
    PROVE  Grown(w, list, T, V)
<1> DEFINE r == [k \in DOMAIN list |-> w[list[k]]]
           n == Len(list)
           L == Seq(V)
<1>1. n \in Nat /\ DOMAIN list = 1 .. n /\ \A k \in 1 .. n : list[k] \in T
  BY LenProperties, ElementOfSeq
<1>2. r \in Seq(L) /\ Len(r) = n
  <2>1. r \in [1 .. n -> L]
    <3> HIDE DEF L
    <3>1. \A k \in 1 .. n : w[list[k]] \in L
      BY <1>1 DEF L
    <3> QED BY <1>1, <3>1
  <2> HIDE DEF r, L, n
  <2> QED BY <1>1, <2>1, FunctionIsList
<1>3. WordsBy(w, <<>>) = <<>>
  <2>1. [k \in DOMAIN <<>> |-> w[<<>>[k]]] = <<>>
    OBVIOUS
  <2>2. FlattenSeq(<<>>) = <<>>
    BY EmptySeq DEF FlattenSeq
  <2> QED BY <2>1, <2>2 DEF WordsBy
<1>4. <<>> \in L
  BY EmptySeq
<1>5. ASSUME NEW e \in T PROVE WordsBy(w, Append(list, e)) = WordsBy(w, list) \o w[e]
  <2> DEFINE q == Append(list, e)
             s == [k \in DOMAIN q |-> w[q[k]]]
             x == w[e]
  <2>1. /\ q \in Seq(T) /\ Len(q) = n + 1 /\ \A k \in 1 .. n : q[k] = list[k]
        /\ q[n + 1] = e /\ DOMAIN q = 1 .. (n + 1)
    BY <1>1, Appended
  <2> HIDE DEF q
  <2>2. x \in L
    OBVIOUS
  <2>3. s \in Seq(L) /\ Len(s) = n + 1
    <3>1. s \in [1 .. (n + 1) -> L]
      <4> HIDE DEF L
      <4>1. \A k \in 1 .. (n + 1) : q[k] \in T
        BY <2>1, ElementOfSeq
      <4>2. \A k \in 1 .. (n + 1) : w[q[k]] \in L
        BY <4>1 DEF L
      <4> QED BY <2>1, <4>2
    <3>2. n + 1 \in Nat
      BY <1>1
    <3> DEFINE m == n + 1
    <3> HIDE DEF s, L, m
    <3>3. s \in Seq(L) /\ Len(s) = m
      BY <3>1, <3>2, FunctionIsList DEF m
    <3> QED BY <3>3 DEF m
  <2>4. /\ Append(r, x) \in Seq(L) /\ Len(Append(r, x)) = n + 1
        /\ \A k \in 1 .. n : Append(r, x)[k] = r[k]
        /\ Append(r, x)[n + 1] = x
    <3> HIDE DEF r, x, L
    <3> QED BY <1>2, <2>2, Appended
  <2>5. \A k \in 1 .. (n + 1) : s[k] = Append(r, x)[k]
    <3> TAKE k \in 1 .. (n + 1)
    <3>1. s[k] = w[q[k]]
      BY <2>1
    <3>2. CASE k = n + 1
      BY <2>1, <2>4, <3>1, <3>2
    <3>3. CASE k # n + 1
      <4>1. k \in 1 .. n
        BY <1>1, <3>3
      <4>2. r[k] = w[list[k]]
        BY <1>1, <4>1
      <4> QED BY <2>1, <2>4, <3>1, <4>1, <4>2
    <3> QED BY <3>2, <3>3
  <2>6. s = Append(r, x)
    <3> DEFINE p == Append(r, x)
    <3>1. s \in Seq(L) /\ p \in Seq(L) /\ Len(s) = Len(p) /\ \A k \in 1 .. Len(s) : s[k] = p[k]
      BY <2>3, <2>4, <2>5
    <3> HIDE DEF s, p, L
    <3>2. s = p
      BY <3>1, SeqEqual
    <3> QED BY <3>2 DEF p
  <2> HIDE DEF r, s, x
  <2>7. FlattenSeq(Append(r, x)) = FlattenSeq(r) \o x
    BY <1>2, <2>2, FlatGrows
  <2>8. WordsBy(w, q) = FlattenSeq(s) /\ WordsBy(w, list) = FlattenSeq(r)
    BY DEF WordsBy, r, s
  <2> QED BY <2>6, <2>7, <2>8 DEF q, x
<1>6. WordsBy(w, list) \in L
  <2> HIDE DEF r
  <2>1. FlattenSeq(r) \in Seq(V)
    BY <1>2, <1>4, FlatGrows
  <2> QED BY <2>1 DEF WordsBy, r
<1> QED BY <1>3, <1>5, <1>6 DEF Grown

-----------------------------------------------------------------------------
\* The words of what is made.

Vocabulary == Texts \union BuiltIn \union {"ref", "none", "?", "["}
Speech == Seq(Vocabulary)

\* One word is a list of words, and so are two.
LEMMA OneWord ==
    /\ <<>> \in Speech
    /\ \A x \in Vocabulary : <<x>> \in Speech
    /\ \A x, y \in Vocabulary : <<x, y>> \in Speech
<1> HIDE DEF Vocabulary
<1> QED BY DEF Speech

\* Lists of words one after the other are a list of words.
LEMMA Together ==
    ASSUME NEW a \in Speech, NEW b \in Speech
    PROVE  a \o b \in Speech /\ a \o <<>> = a /\ <<>> \o a = a
<1> HIDE DEF Vocabulary
<1> QED BY ConcatProperties, ConcatEmptySeq DEF Speech

\* How lists of words are put together does not matter.
Associative(q, r, s) == (q \o r) \o s = q \o (r \o s)

\* Three lists of words, put together either way.
LEMMA Regroup ==
    ASSUME NEW q \in Speech, NEW r \in Speech, NEW s \in Speech
    PROVE  Associative(q, r, s)
<1> HIDE DEF Vocabulary
<1> QED BY ConcatAssociative DEF Speech, Associative

\* A part and what is noted, with x after them.
Becomes(part, noted, was, wasNoted, x) == part \o noted = (was \o wasNoted) \o x

\* What comes before the part that changes stays before it.
LEMMA Shift ==
    ASSUME NEW p \in Speech, NEW q \in Speech, NEW r \in Speech, NEW s \in Speech, NEW t \in Speech,
           NEW x \in Speech, Becomes(s, t, q, r, x)
    PROVE  Becomes(p \o s, t, p \o q, r, x)
<1> DEFINE m == q \o r
<1>1. Associative(p, s, t)
  BY Regroup
<1>2. m \in Speech
  BY Together
<1>3. s \o t = m \o x
  BY DEF Becomes
<1>4. Associative(p, q, r)
  BY Regroup
<1> HIDE DEF m
<1>5. Associative(p, m, x)
  BY <1>2, Regroup
<1> QED BY <1>1, <1>3, <1>4, <1>5 DEF Becomes, Associative, m

\* The words of annotations.
LEMMA NotesGrow ==
    ASSUME NEW a \in Seq(NotesRead)
    PROVE  /\ NoteWords(a) \in Speech /\ NoteWords(<<>>) = <<>>
           /\ \A x \in NotesRead : NoteWords(Append(a, x)) = NoteWords(a) \o <<x.name, x.value>>
<1> DEFINE w == [x \in NotesRead |-> <<x.name, x.value>>]
<1>1. w \in [NotesRead -> Speech]
  <2>1. \A x \in NotesRead : x.name \in Vocabulary /\ x.value \in Vocabulary
    BY DEF NotesRead, Vocabulary
  <2>2. \A x \in NotesRead : <<x.name, x.value>> \in Speech
    BY <2>1, OneWord
  <2> QED BY <2>2
<1>2. \A b \in Seq(NotesRead) : NoteWords(b) = WordsBy(w, b)
  <2> TAKE b \in Seq(NotesRead)
  <2>1. \A k \in DOMAIN b : b[k] \in NotesRead
    BY LenProperties, ElementOfSeq
  <2>2. \A k \in DOMAIN b : w[b[k]] = <<b[k].name, b[k].value>>
    BY <2>1
  <2>3. [k \in DOMAIN b |-> w[b[k]]] = [k \in DOMAIN b |-> <<b[k].name, b[k].value>>]
    BY <2>2
  <2> QED BY <2>3 DEF NoteWords, WordsBy
<1>3. \A x \in NotesRead : w[x] = <<x.name, x.value>>
  OBVIOUS
<1>4. <<>> \in Seq(NotesRead) /\ \A x \in NotesRead : Append(a, x) \in Seq(NotesRead)
  BY EmptySeq, Appended
<1> HIDE DEF w
<1>5. /\ WordsBy(w, a) \in Speech /\ WordsBy(w, <<>>) = <<>>
      /\ \A x \in NotesRead : WordsBy(w, Append(a, x)) = WordsBy(w, a) \o w[x]
  <2> HIDE DEF NotesRead, Vocabulary
  <2>1. w \in [NotesRead -> Seq(Vocabulary)]
    BY <1>1 DEF Speech
  <2>2. Grown(w, a, NotesRead, Vocabulary)
    BY <2>1, WordsByGrows
  <2> QED BY <2>2 DEF Grown, Speech
<1> QED BY <1>2, <1>3, <1>4, <1>5

\* The words of a type, a field and a symbol.
LEMMA PartsSpeak ==
    /\ \A t \in TypesRead : TypeWords(t) \in Speech
    /\ \A f \in FieldsRead : FieldWords(f) \in Speech
    /\ \A s \in SymbolsRead : SymbolWords(s) \in Speech
<1>1. ASSUME NEW t \in TypesRead PROVE TypeWords(t) \in Speech
  <2>1. t.a \in Seq(NotesRead) /\ t.name \in Vocabulary /\ t.tag \in Vocabulary
    BY DEF TypesRead, Vocabulary
  <2> DEFINE x == IF t.tag = "ref" THEN t.name ELSE t.tag
             y == IF t.seq THEN <<"[">> ELSE <<>>
  <2>2. NoteWords(t.a) \in Speech /\ <<x>> \in Speech /\ y \in Speech
    <3>1. x \in Vocabulary /\ "[" \in Vocabulary
      BY <2>1 DEF Vocabulary
    <3> HIDE DEF x
    <3> QED BY <2>1, <3>1, NotesGrow, OneWord
  <2>3. TypeWords(t) = (NoteWords(t.a) \o <<x>>) \o y
    BY DEF TypeWords
  <2> HIDE DEF x, y
  <2> QED BY <2>2, <2>3, Together
<1>2. ASSUME NEW f \in FieldsRead PROVE FieldWords(f) \in Speech
  <2>1. f.a \in Seq(NotesRead) /\ f.name \in Vocabulary /\ f.type \in TypesRead
    BY DEF FieldsRead, Vocabulary
  <2> DEFINE y == IF f.opt THEN <<"?">> ELSE <<>>
  <2>2. /\ NoteWords(f.a) \in Speech /\ <<f.name>> \in Speech /\ y \in Speech
        /\ TypeWords(f.type) \in Speech
    <3>1. "?" \in Vocabulary
      BY DEF Vocabulary
    <3> QED BY <1>1, <2>1, <3>1, NotesGrow, OneWord
  <2>3. FieldWords(f) = ((TypeWords(f.type) \o NoteWords(f.a)) \o <<f.name>>) \o y
    BY DEF FieldWords
  <2> HIDE DEF y
  <2>4. TypeWords(f.type) \o NoteWords(f.a) \in Speech
    BY <2>2, Together
  <2>5. (TypeWords(f.type) \o NoteWords(f.a)) \o <<f.name>> \in Speech
    BY <2>2, <2>4, Together
  <2> QED BY <2>2, <2>3, <2>5, Together
<1>3. ASSUME NEW s \in SymbolsRead PROVE SymbolWords(s) \in Speech
  <2>1. s.a \in Seq(NotesRead) /\ s.name \in Vocabulary
    BY DEF SymbolsRead, Vocabulary
  <2>2. NoteWords(s.a) \in Speech /\ <<s.name>> \in Speech
    BY <2>1, NotesGrow, OneWord
  <2> QED BY <2>2, Together DEF SymbolWords
<1> QED BY <1>1, <1>2, <1>3

\* The words of the fields of a group.
LEMMA FieldsGrow ==
    ASSUME NEW l \in Seq(FieldsRead)
    PROVE  /\ FieldsWords(l) \in Speech /\ FieldsWords(<<>>) = <<>>
           /\ \A x \in FieldsRead : FieldsWords(Append(l, x)) = FieldsWords(l) \o FieldWords(x)
<1> DEFINE w == [x \in FieldsRead |-> FieldWords(x)]
<1>1. w \in [FieldsRead -> Speech]
  BY PartsSpeak
<1>2. \A b \in Seq(FieldsRead) : FieldsWords(b) = WordsBy(w, b)
  <2> TAKE b \in Seq(FieldsRead)
  <2>1. \A k \in DOMAIN b : b[k] \in FieldsRead
    BY LenProperties, ElementOfSeq
  <2>2. \A k \in DOMAIN b : w[b[k]] = FieldWords(b[k])
    BY <2>1
  <2>3. [k \in DOMAIN b |-> w[b[k]]] = [k \in DOMAIN b |-> FieldWords(b[k])]
    BY <2>2
  <2> QED BY <2>3 DEF FieldsWords, WordsBy
<1>3. \A x \in FieldsRead : w[x] = FieldWords(x)
  OBVIOUS
<1>4. <<>> \in Seq(FieldsRead) /\ \A x \in FieldsRead : Append(l, x) \in Seq(FieldsRead)
  BY EmptySeq, Appended
<1> HIDE DEF w
<1>5. /\ WordsBy(w, l) \in Speech /\ WordsBy(w, <<>>) = <<>>
      /\ \A x \in FieldsRead : WordsBy(w, Append(l, x)) = WordsBy(w, l) \o w[x]
  <2> HIDE DEF FieldsRead, Vocabulary
  <2>1. w \in [FieldsRead -> Seq(Vocabulary)]
    BY <1>1 DEF Speech
  <2>2. Grown(w, l, FieldsRead, Vocabulary)
    BY <2>1, WordsByGrows
  <2> QED BY <2>2 DEF Grown, Speech
<1> QED BY <1>2, <1>3, <1>4, <1>5

\* The words of the symbols of an enum.
LEMMA SymbolsGrow ==
    ASSUME NEW l \in Seq(SymbolsRead)
    PROVE  /\ SymbolsWords(l) \in Speech /\ SymbolsWords(<<>>) = <<>>
           /\ \A x \in SymbolsRead : SymbolsWords(Append(l, x)) = SymbolsWords(l) \o SymbolWords(x)
<1> DEFINE w == [x \in SymbolsRead |-> SymbolWords(x)]
<1>1. w \in [SymbolsRead -> Speech]
  BY PartsSpeak
<1>2. \A b \in Seq(SymbolsRead) : SymbolsWords(b) = WordsBy(w, b)
  <2> TAKE b \in Seq(SymbolsRead)
  <2>1. \A k \in DOMAIN b : b[k] \in SymbolsRead
    BY LenProperties, ElementOfSeq
  <2>2. \A k \in DOMAIN b : w[b[k]] = SymbolWords(b[k])
    BY <2>1
  <2>3. [k \in DOMAIN b |-> w[b[k]]] = [k \in DOMAIN b |-> SymbolWords(b[k])]
    BY <2>2
  <2> QED BY <2>3 DEF SymbolsWords, WordsBy
<1>3. \A x \in SymbolsRead : w[x] = SymbolWords(x)
  OBVIOUS
<1>4. <<>> \in Seq(SymbolsRead) /\ \A x \in SymbolsRead : Append(l, x) \in Seq(SymbolsRead)
  BY EmptySeq, Appended
<1> HIDE DEF w
<1>5. /\ WordsBy(w, l) \in Speech /\ WordsBy(w, <<>>) = <<>>
      /\ \A x \in SymbolsRead : WordsBy(w, Append(l, x)) = WordsBy(w, l) \o w[x]
  <2> HIDE DEF SymbolsRead, Vocabulary
  <2>1. w \in [SymbolsRead -> Seq(Vocabulary)]
    BY <1>1 DEF Speech
  <2>2. Grown(w, l, SymbolsRead, Vocabulary)
    BY <2>1, WordsByGrows
  <2> QED BY <2>2 DEF Grown, Speech
<1> QED BY <1>2, <1>3, <1>4, <1>5

\* The words a definition begins with.
OpeningWords(d) == NoteWords(d.a) \o <<d.name>>

\* The words of a definition, by its kind.
LEMMA DefSpeaks ==
    ASSUME NEW d \in DefsRead
    PROVE  /\ DefWords(d) \in Speech /\ OpeningWords(d) \in Speech /\ SuperWords(d) \in Speech
           /\ d.kind = "group" => DefWords(d) = OpeningWords(d) \o (SuperWords(d) \o FieldsWords(d.fields))
           /\ d.kind = "typedef" => DefWords(d) = OpeningWords(d) \o TypeWords(d.type)
           /\ d.kind = "enum" => DefWords(d) = OpeningWords(d) \o SymbolsWords(d.symbols)
<1>1. /\ d.a \in Seq(NotesRead) /\ d.name \in Vocabulary /\ d.super \in Vocabulary
      /\ d.fields \in Seq(FieldsRead) /\ d.symbols \in Seq(SymbolsRead) /\ d.type \in TypesRead
      /\ d.kind \in {"group", "typedef", "enum"}
  <2>1. d.name \in Texts /\ d.super \in Texts /\ Texts \subseteq Vocabulary
    <3> HIDE DEF Texts
    <3> QED BY DEF DefsRead, Vocabulary
  <2> HIDE DEF Texts, Vocabulary
  <2> QED BY <2>1 DEF DefsRead
<1>2. OpeningWords(d) \in Speech
  BY <1>1, NotesGrow, OneWord, Together DEF OpeningWords
<1>3. SuperWords(d) \in Speech
  BY <1>1, OneWord DEF SuperWords
<1>4. SuperWords(d) \o FieldsWords(d.fields) \in Speech
  BY <1>1, <1>3, FieldsGrow, Together
<1>5. TypeWords(d.type) \in Speech /\ SymbolsWords(d.symbols) \in Speech
  BY <1>1, PartsSpeak, SymbolsGrow
<1>6. d.kind = "group" => DefWords(d) = OpeningWords(d) \o (SuperWords(d) \o FieldsWords(d.fields))
  BY DEF DefWords, OpeningWords
<1>7. d.kind = "typedef" => DefWords(d) = OpeningWords(d) \o TypeWords(d.type)
  BY DEF DefWords, OpeningWords
<1>8. d.kind = "enum" => DefWords(d) = OpeningWords(d) \o SymbolsWords(d.symbols)
  BY DEF DefWords, OpeningWords
<1> QED BY <1>1, <1>2, <1>3, <1>4, <1>5, <1>6, <1>7, <1>8, Together

\* The words of the definitions of a namespace.
LEMMA SchemaGrows ==
    ASSUME NEW l \in Seq(DefsRead)
    PROVE  /\ SchemaWords(l) \in Speech /\ SchemaWords(<<>>) = <<>>
           /\ \A x \in DefsRead : SchemaWords(Append(l, x)) = SchemaWords(l) \o DefWords(x)
<1> DEFINE w == [x \in DefsRead |-> DefWords(x)]
<1>1. w \in [DefsRead -> Speech]
  BY DefSpeaks
<1>2. \A b \in Seq(DefsRead) : SchemaWords(b) = WordsBy(w, b)
  <2> TAKE b \in Seq(DefsRead)
  <2>1. \A k \in DOMAIN b : b[k] \in DefsRead
    BY LenProperties, ElementOfSeq
  <2>2. \A k \in DOMAIN b : w[b[k]] = DefWords(b[k])
    BY <2>1
  <2>3. [k \in DOMAIN b |-> w[b[k]]] = [k \in DOMAIN b |-> DefWords(b[k])]
    BY <2>2
  <2> QED BY <2>3 DEF SchemaWords, WordsBy
<1>3. \A x \in DefsRead : w[x] = DefWords(x)
  OBVIOUS
<1>4. <<>> \in Seq(DefsRead) /\ \A x \in DefsRead : Append(l, x) \in Seq(DefsRead)
  BY EmptySeq, Appended
<1> HIDE DEF w
<1>5. /\ WordsBy(w, l) \in Speech /\ WordsBy(w, <<>>) = <<>>
      /\ \A x \in DefsRead : WordsBy(w, Append(l, x)) = WordsBy(w, l) \o w[x]
  <2> HIDE DEF DefsRead, Vocabulary
  <2>1. w \in [DefsRead -> Seq(Vocabulary)]
    BY <1>1 DEF Speech
  <2>2. Grown(w, l, DefsRead, Vocabulary)
    BY <2>1, WordsByGrows
  <2> QED BY <2>2 DEF Grown, Speech
<1> QED BY <1>2, <1>3, <1>4, <1>5

\* The word of a token.
LEMMA TokenSpeaks ==
    ASSUME NEW t \in Tokens
    PROVE  /\ TokenWords(t) \in Speech
           /\ IsWord(t) => Word(t) \in Vocabulary
<1>1. t.name \in Texts
  BY DEF Texts
<1>2. IsWord(t) => Word(t) \in Vocabulary
  <2> HIDE DEF Texts
  <2> QED BY <1>1 DEF IsWord, Word, Vocabulary
<1> QED BY <1>2, OneWord DEF TokenWords

\* The words of the tokens read.
LEMMA ReadingGrows ==
    ASSUME NEW l \in Seq(Tokens)
    PROVE  /\ WordsOf(l) \in Speech /\ WordsOf(<<>>) = <<>>
           /\ \A x \in Tokens : WordsOf(Append(l, x)) = WordsOf(l) \o TokenWords(x)
<1> DEFINE w == [x \in Tokens |-> TokenWords(x)]
<1>1. w \in [Tokens -> Speech]
  BY TokenSpeaks
<1>2. \A b \in Seq(Tokens) : WordsOf(b) = WordsBy(w, b)
  <2> TAKE b \in Seq(Tokens)
  <2>1. \A k \in DOMAIN b : b[k] \in Tokens
    BY LenProperties, ElementOfSeq
  <2>2. \A k \in DOMAIN b : w[b[k]] = TokenWords(b[k])
    BY <2>1
  <2>3. [k \in DOMAIN b |-> w[b[k]]] = [k \in DOMAIN b |-> TokenWords(b[k])]
    BY <2>2
  <2> QED BY <2>3 DEF WordsOf, WordsBy
<1>3. \A x \in Tokens : w[x] = TokenWords(x)
  OBVIOUS
<1>4. <<>> \in Seq(Tokens) /\ \A x \in Tokens : Append(l, x) \in Seq(Tokens)
  BY EmptySeq, Appended
<1> HIDE DEF w
<1>5. /\ WordsBy(w, l) \in Speech /\ WordsBy(w, <<>>) = <<>>
      /\ \A x \in Tokens : WordsBy(w, Append(l, x)) = WordsBy(w, l) \o w[x]
  <2> HIDE DEF Tokens, Vocabulary
  <2>1. w \in [Tokens -> Seq(Vocabulary)]
    BY <1>1 DEF Speech
  <2>2. Grown(w, l, Tokens, Vocabulary)
    BY <2>1, WordsByGrows
  <2> QED BY <2>2 DEF Grown, Speech
<1> QED BY <1>2, <1>3, <1>4, <1>5

-----------------------------------------------------------------------------
\* How far the words read are in the lists, by the state of the parser.

\* The tables of the two times are crossed: a schema that has them is not what was written.
NoTimes == \A a \in Alphabets : \A t \in a : t.kind \notin {"milliTime", "nanoTime"}

\* What was read of a plain schema.
PlainUpTo(tokens) ==
    /\ \A k \in DOMAIN tokens : tokens[k].kind # "namespace"
    /\ \A k \in DOMAIN tokens : (tokens[k].kind = "@" /\ k > 1) => tokens[k - 1].kind # "="
    /\ \A k, l \in DOMAIN tokens :
          (/\ k # l /\ k + 1 \in DOMAIN tokens /\ l + 1 \in DOMAIN tokens
           /\ tokens[k].kind = "@" /\ tokens[l].kind = "@")
              => ~Finds(tokens[k + 1].name, tokens[l + 1].name)

\* The tokens that are handled.
Handled == IF pending THEN Front(read) ELSE read

\* The words of the last field and of the last definition, as far as they are made.
FieldPart(stage, f) ==
    CASE stage = "bare" -> <<>>
      [] stage = "typed" -> TypeWords(f.type)
      [] OTHER -> FieldWords(f)
PartWords(stage, d) ==
    IF Open(stage)
    THEN OpeningWords(d)
            \o (SuperWords(d) \o (FieldsWords(Front(d.fields)) \o FieldPart(stage, Last(d.fields))))
    ELSE DefWords(d)
MadeWords(stage, defs) ==
    IF Open(stage) THEN SchemaWords(Front(defs)) \o PartWords(stage, Last(defs)) ELSE SchemaWords(defs)

\* The words that are noted for what comes next: annotations and names.
NameNoted == {"DEF_TYPE", "ENUM_OR_TYPEDEF", "ENUM_SINGLETON", "SYMBOL"}
AheadNoted == {"SYMBOL_OR_REF", "TYPEDEF", "ENUM"}
NotedWords(s, a, n, sight) ==
    CASE s \in ValueStates -> NoteWords(Front(a)) \o <<Last(a).name>>
      [] s \in NameNoted -> NoteWords(a) \o <<n>>
      [] s \in AheadNoted -> (NoteWords(a) \o <<n>>) \o <<sight>>
      [] s = "TYPE_RBRACKET" -> <<"[">>
      [] OTHER -> NoteWords(a)

Sight == IF laType = "ref" THEN laName ELSE laType
Made == MadeWords(Stage(state, type), Defs)
Noted == NotedWords(state, annotes, name, Sight)

NotingStates ==
    {"DEF_OR_ANNOTE", "DEF_ANNOTE", "DEF_ANNOTE_VALUE", "DEF_TYPE", "SYMBOL_ANNOTE", "SYMBOL_ANNOTE_VALUE",
     "SYMBOL_NAME", "SYMBOL", "NAME_ANNOTE", "NAME_ANNOTE_VALUE", "FIELD_NAME"} \union NamingStates

LastIs(tokens, kind) == tokens # <<>> /\ Last(tokens).kind = kind

\* Where a plain schema does not lead, and what the last token was.
PathOK ==
    /\ state \notin {"NS", "TYPEDEF_ANNOTE", "TYPEDEF_ANNOTE_VALUE", "TYPE_ANNOTE_VALUE"}
    /\ state \in {"DEF_ANNOTE", "SYMBOL_ANNOTE", "NAME_ANNOTE"} => LastIs(Handled, "@")
    /\ state = "TYPE_ANNOTE" => pending /\ tok.kind = "@"
    /\ state = "ENUM_OR_TYPEDEF" => LastIs(Handled, "=")
    /\ state \in {"SYMBOL_OR_REF", "ENUM"} => laType = "ref"
    /\ state = "START" => spaces = <<>> /\ Handled = <<>>

\* Every annotation that waits was written after an @.
WrittenAt(a, tokens) ==
    \A k \in DOMAIN a : \E l \in DOMAIN tokens :
        l + 1 \in DOMAIN tokens /\ tokens[l].kind = "@" /\ tokens[l + 1].name = a[k].name

NotingOK ==
    /\ laAnnotes = <<>>
    /\ state \notin NotingStates => annotes = <<>>
    /\ state \in ValueStates => annotes # <<>> /\ annote = [list |-> "annotes", index |-> Len(annotes)]
    /\ WrittenAt(annotes, Handled)

\* The last definition is of the kind the state is for, and its parts that come next are
\* not there yet.
Shape(s, t, d) ==
    /\ s \in SymbolStates \union SlashStates \union {"SYMBOL_NEXT"} => d.kind = "enum"
    /\ s \in {"GROUP_ID", "SUPER_OR_FIELD_OR_ANY", "GROUP_SUPER"} =>
          d.kind = "group" /\ d.super = NoName /\ d.fields = <<>>
    /\ s \in {"FIELD_OR_ANY", "FIELD"} \union BareStates \union NameStates \union EndStates => d.kind = "group"
    /\ s \in TailStates => d.kind = IF t = "field" THEN "group" ELSE "typedef"
    /\ s \in BareStates \/ (s \in TailStates /\ t = "field") => ~Last(d.fields).type.seq
    /\ s \in TailStates /\ t # "field" => ~d.type.seq
    /\ s \in BareStates \union NameStates \union {"FIELD_OPTIONAL"} \/ (s \in TailStates /\ t = "field") =>
          ~Last(d.fields).opt

ShapeOK == state \notin AtTop \union NamingStates => Shape(state, type, D)

WordsOK == state # "START" => Made \o Noted = WordsOf(Handled)

TokenOK == pending => read # <<>> /\ tok = Last(read)
WrittenOK == PathOK /\ NotingOK /\ ShapeOK /\ WordsOK

\* The words that are made and noted are the words of the tokens handled.
Written == TokenOK /\ (ok /\ PlainUpTo(read) => WrittenOK)

-----------------------------------------------------------------------------
\* The parts of it.

\* The words of a step: those of its token, if it shifts it.
StepWords == IF pending' THEN <<>> ELSE TokenWords(tok)

\* A step that shifts the token handles it.
LEMMA Handles ==
    ASSUME IInv, TokenOK, pending, UNCHANGED input, pending' \in BOOLEAN
    PROVE  /\ tok \in Tokens /\ Handled \in Seq(Tokens) /\ read = Append(Handled, tok)
           /\ Handled' \in Seq(Tokens) /\ StepWords \in Speech
           /\ Handled' = IF pending' THEN Handled ELSE Append(Handled, tok)
           /\ WordsOf(Handled') = WordsOf(Handled) \o StepWords
<1> DEFINE h == Handled
<1>1. read \in Seq(Tokens) /\ tok \in Tokens /\ read # <<>> /\ tok = Last(read) /\ tok' = tok /\ read' = read
  BY DEF IInv, InputOK, TokenOK, input
<1>2. h = Front(read) /\ h \in Seq(Tokens) /\ read = Append(h, tok)
  BY <1>1, Split DEF Handled
<1>3. Handled' = IF pending' THEN h ELSE Append(h, tok)
  BY <1>1, <1>2 DEF Handled
<1> HIDE DEF h
<1>4. TokenWords(tok) \in Speech /\ <<>> \in Speech
  BY <1>1, TokenSpeaks, OneWord
<1>5. WordsOf(h) \in Speech /\ WordsOf(Append(h, tok)) = WordsOf(h) \o TokenWords(tok)
  BY <1>1, <1>2, ReadingGrows
<1>6. WordsOf(h) \o <<>> = WordsOf(h)
  BY <1>5, Together
<1>7. CASE pending'
  BY <1>1, <1>2, <1>3, <1>4, <1>5, <1>6, <1>7 DEF StepWords, h
<1>8. CASE ~pending'
  <2>1. Append(h, tok) \in Seq(Tokens)
    BY <1>1, <1>2
  <2> QED BY <1>1, <1>2, <1>3, <1>4, <1>5, <1>8, <2>1 DEF StepWords, h
<1> QED BY <1>7, <1>8

\* An annotation that was written still was when more is handled.
LEMMA StaysWritten ==
    ASSUME NEW l \in Seq(Tokens), NEW t \in Tokens, NEW a, WrittenAt(a, l)
    PROVE  WrittenAt(a, Append(l, t))
<1> DEFINE r == Append(l, t)
<1>1. DOMAIN l = 1 .. Len(l) /\ DOMAIN r = 1 .. (Len(l) + 1) /\ \A k \in 1 .. Len(l) : r[k] = l[k]
  BY Appended
<1> HIDE DEF r
<1>2. WrittenAt(a, r)
  <2> SUFFICES ASSUME NEW k \in DOMAIN a
               PROVE  \E m \in DOMAIN r : m + 1 \in DOMAIN r /\ r[m].kind = "@" /\ r[m + 1].name = a[k].name
    BY DEF WrittenAt
  <2>1. PICK m \in DOMAIN l : m + 1 \in DOMAIN l /\ l[m].kind = "@" /\ l[m + 1].name = a[k].name
    BY DEF WrittenAt
  <2>2. m \in DOMAIN r /\ m + 1 \in DOMAIN r /\ r[m] = l[m] /\ r[m + 1] = l[m + 1]
    BY <1>1, <2>1
  <2> QED BY <2>1, <2>2
<1> QED BY <1>2 DEF r

\* What the next state asks of the token and of the look-ahead.
PathTo(s) ==
    /\ s \notin {"START", "NS", "TYPEDEF_ANNOTE", "TYPEDEF_ANNOTE_VALUE", "TYPE_ANNOTE_VALUE"}
    /\ s \in {"DEF_ANNOTE", "SYMBOL_ANNOTE", "NAME_ANNOTE"} => ~pending' /\ tok.kind = "@"
    /\ s = "TYPE_ANNOTE" => pending' /\ tok.kind = "@"
    /\ s = "ENUM_OR_TYPEDEF" => ~pending' /\ tok.kind = "="
    /\ s \in {"SYMBOL_OR_REF", "ENUM"} => laType' = "ref"

\* A step that makes or notes the words of its token keeps the invariant.
LEMMA WordsStep ==
    ASSUME IInv, Written, ok, pending, PlainUpTo(read), UNCHANGED input, pending' \in BOOLEAN,
           state # "START", PathTo(state'), NotingOK', ShapeOK',
           Becomes(Made', Noted', Made, Noted, StepWords)
    PROVE  Written'
<1>1. /\ tok \in Tokens /\ Handled \in Seq(Tokens) /\ read = Append(Handled, tok)
      /\ Handled' = IF pending' THEN Handled ELSE Append(Handled, tok)
      /\ WordsOf(Handled') = WordsOf(Handled) \o StepWords
  BY Handles DEF Written
<1>2. tok' = tok /\ read' = read
  BY DEF input
<1>3. TokenOK'
  BY <1>2 DEF Written, TokenOK
<1>4. PathOK'
  <2>1. ~pending' => LastIs(Handled', tok.kind)
    <3> HAVE ~pending'
    <3>1. Handled' = Append(Handled, tok)
      BY <1>1
    <3> QED BY <1>1, <3>1, SplitAppended DEF LastIs
  <2> QED BY <1>2, <2>1 DEF PathOK, PathTo
<1>5. Made \o Noted = WordsOf(Handled)
  BY DEF Written, WrittenOK, WordsOK
<1>6. WordsOK'
  BY <1>1, <1>5 DEF WordsOK, Becomes
<1> QED BY <1>3, <1>4, <1>6 DEF Written, WrittenOK

\* Annotations that stay as they are or are given to what is made.
LEMMA NotingStays ==
    ASSUME IInv, Written, ok, pending, PlainUpTo(read), UNCHANGED input, pending' \in BOOLEAN,
           laAnnotes' = laAnnotes, annotes' \in {annotes, <<>>}, state' \notin ValueStates,
           state' \notin NotingStates => annotes' = <<>>
    PROVE  NotingOK'
<1>1. /\ tok \in Tokens /\ Handled \in Seq(Tokens)
      /\ Handled' = IF pending' THEN Handled ELSE Append(Handled, tok)
  BY Handles DEF Written
<1>2. laAnnotes = <<>> /\ WrittenAt(annotes, Handled)
  BY DEF Written, WrittenOK, NotingOK
<1>3. WrittenAt(annotes, Handled')
  BY <1>1, <1>2, StaysWritten
<1>4. WrittenAt(<<>>, Handled')
  BY DEF WrittenAt
<1>5. WrittenAt(annotes', Handled')
  BY <1>3, <1>4
<1> QED BY <1>2, <1>5 DEF NotingOK

\* What is noted is words.
LEMMA NotedSpeaks ==
    ASSUME NEW s, NEW a \in Seq(NotesRead), NEW n \in Vocabulary, NEW sight \in Vocabulary,
           s \in ValueStates => a # <<>>
    PROVE  /\ NotedWords(s, a, n, sight) \in Speech
           /\ (a = <<>> /\ s \notin ValueStates \union NameNoted \union AheadNoted \union {"TYPE_RBRACKET"}) =>
                 NotedWords(s, a, n, sight) = <<>>
<1>1. NoteWords(a) \in Speech /\ NoteWords(<<>>) = <<>> /\ <<n>> \in Speech /\ <<sight>> \in Speech
  BY NotesGrow, OneWord
<1>2. CASE s \in ValueStates
  <2>1. Front(a) \in Seq(NotesRead) /\ Last(a) \in NotesRead
    BY <1>2, Split
  <2>2. Last(a).name \in Vocabulary
    BY <2>1 DEF NotesRead, Vocabulary
  <2>3. NoteWords(Front(a)) \in Speech /\ <<Last(a).name>> \in Speech
    BY <2>1, <2>2, NotesGrow, OneWord
  <2>4. NoteWords(Front(a)) \o <<Last(a).name>> \in Speech
    BY <2>3, Together
  <2>5. NotedWords(s, a, n, sight) = NoteWords(Front(a)) \o <<Last(a).name>>
    <3>1. s \notin NameNoted /\ s \notin AheadNoted /\ s # "TYPE_RBRACKET"
      BY <1>2 DEF ValueStates, NameNoted, AheadNoted
    <3> QED BY <1>2, <3>1 DEF NotedWords
  <2> QED BY <1>2, <2>4, <2>5
<1>3. CASE s \notin ValueStates
  <2>1. NoteWords(a) \o <<n>> \in Speech
    BY <1>1, Together
  <2>2. (NoteWords(a) \o <<n>>) \o <<sight>> \in Speech
    BY <1>1, <2>1, Together
  <2>3. <<"[">> \in Speech
    BY OneWord DEF Vocabulary
  <2> DEFINE w == NotedWords(s, a, n, sight)
             p == NoteWords(a) \o <<n>>
             q == (NoteWords(a) \o <<n>>) \o <<sight>>
  <2>4. p \in Speech /\ q \in Speech
    BY <2>1, <2>2
  <2>5. w = CASE s \in NameNoted -> p
              [] s \in AheadNoted -> q
              [] s = "TYPE_RBRACKET" -> <<"[">>
              [] OTHER -> NoteWords(a)
    BY <1>3 DEF NotedWords, NameNoted, AheadNoted
  <2> HIDE DEF w, p, q
  <2>6. w \in Speech
    BY <1>1, <2>3, <2>4, <2>5
  <2>7. s \notin NameNoted \union AheadNoted \union {"TYPE_RBRACKET"} => w = NoteWords(a)
    BY <2>5
  <2> QED BY <1>1, <1>3, <2>6, <2>7 DEF w
<1> QED BY <1>2, <1>3

\* The noted words now and after a step.
LEMMA NotedNow ==
    ASSUME IInv, NotingOK
    PROVE  /\ annotes \in Seq(NotesRead) /\ name \in Vocabulary /\ Sight \in Vocabulary
           /\ Noted \in Speech
           /\ state \notin NotingStates \union {"TYPE_RBRACKET"} => annotes = <<>> /\ Noted = <<>>
<1>1. annotes \in Seq(NotesRead) /\ name \in Vocabulary /\ Sight \in Vocabulary
  <2>1. name \in Texts /\ laName \in Texts /\ laType \in BuiltIn \union {"ref"} /\ annotes \in Seq(NotesRead)
    BY DEF IInv, ScalarsOK, NotesOK
  <2> HIDE DEF Texts, BuiltIn
  <2> QED BY <2>1 DEF Sight, Vocabulary
<1>2. state \in ValueStates => annotes # <<>>
  BY DEF NotingOK
<1>3. /\ Noted \in Speech
      /\ (/\ annotes = <<>>
          /\ state \notin ValueStates \union NameNoted \union AheadNoted \union {"TYPE_RBRACKET"}) => Noted = <<>>
  BY <1>1, <1>2, NotedSpeaks DEF Noted
<1>4. state \notin NotingStates => annotes = <<>>
  BY DEF NotingOK
<1>5. /\ ValueStates \ {"TYPE_ANNOTE_VALUE"} \subseteq NotingStates
      /\ NameNoted \union AheadNoted \subseteq NotingStates
  BY DEF ValueStates, NameNoted, AheadNoted, NotingStates, NamingStates
<1>6. state \in ValueStates => state \in NotingStates
  BY <1>2, <1>4
<1> QED BY <1>1, <1>3, <1>4, <1>5, <1>6

\* What is noted after a step is words too.
LEMMA NotedNext ==
    ASSUME IInv', NotingOK'
    PROVE  /\ annotes' \in Seq(NotesRead) /\ name' \in Vocabulary /\ Sight' \in Vocabulary
           /\ Noted' \in Speech
           /\ state' \notin NotingStates \union {"TYPE_RBRACKET"} => annotes' = <<>> /\ Noted' = <<>>
<1>1. annotes' \in Seq(NotesRead) /\ name' \in Vocabulary /\ Sight' \in Vocabulary
  <2>1. /\ name' \in Texts /\ laName' \in Texts /\ laType' \in BuiltIn \union {"ref"}
        /\ annotes' \in Seq(NotesRead)
    BY DEF IInv, ScalarsOK, NotesOK
  <2> HIDE DEF Texts, BuiltIn
  <2> QED BY <2>1 DEF Sight, Vocabulary
<1>2. state' \in ValueStates => annotes' # <<>>
  BY DEF NotingOK
<1>3. /\ Noted' \in Speech
      /\ (/\ annotes' = <<>>
          /\ state' \notin ValueStates \union NameNoted \union AheadNoted \union {"TYPE_RBRACKET"}) => Noted' = <<>>
  BY <1>1, <1>2, NotedSpeaks DEF Noted
<1>4. state' \notin NotingStates => annotes' = <<>>
  BY DEF NotingOK
<1>5. /\ ValueStates \ {"TYPE_ANNOTE_VALUE"} \subseteq NotingStates
      /\ NameNoted \union AheadNoted \subseteq NotingStates
  BY DEF ValueStates, NameNoted, AheadNoted, NotingStates, NamingStates
<1>6. state' \in ValueStates => state' \in NotingStates
  BY <1>2, <1>4
<1> QED BY <1>1, <1>3, <1>4, <1>5, <1>6

-----------------------------------------------------------------------------
\* How what is made changes with the last definition.

\* The words of the last definition as far as it is made.
LEMMA PartSpeaks ==
    ASSUME NEW stage, NEW d \in DefsRead, Open(stage) => d.fields # <<>>
    PROVE  /\ PartWords(stage, d) \in Speech
           /\ ~Open(stage) => PartWords(stage, d) = DefWords(d)
           /\ Open(stage) => /\ Front(d.fields) \in Seq(FieldsRead) /\ Last(d.fields) \in FieldsRead
                             /\ FieldPart(stage, Last(d.fields)) \in Speech
                             /\ FieldsWords(Front(d.fields)) \in Speech
<1>1. DefWords(d) \in Speech /\ OpeningWords(d) \in Speech /\ SuperWords(d) \in Speech
  BY DefSpeaks
<1>2. CASE ~Open(stage)
  BY <1>1, <1>2 DEF PartWords
<1>3. CASE Open(stage)
  <2>1. d.fields \in Seq(FieldsRead)
    BY DEF DefsRead
  <2>2. Front(d.fields) \in Seq(FieldsRead) /\ Last(d.fields) \in FieldsRead
    BY <1>3, <2>1, Split
  <2> DEFINE a == OpeningWords(d)
             b == SuperWords(d)
             c == FieldsWords(Front(d.fields))
             e == FieldPart(stage, Last(d.fields))
  <2>3. a \in Speech /\ b \in Speech /\ c \in Speech
    BY <1>1, <2>2, FieldsGrow
  <2>4. e \in Speech
    <3>1. Last(d.fields).type \in TypesRead
      BY <2>2 DEF FieldsRead
    <3>2. TypeWords(Last(d.fields).type) \in Speech
      BY <3>1, PartsSpeak
    <3>3. stage = "bare" \/ stage = "typed"
      BY <1>3 DEF Open
    <3> QED BY <3>2, <3>3, OneWord DEF FieldPart
  <2>5. PartWords(stage, d) = a \o (b \o (c \o e))
    BY <1>3 DEF PartWords
  <2>6. c \in Speech /\ e \in Speech
    BY <2>3, <2>4
  <2> HIDE DEF a, b, c, e
  <2>7. c \o e \in Speech
    BY <2>6, Together
  <2>8. b \o (c \o e) \in Speech
    BY <2>3, <2>7, Together
  <2>9. PartWords(stage, d) \in Speech
    BY <2>3, <2>5, <2>8, Together
  <2> QED BY <1>3, <2>2, <2>6, <2>9 DEF c, e
<1> QED BY <1>2, <1>3

\* What is made: the definitions before the last and the last as far as it is made.
LEMMA MadeIs ==
    ASSUME NEW stage, NEW l \in Seq(DefsRead), Open(stage) => l # <<>> /\ Last(l).fields # <<>>
    PROVE  /\ MadeWords(stage, l) \in Speech
           /\ l # <<>> =>
                /\ SchemaWords(Front(l)) \in Speech /\ PartWords(stage, Last(l)) \in Speech
                /\ MadeWords(stage, l) = SchemaWords(Front(l)) \o PartWords(stage, Last(l))
<1>1. CASE l = <<>>
  <2>1. MadeWords(stage, l) = SchemaWords(l)
    BY <1>1 DEF MadeWords
  <2> QED BY <1>1, <2>1, SchemaGrows
<1>2. CASE l # <<>>
  <2> DEFINE f == Front(l)
             d == Last(l)
  <2>1. f \in Seq(DefsRead) /\ d \in DefsRead /\ l = Append(f, d)
    BY <1>2, Split
  <2>2. Open(stage) => d.fields # <<>>
    OBVIOUS
  <2> HIDE DEF f, d
  <2>3. /\ PartWords(stage, d) \in Speech
        /\ ~Open(stage) => PartWords(stage, d) = DefWords(d)
    BY <2>1, <2>2, PartSpeaks
  <2>4. SchemaWords(f) \in Speech /\ SchemaWords(Append(f, d)) = SchemaWords(f) \o DefWords(d)
    BY <2>1, SchemaGrows
  <2>5. MadeWords(stage, l) = SchemaWords(f) \o PartWords(stage, d)
    BY <2>1, <2>3, <2>4 DEF MadeWords, f, d
  <2>6. MadeWords(stage, l) \in Speech
    BY <2>3, <2>4, <2>5, Together
  <2> QED BY <2>3, <2>4, <2>5, <2>6 DEF f, d
<1> QED BY <1>1, <1>2

\* The list of definitions when the last one is replaced.
LEMMA DefsSet ==
    ASSUME SpacesOK(spaces), ns \in 1 .. Len(spaces), Defs # <<>>, NEW d \in DefsRead,
           SetDef(d), ns' = ns
    PROVE  /\ Defs \in Seq(DefsRead) /\ Last(Defs) = D /\ Front(Defs) \in Seq(DefsRead)
           /\ Defs' = Append(Front(Defs), d)
<1> DEFINE new == [Defs EXCEPT ![Len(Defs)] = d]
           space == [spaces[ns] EXCEPT !.defs = new]
<1>1. /\ spaces \in Seq(SpacesRead) /\ ns \in DOMAIN spaces /\ spaces[ns] \in SpacesRead
      /\ Defs \in Seq(DefsRead)
  <2>1. spaces \in Seq(SpacesRead) /\ ns \in DOMAIN spaces
    BY DEF SpacesOK
  <2>2. spaces[ns] \in SpacesRead
    BY <2>1
  <2> QED BY <2>1, <2>2 DEF SpacesRead, Defs
<1>2. new = Append(Front(Defs), d) /\ Front(Defs) \in Seq(DefsRead)
  BY <1>1, SplitReplaced, Split
<1>3. spaces' = [spaces EXCEPT ![ns] = space]
  BY <1>1 DEF SetDef, Defs, SpacesRead
<1> HIDE DEF new
<1>4. space.defs = new
  BY <1>1 DEF SpacesRead
<1> HIDE DEF space
<1>5. spaces'[ns] = space
  BY <1>1, <1>3
<1>6. Defs' = new
  BY <1>4, <1>5 DEF Defs
<1> QED BY <1>1, <1>2, <1>6 DEF Last, D

\* The list of definitions when one is added.
LEMMA DefsAdded ==
    ASSUME SpacesOK(spaces), ns \in 1 .. Len(spaces), NEW d \in DefsRead, AddDef(d), ns' = ns
    PROVE  Defs \in Seq(DefsRead) /\ Defs' = Append(Defs, d)
<1> DEFINE new == Append(Defs, d)
           space == [spaces[ns] EXCEPT !.defs = new]
<1>1. /\ spaces \in Seq(SpacesRead) /\ ns \in DOMAIN spaces /\ spaces[ns] \in SpacesRead
      /\ Defs \in Seq(DefsRead)
  <2>1. spaces \in Seq(SpacesRead) /\ ns \in DOMAIN spaces
    BY DEF SpacesOK
  <2>2. spaces[ns] \in SpacesRead
    BY <2>1
  <2> QED BY <2>1, <2>2 DEF SpacesRead, Defs
<1>3. spaces' = [spaces EXCEPT ![ns] = space]
  BY <1>1 DEF AddDef, Defs, SpacesRead
<1> HIDE DEF new
<1>4. space.defs = new
  BY <1>1 DEF SpacesRead
<1> HIDE DEF space
<1>5. spaces'[ns] = space
  BY <1>1, <1>3
<1>6. Defs' = new
  BY <1>4, <1>5 DEF Defs
<1> QED BY <1>1, <1>6 DEF new

\* The fields of the last definition, where one is open.
LEMMA OpenHasField ==
    ASSUME IInv, state \notin AtTop \union NamingStates
    PROVE  Open(Stage(state, type)) => D.fields # <<>>
BY TheDef DEF InStage, FieldsAt

\* A step that replaces the last definition changes the words made as it changes the
\* words of that definition.
LEMMA MadeWhenSet ==
    ASSUME IInv, state \notin AtTop \union NamingStates, NEW d \in DefsRead, SetDef(d), ns' = ns,
           Open(Stage(state, type)') => d.fields # <<>>,
           NEW t \in Speech, NEW r \in Speech, NEW x \in Speech,
           Becomes(PartWords(Stage(state, type)', d), t, PartWords(Stage(state, type), D), r, x)
    PROVE  Becomes(Made', t, Made, r, x)
<1> DEFINE stage == Stage(state, type)
           next == Stage(state, type)'
           f == Front(Defs)
           p == SchemaWords(f)
           q == PartWords(stage, D)
           s == PartWords(next, d)
<1>1. SpacesOK(spaces) /\ ns \in 1 .. Len(spaces) /\ Defs # <<>> /\ D \in DefsRead
  BY TheDef
<1>2. Defs \in Seq(DefsRead) /\ Last(Defs) = D /\ f \in Seq(DefsRead) /\ Defs' = Append(f, d)
  BY <1>1, DefsSet
<1>3. Open(stage) => Last(Defs).fields # <<>>
  BY <1>2, OpenHasField
<1> HIDE DEF stage, next
<1>4. p \in Speech /\ q \in Speech /\ MadeWords(stage, Defs) = p \o q
  BY <1>1, <1>2, <1>3, MadeIs
<1>5. Append(f, d) \in Seq(DefsRead) /\ Append(f, d) # <<>> /\ Front(Append(f, d)) = f /\ Last(Append(f, d)) = d
  BY <1>2, SplitAppended
<1> HIDE DEF f
<1>6. Open(next) => Last(Append(f, d)).fields # <<>>
  BY <1>5 DEF next
<1>7. s \in Speech /\ MadeWords(next, Append(f, d)) = p \o s
  BY <1>5, <1>6, MadeIs
<1>8. Becomes(s, t, q, r, x)
  BY DEF next, stage
<1>9. Made = p \o q /\ Made' = p \o s
  BY <1>2, <1>4, <1>7 DEF Made, stage, next
<1> HIDE DEF p, q, s
<1>10. Becomes(p \o s, t, p \o q, r, x)
  BY <1>4, <1>7, <1>8, Shift
<1> QED BY <1>9, <1>10

\* A step that adds a definition makes the words that were noted.
LEMMA MadeWhenAdded ==
    ASSUME IInv, state \in NamingStates \union {"DEF_TYPE"}, NEW d \in DefsRead, AddDef(d), ns' = ns,
           ~Open(Stage(state, type)'),
           NEW t \in Speech, NEW r \in Speech, NEW x \in Speech, DefWords(d) \o t = r \o x
    PROVE  Becomes(Made', t, Made, r, x)
<1> DEFINE p == SchemaWords(Defs)
           q == DefWords(d)
<1>1. SpacesOK(spaces) /\ ns \in 1 .. Len(spaces) /\ ~Open(Stage(state, type))
  <2>1. state \notin {"START", "NS"}
    BY DEF NamingStates
  <2>2. Stage(state, type) = "whole"
    BY DEF NamingStates, Stage, SymbolStates, SlashStates, BareStates, NameStates, TailStates
  <2> QED BY <2>1, <2>2 DEF IInv, DataOK, PlaceOK, Open
<1>2. Defs \in Seq(DefsRead) /\ Defs' = Append(Defs, d)
  BY <1>1, DefsAdded
<1>3. p \in Speech /\ SchemaWords(Append(Defs, d)) = p \o q
  BY <1>2, SchemaGrows
<1>4. q \in Speech
  BY DefSpeaks
<1>5. Made = p /\ Made' = p \o q
  BY <1>1, <1>2, <1>3 DEF Made, MadeWords
<1> HIDE DEF p, q
<1>6. q \o t = r \o x
  BY DEF q
<1>7. Associative(p, q, t) /\ Associative(p, r, x)
  BY <1>3, <1>4, Regroup
<1> QED BY <1>5, <1>6, <1>7 DEF Becomes, Associative

\* What is made is words.
LEMMA MadeNow ==
    ASSUME IInv, state \notin {"START", "NS"}
    PROVE  Made \in Speech
<1>1. SpacesOK(spaces) /\ ns \in 1 .. Len(spaces)
  BY DEF IInv, DataOK, PlaceOK
<1>2. Defs \in Seq(DefsRead)
  <2>1. spaces[ns] \in SpacesRead
    BY <1>1 DEF SpacesOK
  <2> QED BY <2>1 DEF SpacesRead, Defs
<1>3. Open(Stage(state, type)) => Defs # <<>> /\ Last(Defs).fields # <<>>
  <2> HAVE Open(Stage(state, type))
  <2>1. state \notin AtTop \union NamingStates
    BY DEF Open, Stage, SymbolStates, SlashStates, BareStates, NameStates, TailStates, AtTop, NamingStates
  <2>2. Defs # <<>> /\ D.fields # <<>>
    BY <2>1, OpenHasField, TheDef
  <2> QED BY <2>2 DEF D, Last
<1> QED BY <1>2, <1>3, MadeIs DEF Made

\* A step that makes nothing notes the words of its token.
LEMMA MadeStays ==
    ASSUME IInv, state \notin {"START", "NS"}, Made' = Made,
           NEW t \in Speech, NEW r \in Speech, NEW x \in Speech, t = r \o x
    PROVE  Becomes(Made', t, Made, r, x)
<1> DEFINE m == Made
<1>1. m \in Speech
  BY MadeNow
<1>2. Made' = m
  OBVIOUS
<1> HIDE DEF m
<1>3. Associative(m, r, x)
  BY <1>1, Regroup
<1> QED BY <1>2, <1>3 DEF Becomes, Associative, m

-----------------------------------------------------------------------------
\* Steps that make nothing.

\* The kinds of the tokens that have words.
Spoken == {"name", "cname", "literal", "?", "["} \union BuiltIn

\* The words of a token, by its kind.
LEMMA TokenIs ==
    ASSUME NEW t
    PROVE  /\ t.kind \in {"name", "cname", "literal"} => TokenWords(t) = <<t.name>>
           /\ t.kind \in {"?", "["} \union BuiltIn => TokenWords(t) = <<t.kind>>
           /\ t.kind \notin Spoken => TokenWords(t) = <<>>
<1>1. IsWord(t) <=> t.kind \in Spoken
  BY DEF IsWord, Spoken
<1>2. \A k \in {"?", "["} \union BuiltIn : k \notin {"name", "cname", "literal"} /\ k \in Spoken
  BY DEF BuiltIn, Spoken
<1>3. \A k \in {"name", "cname", "literal"} : k \in Spoken
  BY DEF Spoken
<1> HIDE DEF Spoken, BuiltIn
<1>4. t.kind \in {"name", "cname", "literal"} => TokenWords(t) = <<t.name>>
  BY <1>1, <1>3 DEF TokenWords, Word
<1>5. t.kind \in {"?", "["} \union BuiltIn => TokenWords(t) = <<t.kind>>
  BY <1>1, <1>2 DEF TokenWords, Word
<1>6. t.kind \notin Spoken => TokenWords(t) = <<>>
  BY <1>1 DEF TokenWords
<1> QED BY <1>4, <1>5, <1>6

\* A step that does not shift its token, or shifts one without words, has none.
LEMMA Silent ==
    ASSUME pending' \/ tok.kind \notin Spoken
    PROVE  StepWords = <<>>
BY TokenIs DEF StepWords

\* When the parse fails or the schema is not plain there is nothing to say.
LEMMA Otherwise ==
    ASSUME Written, pending, UNCHANGED input, ~ok' \/ ~PlainUpTo(read)
    PROVE  Written'
<1>1. tok' = tok /\ read' = read
  BY DEF input
<1>2. TokenOK'
  BY <1>1 DEF Written, TokenOK
<1>3. PlainUpTo(read') = PlainUpTo(read)
  BY <1>1
<1> QED BY <1>2, <1>3 DEF Written

\* The stage of the last definition that its words depend on.
SameStage(s) == Stage(s, type) = Stage(state, type) \/ (~Open(Stage(s, type)) /\ ~Open(Stage(state, type)))

\* A step that makes nothing and notes the words of its token.
LEMMA NotesStep ==
    ASSUME IInv, IInv', Written, ok, pending, PlainUpTo(read), UNCHANGED input, pending' \in BOOLEAN,
           state # "START", NEW s, state' = s, SameStage(s), UNCHANGED <<spaces, ns, type>>,
           PathTo(s), NotingOK', s \notin AtTop \union NamingStates => Shape(s, type, D),
           Noted' = Noted \o StepWords
    PROVE  Written'
<1>1. ShapeOK'
  <2>1. D' = D /\ type' = type
    BY DEF D, Defs
  <2> QED BY <2>1 DEF ShapeOK
<1>2. Made' = Made
  <2>1. Defs' = Defs /\ Stage(state, type)' = Stage(s, type)
    BY DEF Defs
  <2> QED BY <2>1 DEF Made, MadeWords, SameStage, Open
<1>3. state \notin {"START", "NS"}
  BY DEF Written, WrittenOK, PathOK
<1>4. Noted \in Speech /\ Noted' \in Speech /\ StepWords \in Speech
  <2>1. Noted \in Speech
    BY NotedNow DEF Written, WrittenOK
  <2>2. Noted' \in Speech
    BY NotedNext
  <2>3. StepWords \in Speech
    BY Handles DEF Written
  <2> QED BY <2>1, <2>2, <2>3
<1>5. Becomes(Made', Noted', Made, Noted, StepWords)
  BY <1>2, <1>3, <1>4, MadeStays
<1> QED BY <1>1, <1>5, WordsStep

\* A step that only moves to another state, and notes the words of its token.
LEMMA QuietWritten ==
    ASSUME IInv, IInv', Written, ok, pending, PlainUpTo(read), UNCHANGED input, state # "START",
           NEW s, Follows(s), Keep(s) \/ Goto(s), UNCHANGED <<spaces, ns, ahead, notes, type, begun>>,
           PathTo(s), s \notin NotingStates => state \notin NotingStates,
           s \notin AtTop \union NamingStates => Shape(s, type, D),
           Noted' = Noted \o StepWords
    PROVE  Written'
<1>1. state' = s /\ pending' \in BOOLEAN
  BY DEF Keep, Goto
<1>2. NotingOK'
  <2>1. annotes = <<>> \/ state \in NotingStates
    BY DEF Written, WrittenOK, NotingOK
  <2>2. s \notin ValueStates
    BY DEF Follows
  <2>3. laAnnotes' = laAnnotes /\ annotes' \in {annotes, <<>>}
    BY DEF notes
  <2>4. s \notin NotingStates => annotes' = <<>>
    BY <2>1 DEF notes
  <2> QED BY <1>1, <2>2, <2>3, <2>4, NotingStays
<1>3. SameStage(s)
  BY DEF Follows, SameStage, Open
<1> QED BY <1>1, <1>2, <1>3, NotesStep

\* States in which nothing but annotations is noted.
Noting(s) == s \notin ValueStates \union NameNoted \union AheadNoted \union {"TYPE_RBRACKET"}

\* What a move of the parser that notes nothing keeps.
Quietly(s) ==
    /\ state # "START" /\ Follows(s)
    /\ s \notin NotingStates => state \notin NotingStates
    /\ Noting(state) /\ Noting(s)
    /\ (state \notin AtTop \union NamingStates => Shape(state, type, D)) =>
          (s \notin AtTop \union NamingStates => Shape(s, type, D))

\* A step that only moves to another state, with a token that has no words.
LEMMA SilentStep ==
    ASSUME IInv, IInv', Written, ok, pending, PlainUpTo(read), UNCHANGED input,
           NEW s, Quietly(s), Keep(s) \/ Goto(s), UNCHANGED <<spaces, ns, ahead, notes, type, begun>>,
           PathTo(s), pending' \/ tok.kind \notin Spoken
    PROVE  Written'
<1>1. Noted = NoteWords(annotes) /\ Noted' = NoteWords(annotes)
  <2>1. state' = s /\ annotes' = annotes
    BY DEF Keep, Goto, notes
  <2>2. ASSUME NEW x, Noting(x), NEW a, NEW n, NEW sight
        PROVE  NotedWords(x, a, n, sight) = NoteWords(a)
    BY <2>2 DEF NotedWords, Noting
  <2>3. Noting(state) /\ Noting(s)
    BY DEF Quietly
  <2> QED BY <2>1, <2>2, <2>3 DEF Noted
<1>2. Noted \in Speech
  BY NotedNow DEF Written, WrittenOK
<1>3. StepWords = <<>>
  BY Silent
<1>4. Noted' = Noted \o StepWords
  BY <1>1, <1>2, <1>3, Together
<1>5. s \notin AtTop \union NamingStates => Shape(s, type, D)
  BY DEF Quietly, Written, WrittenOK, ShapeOK
<1> QED BY <1>4, <1>5, QuietWritten DEF Quietly

\* Which moves are such.
LEMMA QuietMoves ==
    ASSUME type \in {"field", "typedef"}, state \in NameStates => type = "field"
    PROVE  /\ state = "ANY" => Quietly("DEF_OR_ANNOTE") /\ Quietly("ANY")
           /\ state = "DEF_OR_ANNOTE" => Quietly("DEF_ANNOTE")
           /\ state = "SYMBOL_ANNOTES" => Quietly("SYMBOL_ANNOTE") /\ Quietly("SYMBOL_NAME")
           /\ state = "SYMBOL_SLASH" => Quietly("SYMBOL_VALUE")
           /\ state = "SYMBOL_NEXT" => Quietly("SYMBOL_ANNOTES") /\ Quietly("ANY")
           /\ state \in {"SUPER_OR_FIELD_OR_ANY", "FIELD_OR_ANY"} => Quietly("FIELD") /\ Quietly("ANY")
           /\ state = "SUPER_OR_FIELD_OR_ANY" => Quietly("GROUP_SUPER")
           /\ state = "TYPE_DYNAMIC" => Quietly("TYPE_LBRACKET")
           /\ state = "TYPE_LBRACKET" => Quietly(AfterType)
           /\ state \in {"TYPE_LPAREN", "TYPE_LPAREN_OPTIONAL"} => Quietly("TYPE_SIZE")
           /\ state = "FIELD_NAME_ANNOTES" => Quietly("NAME_ANNOTE") /\ Quietly("FIELD_NAME")
           /\ state = "FIELD_OPTIONAL" => Quietly("FIELD_NEXT")
           /\ state = "FIELD_NEXT" => Quietly("FIELD") /\ Quietly("ANY")
<1> USE QuietStates DEF Quietly, Noting, Shape, NotingStates, NameNoted, AheadNoted, ValueStates, AtTop,
        SymbolStates, SlashStates, BareStates, TailStates, NameStates, EndStates, NamingStates
<1>1. state = "ANY" => Quietly("DEF_OR_ANNOTE") /\ Quietly("ANY")
  OBVIOUS
<1>2. state = "SYMBOL_ANNOTES" => Quietly("SYMBOL_ANNOTE") /\ Quietly("SYMBOL_NAME")
  OBVIOUS
<1>3. state = "SYMBOL_SLASH" => Quietly("SYMBOL_VALUE")
  OBVIOUS
<1>4. state = "SYMBOL_NEXT" => Quietly("SYMBOL_ANNOTES") /\ Quietly("ANY")
  OBVIOUS
<1>5. state \in {"SUPER_OR_FIELD_OR_ANY", "FIELD_OR_ANY"} => Quietly("FIELD") /\ Quietly("ANY")
  OBVIOUS
<1>6. state = "SUPER_OR_FIELD_OR_ANY" => Quietly("GROUP_SUPER")
  OBVIOUS
<1>7. state = "TYPE_DYNAMIC" => Quietly("TYPE_LBRACKET")
  OBVIOUS
<1>8. state = "TYPE_LBRACKET" => Quietly(AfterType)
  BY DEF AfterType
<1>9. state \in {"TYPE_LPAREN", "TYPE_LPAREN_OPTIONAL"} => Quietly("TYPE_SIZE")
  OBVIOUS
<1>10. state = "FIELD_NAME_ANNOTES" => Quietly("NAME_ANNOTE") /\ Quietly("FIELD_NAME")
  OBVIOUS
<1>11. state = "FIELD_OPTIONAL" => Quietly("FIELD_NEXT")
  OBVIOUS
<1>12. state = "FIELD_NEXT" => Quietly("FIELD") /\ Quietly("ANY")
  OBVIOUS
<1>13. state = "DEF_OR_ANNOTE" => Quietly("DEF_ANNOTE")
  OBVIOUS
<1> HIDE DEF Quietly, AtTop, NameStates, SymbolStates
<1> QED BY <1>13, <1>1, <1>2, <1>3, <1>4, <1>5, <1>6, <1>7, <1>8, <1>9, <1>10, <1>11, <1>12

\* The steps that look at the token and move on.
LEMMA QuietStepsWritten ==
    ASSUME IInv, IInv', Written, ok, pending, UNCHANGED input, PlainUpTo(read),
           \/ TopLevel \/ SymbolOrRef \/ SymbolAnnotes \/ SymbolNext \/ AfterGroupHead
           \/ TypeLBracket \/ TypeLParen \/ FieldNameAnnotes \/ FieldNext
    PROVE  Written'
<1>1. type \in {"field", "typedef"} /\ (state \in NameStates => type = "field")
  BY DEF IInv, ScalarsOK
<1>2. ASSUME Reject PROVE Written'
  BY <1>2, Otherwise DEF Reject
<1>3. ASSUME NEW s, Quietly(s), UNCHANGED <<spaces, ns, ahead, notes, type, begun>>, Keep(s),
             s \notin {"START", "NS", "TYPEDEF_ANNOTE", "TYPEDEF_ANNOTE_VALUE", "TYPE_ANNOTE_VALUE",
                       "DEF_ANNOTE", "SYMBOL_ANNOTE", "NAME_ANNOTE", "TYPE_ANNOTE", "ENUM_OR_TYPEDEF",
                       "SYMBOL_OR_REF", "ENUM"}
      PROVE  Written'
  <2>1. PathTo(s)
    BY <1>3 DEF PathTo
  <2>2. pending'
    BY <1>3 DEF Keep
  <2> QED BY <1>3, <2>1, <2>2, SilentStep
<1>4. ASSUME NEW s, Quietly(s), UNCHANGED <<spaces, ns, ahead, notes, type, begun>>, Goto(s),
             s \notin {"START", "NS", "TYPEDEF_ANNOTE", "TYPEDEF_ANNOTE_VALUE", "TYPE_ANNOTE_VALUE",
                       "TYPE_ANNOTE", "ENUM_OR_TYPEDEF", "SYMBOL_OR_REF", "ENUM"},
             tok.kind \notin Spoken,
             s \in {"DEF_ANNOTE", "SYMBOL_ANNOTE", "NAME_ANNOTE"} => tok.kind = "@"
      PROVE  Written'
  <2>1. PathTo(s)
    BY <1>4 DEF PathTo, Goto
  <2> QED BY <1>4, <2>1, SilentStep
<1>5. \A k \in {"@", "eof", "|", ":", "->", "(", ","} : k \notin Spoken
  BY DEF Spoken, BuiltIn
<1>6. AfterType \in {"ANY", "FIELD_NAME_ANNOTES"}
  BY DEF AfterType
<1> HIDE DEF Spoken
<1>a. CASE TopLevel
  <2>1. tok.kind # "namespace"
    <3>1. read # <<>> /\ tok = Last(read) /\ read \in Seq(Tokens)
      BY DEF Written, TokenOK, IInv, InputOK
    <3>2. Len(read) \in DOMAIN read
      BY <3>1
    <3> QED BY <3>1, <3>2 DEF PlainUpTo, Last
  <2> QED BY <1>a, <1>1, <1>2, <1>3, <1>4, <1>5, <2>1, QuietMoves DEF TopLevel, In, Is
<1>b. CASE SymbolOrRef
  <2> DEFINE s == IF Is({"|", "/"}) THEN "ENUM" ELSE "TYPEDEF"
  <2>1. /\ state = "SYMBOL_OR_REF" /\ Keep(s) /\ UNCHANGED <<spaces, ns, ahead, notes, type, begun>>
        /\ s \in {"ENUM", "TYPEDEF"}
    BY <1>b DEF SymbolOrRef, In
  <2> HIDE DEF s
  <2>2. Follows(s)
    BY <1>1, <2>1, QuietStates
  <2>3. state' = s /\ pending' /\ laType' = "ref"
    BY <2>1 DEF Keep, ahead, Written, WrittenOK, PathOK
  <2>4. PathTo(s)
    BY <2>1, <2>3 DEF PathTo
  <2>5. Noted' = Noted
    <3>1. state \in AheadNoted /\ s \in AheadNoted
      BY <2>1 DEF AheadNoted
    <3>2. /\ state \notin ValueStates \union NameNoted \union {"TYPE_RBRACKET"}
          /\ s \notin ValueStates \union NameNoted \union {"TYPE_RBRACKET"}
      BY <3>1 DEF AheadNoted, ValueStates, NameNoted
    <3>3. annotes' = annotes /\ name' = name /\ Sight' = Sight
      BY <2>1 DEF Sight, ahead, notes
    <3>4. Noted = (NoteWords(annotes) \o <<name>>) \o <<Sight>>
      BY <3>1, <3>2 DEF Noted, NotedWords
    <3>5. Noted' = NotedWords(s, annotes, name, Sight)
      BY <2>3, <3>3 DEF Noted
    <3>6. NotedWords(s, annotes, name, Sight) = (NoteWords(annotes) \o <<name>>) \o <<Sight>>
      BY <3>1, <3>2 DEF NotedWords
    <3> QED BY <3>4, <3>5, <3>6
  <2>6. Noted \in Speech
    BY NotedNow DEF Written, WrittenOK
  <2>7. StepWords = <<>>
    BY <2>3, Silent
  <2>8. Noted' = Noted \o StepWords
    BY <2>5, <2>6, <2>7, Together
  <2>9. s \in NamingStates /\ s \in NotingStates
    BY <2>1 DEF NamingStates, NotingStates
  <2> QED BY <2>1, <2>2, <2>4, <2>8, <2>9, QuietWritten
<1>c. CASE SymbolAnnotes
  BY <1>c, <1>1, <1>2, <1>3, <1>4, <1>5, QuietMoves DEF SymbolAnnotes, In, Is
<1>d. CASE SymbolNext
  BY <1>d, <1>1, <1>2, <1>3, <1>4, <1>5, QuietMoves DEF SymbolNext, In, Is
<1>e. CASE AfterGroupHead
  BY <1>e, <1>1, <1>2, <1>3, <1>4, <1>5, QuietMoves DEF AfterGroupHead, In, Is
<1>f. CASE TypeLBracket
  <2>1. state = "TYPE_LBRACKET" /\ UNCHANGED <<spaces, ns, ahead, notes, type, begun>>
    BY <1>f DEF TypeLBracket, In
  <2>2. CASE Is({"["})
    <3> DEFINE s == "TYPE_RBRACKET"
    <3>1. Goto(s) /\ tok.kind = "["
      BY <1>f, <2>2 DEF TypeLBracket, Is
    <3>2. Follows(s)
      BY <1>1, <2>1, QuietStates
    <3>3. state' = s /\ ~pending'
      BY <3>1 DEF Goto
    <3>4. PathTo(s)
      BY DEF PathTo
    <3>5. StepWords = <<"[">>
      BY <3>1, <3>3, TokenIs DEF StepWords
    <3>6. Noted' = <<"[">>
      <4>1. s \notin ValueStates /\ s \notin NameNoted /\ s \notin AheadNoted
        BY DEF AheadNoted, ValueStates, NameNoted
      <4>2. ASSUME NEW a, NEW n, NEW sight PROVE NotedWords(s, a, n, sight) = <<"[">>
        BY <4>1 DEF NotedWords
      <4> QED BY <3>3, <4>2 DEF Noted
    <3>7. Noted = <<>>
      <4>1. state \notin NotingStates \union {"TYPE_RBRACKET"}
        BY <2>1 DEF NotingStates, NamingStates
      <4> QED BY <4>1, NotedNow DEF Written, WrittenOK
    <3>8. Noted' = Noted \o StepWords
      <4>1. "[" \in Vocabulary
        BY DEF Vocabulary
      <4>2. <<"[">> \in Speech
        BY <4>1, OneWord
      <4> QED BY <3>5, <3>6, <3>7, <4>2, Together
    <3>9. state \notin NotingStates /\ Shape(s, type, D)
      <4>1. Shape(state, type, D)
        BY <2>1 DEF Written, WrittenOK, ShapeOK, AtTop, NamingStates
      <4> QED BY <2>1, <4>1 DEF Shape, NotingStates, NamingStates, TailStates, SymbolStates, SlashStates,
                 BareStates, NameStates, EndStates
    <3> QED BY <2>1, <3>1, <3>2, <3>4, <3>8, <3>9, QuietWritten
  <2>3. CASE ~Is({"["})
    <3>1. Keep(AfterType)
      BY <1>f, <2>3 DEF TypeLBracket
    <3> QED BY <1>1, <1>3, <1>6, <2>1, <3>1, QuietMoves
  <2> QED BY <2>2, <2>3
<1>g. CASE TypeLParen
  BY <1>g, <1>1, <1>2, <1>3, <1>4, <1>5, QuietMoves DEF TypeLParen, In, Is
<1>h. CASE FieldNameAnnotes
  BY <1>h, <1>1, <1>2, <1>3, <1>4, <1>5, QuietMoves DEF FieldNameAnnotes, In, Is
<1>i. CASE FieldNext
  BY <1>i, <1>1, <1>2, <1>3, <1>4, <1>5, QuietMoves DEF FieldNext, In, Is
<1> QED BY <1>a, <1>b, <1>c, <1>d, <1>e, <1>f, <1>g, <1>h, <1>i

-----------------------------------------------------------------------------
\* Steps that note.

\* What is noted in the states of each sort.
Forms(s, a, n, sight) ==
    /\ s \in ValueStates => NotedWords(s, a, n, sight) = NoteWords(Front(a)) \o <<Last(a).name>>
    /\ s \in NameNoted => NotedWords(s, a, n, sight) = NoteWords(a) \o <<n>>
    /\ s \in AheadNoted => NotedWords(s, a, n, sight) = (NoteWords(a) \o <<n>>) \o <<sight>>
    /\ Noting(s) => NotedWords(s, a, n, sight) = NoteWords(a)

\* Every state is of one sort.
LEMMA NotedForms ==
    ASSUME NEW s, NEW a, NEW n, NEW sight
    PROVE  Forms(s, a, n, sight)
<1>1. s \in ValueStates => NotedWords(s, a, n, sight) = NoteWords(Front(a)) \o <<Last(a).name>>
  <2>1. ASSUME s \in ValueStates
        PROVE  s \notin NameNoted /\ s \notin AheadNoted /\ s # "TYPE_RBRACKET"
    BY <2>1 DEF ValueStates, NameNoted, AheadNoted
  <2> QED BY <2>1 DEF NotedWords
<1>2. s \in NameNoted => NotedWords(s, a, n, sight) = NoteWords(a) \o <<n>>
  <2>1. ASSUME s \in NameNoted
        PROVE  s \notin ValueStates /\ s \notin AheadNoted /\ s # "TYPE_RBRACKET"
    BY <2>1 DEF ValueStates, NameNoted, AheadNoted
  <2> QED BY <2>1 DEF NotedWords
<1>3. s \in AheadNoted => NotedWords(s, a, n, sight) = (NoteWords(a) \o <<n>>) \o <<sight>>
  <2>1. ASSUME s \in AheadNoted
        PROVE  s \notin ValueStates /\ s \notin NameNoted /\ s # "TYPE_RBRACKET"
    BY <2>1 DEF ValueStates, NameNoted, AheadNoted
  <2> QED BY <2>1 DEF NotedWords
<1>4. Noting(s) => NotedWords(s, a, n, sight) = NoteWords(a)
  BY DEF NotedWords, Noting
<1> QED BY <1>1, <1>2, <1>3, <1>4 DEF Forms

\* What a plain schema does not have where the next token comes.
LEMMA PlainHere ==
    ASSUME IInv, Written, ok, pending, PlainUpTo(read)
    PROVE  /\ tok.kind # "namespace"
           /\ (tok.kind = "@" => ~LastIs(Handled, "="))
           /\ LastIs(Handled, "@") => Search(annotes, tok.name) = {}
<1> DEFINE n == Len(read)
           h == Handled
<1>1. read # <<>> /\ tok = Last(read) /\ read \in Seq(Tokens)
  BY DEF Written, TokenOK, IInv, InputOK
<1>2. /\ h \in Seq(Tokens) /\ Len(h) = n - 1 /\ n \in 1 .. n
      /\ \A k \in 1 .. (n - 1) : h[k] = read[k]
  BY <1>1, Split DEF Handled
<1>3. /\ DOMAIN read = 1 .. n /\ n \in Nat /\ n >= 1 /\ tok = read[n]
      /\ DOMAIN h = 1 .. (n - 1)
  BY <1>1, <1>2 DEF Last
<1>4. ASSUME NEW kind, LastIs(h, kind)
      PROVE  n - 1 \in 1 .. (n - 1) /\ n - 1 \in DOMAIN read /\ read[n - 1].kind = kind /\ n > 1
  <2>1. h # <<>> /\ h[Len(h)].kind = kind
    BY <1>4 DEF LastIs, Last
  <2>2. n - 1 >= 1
    BY <1>2, <1>3, <2>1, EmptySeq
  <2> QED BY <1>2, <1>3, <2>1, <2>2
<1> HIDE DEF h, n
<1>5. tok.kind # "namespace"
  BY <1>2, <1>3 DEF PlainUpTo
<1>6. tok.kind = "@" => ~LastIs(h, "=")
  <2> SUFFICES ASSUME tok.kind = "@", LastIs(h, "=") PROVE FALSE
    OBVIOUS
  <2>1. read[n - 1].kind = "=" /\ n > 1
    BY <1>4
  <2>2. n \in DOMAIN read /\ read[n].kind = "@"
    BY <1>2, <1>3
  <2> QED BY <2>1, <2>2 DEF PlainUpTo
<1>7. LastIs(h, "@") => Search(annotes, tok.name) = {}
  <2> SUFFICES ASSUME LastIs(h, "@"), NEW k \in DOMAIN annotes, Finds(tok.name, annotes[k].name) PROVE FALSE
    BY DEF Search
  <2> DEFINE m == n - 1
  <2>1. m \in DOMAIN read /\ m + 1 \in DOMAIN read /\ read[m].kind = "@" /\ read[m + 1] = tok
    <3>1. m \in DOMAIN read /\ read[m].kind = "@" /\ m + 1 = n
      BY <1>3, <1>4
    <3> QED BY <1>2, <1>3, <3>1
  <2>2. PICK l \in DOMAIN h : l + 1 \in DOMAIN h /\ h[l].kind = "@" /\ h[l + 1].name = annotes[k].name
    BY DEF Written, WrittenOK, NotingOK, WrittenAt, h
  <2>3. /\ l \in DOMAIN read /\ l + 1 \in DOMAIN read /\ l # m
        /\ read[l] = h[l] /\ read[l + 1] = h[l + 1]
    BY <1>2, <1>3, <2>2
  <2> HIDE DEF m
  <2>4. ~Finds(read[m + 1].name, read[l + 1].name)
    BY <2>1, <2>2, <2>3 DEF PlainUpTo
  <2> QED BY <2>1, <2>2, <2>3, <2>4
<1> QED BY <1>5, <1>6, <1>7 DEF h

\* START: the schema has no namespace, nor anything else yet.
LEMMA StartWritten ==
    ASSUME IInv, IInv', Written, ok, pending, UNCHANGED input, PlainUpTo(read), Start
    PROVE  Written'
<1>1. Keep("ANY") /\ OpenNamespace(NoName) /\ UNCHANGED <<ahead, notes, type, begun>> /\ state = "START"
  BY PlainHere DEF Start, Is, In
<1>2. spaces = <<>> /\ Handled = <<>> /\ laAnnotes = <<>> /\ annotes = <<>>
  BY <1>1 DEF Written, WrittenOK, PathOK, NotingOK, NotingStates, NamingStates
<1>3. Search(spaces, NoName) = {}
  BY <1>2 DEF Search
<1>4. ns' = 1 /\ spaces' = <<[name |-> NoName, defs |-> <<>>]>>
  BY <1>1, <1>2, <1>3 DEF OpenNamespace
<1>5. Defs' = <<>>
  BY <1>4 DEF Defs
<1>6. state' = "ANY" /\ pending' /\ tok' = tok /\ read' = read
  BY <1>1 DEF Keep, input
<1>7. Handled' = <<>>
  BY <1>2, <1>6 DEF Handled
<1>8. TokenOK'
  BY <1>6 DEF Written, TokenOK
<1>9. PathOK' /\ ShapeOK'
  BY <1>6 DEF PathOK, ShapeOK, AtTop
<1>10. NotingOK'
  BY <1>1, <1>2, <1>6 DEF NotingOK, notes, NotingStates, NamingStates, ValueStates, WrittenAt
<1>11. Made' = <<>> /\ Noted' = <<>>
  <2>1. ~Open(Stage("ANY", type'))
    BY DEF Open, Stage, SymbolStates, SlashStates, BareStates, NameStates, TailStates
  <2>2. SchemaWords(<<>>) = <<>>
    BY SchemaGrows, EmptyThings
  <2>3. Made' = <<>>
    BY <1>5, <1>6, <2>1, <2>2 DEF Made, MadeWords
  <2>4. Noted' = <<>>
    BY <1>6, <1>10, NotedNext DEF NotingStates, NamingStates
  <2> QED BY <2>3, <2>4
<1>12. WordsOK'
  <2>1. WordsOf(<<>>) = <<>> /\ <<>> \in Speech
    BY EmptySeq, ReadingGrows, OneWord
  <2>2. <<>> \o <<>> = <<>>
    BY <2>1, Together
  <2> QED BY <1>7, <1>11, <2>1, <2>2 DEF WordsOK
<1> QED BY <1>8, <1>9, <1>10, <1>12 DEF Written, WrittenOK

\* Annotations that stay as they are while names are noted.
LEMMA NamesNoted ==
    ASSUME IInv, IInv', Written, ok, pending, PlainUpTo(read), UNCHANGED input, pending' \in BOOLEAN,
           state # "START", NEW s, state' = s, SameStage(s), UNCHANGED <<spaces, ns, notes, type>>,
           s \in NotingStates \ ValueStates,
           PathTo(s), s \notin AtTop \union NamingStates => Shape(s, type, D),
           Noted' = Noted \o StepWords
    PROVE  Written'
<1>1. laAnnotes' = laAnnotes /\ annotes' \in {annotes, <<>>}
  BY DEF notes
<1>2. NotingOK'
  BY <1>1, NotingStays
<1> QED BY <1>2, NotesStep

\* DEF_OR_ANNOTE, SYMBOL_NAME: a name is noted after the annotations.
LEMMA NameWritten ==
    ASSUME IInv, IInv', Written, ok, pending, UNCHANGED input, PlainUpTo(read), DefOrAnnote \/ SymbolName
    PROVE  Written'
<1>1. CASE Reject
  BY <1>1, Otherwise DEF Reject
<1>2. CASE ~Reject /\ Is({"@"})
  <2>1. /\ state = "DEF_OR_ANNOTE" /\ Goto("DEF_ANNOTE")
        /\ UNCHANGED <<spaces, ns, ahead, notes, type, begun>>
    BY <1>2 DEF DefOrAnnote, SymbolName, In, Is, ahead
  <2>2. tok.kind \notin Spoken
    BY <1>2 DEF Is, Spoken, BuiltIn
  <2>3. PathTo("DEF_ANNOTE")
    BY <1>2, <2>1 DEF PathTo, Goto, Is
  <2>4. Quietly("DEF_ANNOTE")
    BY <2>1, TypeOfState, QuietMoves
  <2> QED BY <2>1, <2>2, <2>3, <2>4, SilentStep
<1>3. CASE ~Reject /\ ~Is({"@"})
  <2> DEFINE s == IF state = "DEF_OR_ANNOTE" THEN "DEF_TYPE" ELSE "SYMBOL"
  <2>1. /\ state \in {"DEF_OR_ANNOTE", "SYMBOL_NAME"} /\ Goto(s) /\ name' = tok.name /\ tok.kind = "name"
        /\ UNCHANGED <<spaces, ns, notes, type>>
    BY <1>3 DEF DefOrAnnote, SymbolName, In, Is, notes
  <2>2. s \in {"DEF_TYPE", "SYMBOL"} /\ (s = "SYMBOL" <=> state = "SYMBOL_NAME")
    BY <2>1
  <2> HIDE DEF s
  <2>3. SameStage(s)
    BY <2>1, <2>2 DEF SameStage, Stage, Open, SymbolStates, SlashStates, BareStates, NameStates, TailStates
  <2>4. state' = s /\ ~pending' /\ PathTo(s)
    BY <2>1, <2>2 DEF Goto, PathTo
  <2>5. s \in NotingStates \ ValueStates /\ s \in NameNoted /\ Noting(state)
    BY <2>1, <2>2 DEF NotingStates, NamingStates, ValueStates, NameNoted, AheadNoted, Noting
  <2>6. s \notin AtTop \union NamingStates => Shape(s, type, D)
    <3> SUFFICES ASSUME s = "SYMBOL" PROVE Shape(s, type, D)
      BY <2>2 DEF AtTop
    <3>1. state = "SYMBOL_NAME" /\ Shape(state, type, D)
      BY <2>2 DEF Written, WrittenOK, ShapeOK, AtTop, NamingStates
    <3> QED BY <3>1 DEF Shape, SymbolStates, SlashStates, BareStates, NameStates, EndStates, TailStates
  <2>7. StepWords = <<tok.name>>
    BY <2>1, <2>4, TokenIs DEF StepWords
  <2>8. Noted = NoteWords(annotes)
    <3>1. NotedWords(state, annotes, name, Sight) = NoteWords(annotes)
      <4>1. Forms(state, annotes, name, Sight)
        BY NotedForms
      <4> QED BY <4>1, <2>5 DEF Forms
    <3> QED BY <3>1 DEF Noted
  <2>9. Noted' = NoteWords(annotes) \o <<tok.name>>
    <3>1. annotes' = annotes
      BY <2>1 DEF notes
    <3>2. NotedWords(s, annotes, tok.name, Sight') = NoteWords(annotes) \o <<tok.name>>
      <4>1. Forms(s, annotes, tok.name, Sight')
        BY NotedForms
      <4> QED BY <4>1, <2>5 DEF Forms
    <3>3. Noted' = NotedWords(s, annotes, tok.name, Sight')
      BY <2>1, <2>4, <3>1 DEF Noted
    <3> QED BY <3>2, <3>3
  <2>10. Noted' = Noted \o StepWords
    BY <2>7, <2>8, <2>9
  <2>11. state # "START" /\ pending' \in BOOLEAN
    <3>1. state # "START"
      BY <2>1
    <3>2. pending' = FALSE
      BY <2>1 DEF Goto
    <3> QED BY <3>1, <3>2
  <2> QED BY <2>1, <2>3, <2>4, <2>5, <2>6, <2>10, <2>11, NamesNoted
<1> QED BY <1>1, <1>2, <1>3

\* ENUM_OR_TYPEDEF: a name or a type is noted after the name of the definition.
LEMMA AheadWritten ==
    ASSUME IInv, IInv', Written, ok, pending, UNCHANGED input, PlainUpTo(read), NoTimes, EnumOrTypedef
    PROVE  Written'
<1>1. CASE Reject
  BY <1>1, Otherwise DEF Reject
<1>2. CASE Is({"@"})
  <2>1. state = "ENUM_OR_TYPEDEF" /\ tok.kind = "@"
    BY <1>2 DEF EnumOrTypedef, In, Is
  <2>2. LastIs(Handled, "=")
    BY <2>1 DEF Written, WrittenOK, PathOK
  <2> QED BY <2>1, <2>2, PlainHere
<1>3. CASE ~Reject /\ ~Is({"@"})
  <2> DEFINE s == CASE Is({"|"}) -> "ENUM_SINGLETON"
                    [] Is({"name"}) -> "SYMBOL_OR_REF"
                    [] OTHER -> "TYPEDEF"
  <2>1. /\ state = "ENUM_OR_TYPEDEF" /\ Goto(s) /\ UNCHANGED <<spaces, ns, name, notes, type>>
        /\ \/ s = "ENUM_SINGLETON" /\ tok.kind = "|" /\ UNCHANGED <<laName, laType>>
           \/ s = "SYMBOL_OR_REF" /\ tok.kind = "name" /\ laName' = tok.name /\ laType' = "ref"
           \/ s = "TYPEDEF" /\ tok.kind \in BuiltIn /\ laType' = IType(tok.kind) /\ UNCHANGED laName
    <3>1. \A k \in BuiltIn : k \notin {"|", "name"}
      BY DEF BuiltIn
    <3> QED BY <1>3, <3>1 DEF EnumOrTypedef, In, Is
  <2> HIDE DEF s
  <2>2. state' = s /\ ~pending' /\ pending' \in BOOLEAN /\ PathTo(s)
    BY <2>1 DEF Goto, PathTo
  <2>3. SameStage(s)
    BY <2>1 DEF SameStage, Stage, Open, SymbolStates, SlashStates, BareStates, NameStates, TailStates
  <2>4. s \in NotingStates \ ValueStates /\ s \in NamingStates /\ state \in NameNoted
    BY <2>1 DEF NotingStates, NamingStates, ValueStates, NameNoted
  <2>5. annotes' = annotes /\ name' = name
    BY <2>1 DEF notes
  <2>6. Noted = NoteWords(annotes) \o <<name>> /\ Noted \in Speech
    <3>1. NotedWords(state, annotes, name, Sight) = NoteWords(annotes) \o <<name>>
      <4>1. Forms(state, annotes, name, Sight)
        BY NotedForms
      <4> QED BY <4>1, <2>4 DEF Forms
    <3>2. Noted \in Speech
      BY NotedNow DEF Written, WrittenOK
    <3> QED BY <3>1, <3>2 DEF Noted
  <2>7. Noted' = Noted \o StepWords
    <3>1. CASE s = "ENUM_SINGLETON"
      <4>1. s \in NameNoted
        BY <3>1 DEF NameNoted
      <4>2. Noted' = NoteWords(annotes) \o <<name>>
        <5>1. NotedWords(s, annotes, name, Sight') = NoteWords(annotes) \o <<name>>
          <6>1. Forms(s, annotes, name, Sight')
            BY NotedForms
          <6> QED BY <6>1, <4>1 DEF Forms
        <5>2. Noted' = NotedWords(s, annotes, name, Sight')
          BY <2>2, <2>5 DEF Noted
        <5> QED BY <5>1, <5>2
      <4>3. tok.kind \notin Spoken
        BY <2>1, <3>1 DEF Spoken, BuiltIn
      <4>4. StepWords = <<>>
        BY <4>3, Silent
      <4> QED BY <2>6, <4>2, <4>4, Together
    <3>2. CASE s # "ENUM_SINGLETON"
      <4>1. s \in AheadNoted
        BY <2>1, <3>2 DEF AheadNoted
      <4>2. Noted' = (NoteWords(annotes) \o <<name>>) \o <<Sight'>>
        <5>1. NotedWords(s, annotes, name, Sight') = (NoteWords(annotes) \o <<name>>) \o <<Sight'>>
          <6>1. Forms(s, annotes, name, Sight')
            BY NotedForms
          <6> QED BY <6>1, <4>1 DEF Forms
        <5>2. Noted' = NotedWords(s, annotes, name, Sight')
          BY <2>2, <2>5 DEF Noted
        <5> QED BY <5>1, <5>2
      <4>3. StepWords = <<Sight'>>
        <5>1. CASE s = "SYMBOL_OR_REF"
          <6>1. Sight' = tok.name /\ tok.kind = "name"
            BY <2>1, <5>1 DEF Sight
          <6> QED BY <2>2, <6>1, TokenIs DEF StepWords
        <5>2. CASE s = "TYPEDEF"
          <6>1. tok.kind \in BuiltIn /\ laType' = IType(tok.kind)
            BY <2>1, <5>2
          <6>2. tok.kind \notin {"milliTime", "nanoTime"} /\ tok.kind # "ref"
            <7>1. tok \in Tokens
              BY DEF IInv, InputOK
            <7> QED BY <6>1, <7>1 DEF Tokens, Eof, NoTimes, BuiltIn
          <6>3. Sight' = tok.kind
            BY <6>1, <6>2 DEF Sight, IType
          <6> QED BY <2>2, <6>1, <6>3, TokenIs DEF StepWords
        <5> QED BY <2>1, <3>2, <5>1, <5>2
      <4> QED BY <2>6, <4>2, <4>3
    <3> QED BY <3>1, <3>2
  <2>8. state # "START" /\ UNCHANGED <<spaces, ns, notes, type>>
    BY <2>1
  <2> QED BY <2>2, <2>3, <2>4, <2>7, <2>8, NamesNoted
<1> QED BY <1>1, <1>2, <1>3

-----------------------------------------------------------------------------
\* Annotations.

\* One word after another.
LEMMA PairOfWords ==
    ASSUME NEW x, NEW y
    PROVE  <<x>> \o <<y>> = <<x, y>>
<1> DEFINE T == {x, y}
           p == <<x>>
           q == <<y>>
           r == <<x, y>>
<1>1. /\ p \in Seq(T) /\ Len(p) = 1 /\ p[1] = x
      /\ q \in Seq(T) /\ Len(q) = 1 /\ q[1] = y
      /\ r \in Seq(T) /\ Len(r) = 2 /\ r[1] = x /\ r[2] = y
  OBVIOUS
<1> HIDE DEF T, p, q, r
<1>2. /\ p \o q \in Seq(T) /\ Len(p \o q) = 2
      /\ \A i \in 1 .. 2 : (p \o q)[i] = IF i <= 1 THEN p[i] ELSE q[i - 1]
  BY <1>1, ConcatProperties
<1>3. (p \o q)[1] = x /\ (p \o q)[2] = y
  BY <1>1, <1>2
<1> DEFINE c == p \o q
<1>4. c \in Seq(T) /\ Len(c) = 2 /\ c[1] = x /\ c[2] = y
  BY <1>2, <1>3
<1> HIDE DEF c
<1>5. \A i \in 1 .. Len(c) : c[i] = r[i]
  BY <1>1, <1>4
<1>6. c = r
  BY <1>1, <1>4, <1>5, SeqEqual
<1> QED BY <1>6 DEF c, p, q, r

\* A new annotation was written where its name is handled.
LEMMA NewIsWritten ==
    ASSUME NEW l \in Seq(Tokens), NEW t \in Tokens, NEW a \in Seq(NotesRead), NEW e \in NotesRead,
           WrittenAt(a, l), LastIs(l, "@"), e.name = t.name
    PROVE  WrittenAt(Append(a, e), Append(l, t))
<1> DEFINE r == Append(l, t)
           b == Append(a, e)
           n == Len(l)
           m == Len(a)
<1>1. /\ DOMAIN r = 1 .. (n + 1) /\ n \in Nat /\ r[n + 1] = t
      /\ \A k \in 1 .. n : r[k] = l[k]
  BY Appended
<1>2. /\ DOMAIN b = 1 .. (m + 1) /\ DOMAIN a = 1 .. m /\ m \in Nat /\ b[m + 1] = e
      /\ \A k \in 1 .. m : b[k] = a[k]
  BY Appended
<1>3. WrittenAt(a, r)
  BY StaysWritten
<1>4. n >= 1 /\ l[n].kind = "@"
  BY EmptySeq DEF LastIs, Last
<1> HIDE DEF r, b, n, m
<1>5. n \in DOMAIN r /\ n + 1 \in DOMAIN r /\ r[n] = l[n]
  BY <1>1, <1>4
<1>6. WrittenAt(b, r)
  <2> SUFFICES ASSUME NEW k \in DOMAIN b
               PROVE  \E i \in DOMAIN r : i + 1 \in DOMAIN r /\ r[i].kind = "@" /\ r[i + 1].name = b[k].name
    BY DEF WrittenAt
  <2>1. CASE k = m + 1
    BY <1>1, <1>2, <1>4, <1>5, <2>1
  <2>2. CASE k # m + 1
    <3>1. k \in DOMAIN a /\ b[k] = a[k]
      BY <1>2, <2>2
    <3> QED BY <1>3, <3>1 DEF WrittenAt
  <2> QED BY <2>1, <2>2
<1> QED BY <1>6 DEF b, r

\* Annotations of the same names.
LEMMA SameNamesWritten ==
    ASSUME NEW l, NEW a, NEW b, WrittenAt(a, l), DOMAIN b = DOMAIN a, \A k \in DOMAIN a : b[k].name = a[k].name
    PROVE  WrittenAt(b, l)
BY DEF WrittenAt

\* The states in which a plain schema has annotations.
LEMMA AnnoteShapes ==
    ASSUME state \notin AtTop \union NamingStates => Shape(state, type, D)
    PROVE  /\ state \in {"DEF_ANNOTE", "SYMBOL_ANNOTE", "NAME_ANNOTE"} =>
                 LET s == ValueState(state) IN
                 /\ s \in {"DEF_ANNOTE_VALUE", "SYMBOL_ANNOTE_VALUE", "NAME_ANNOTE_VALUE"}
                 /\ s \notin AtTop \union NamingStates => Shape(s, type, D)
           /\ state \in {"DEF_ANNOTE_VALUE", "SYMBOL_ANNOTE_VALUE", "NAME_ANNOTE_VALUE"} =>
                 LET s == AfterValue(state) IN
                 /\ s \in {"DEF_OR_ANNOTE", "SYMBOL_NAME", "FIELD_NAME"}
                 /\ s \notin AtTop \union NamingStates => Shape(s, type, D)
<1> USE DEF Shape, AtTop, SymbolStates, SlashStates, BareStates, NameStates, EndStates, TailStates, NamingStates
<1>1. ASSUME state \in {"DEF_ANNOTE", "SYMBOL_ANNOTE", "NAME_ANNOTE"}
      PROVE  LET s == ValueState(state) IN
             /\ s \in {"DEF_ANNOTE_VALUE", "SYMBOL_ANNOTE_VALUE", "NAME_ANNOTE_VALUE"}
             /\ s \notin AtTop \union NamingStates => Shape(s, type, D)
  <2>1. /\ ValueState("DEF_ANNOTE") = "DEF_ANNOTE_VALUE"
        /\ ValueState("SYMBOL_ANNOTE") = "SYMBOL_ANNOTE_VALUE"
        /\ ValueState("NAME_ANNOTE") = "NAME_ANNOTE_VALUE"
    BY DEF ValueState
  <2> QED BY <1>1, <2>1
<1>2. ASSUME state \in {"DEF_ANNOTE_VALUE", "SYMBOL_ANNOTE_VALUE", "NAME_ANNOTE_VALUE"}
      PROVE  LET s == AfterValue(state) IN
             /\ s \in {"DEF_OR_ANNOTE", "SYMBOL_NAME", "FIELD_NAME"}
             /\ s \notin AtTop \union NamingStates => Shape(s, type, D)
  <2>1. /\ AfterValue("DEF_ANNOTE_VALUE") = "DEF_OR_ANNOTE"
        /\ AfterValue("SYMBOL_ANNOTE_VALUE") = "SYMBOL_NAME"
        /\ AfterValue("NAME_ANNOTE_VALUE") = "FIELD_NAME"
    BY DEF AfterValue
  <2> QED BY <1>2, <2>1
<1> QED BY <1>1, <1>2

\* The name of an annotation is noted; a plain schema does not have it twice.
LEMMA AnnoteNameWritten ==
    ASSUME IInv, IInv', Written, ok, pending, UNCHANGED input, PlainUpTo(read), AnnoteName
    PROVE  Written'
<1>1. CASE Reject
  BY <1>1, Otherwise DEF Reject
<1>2. CASE ~Reject
  <2> DEFINE s == ValueState(state)
             new == [name |-> tok.name, value |-> NoName, at |-> begun]
  <2>1. /\ state \in AnnoteStates /\ tok.kind \in {"name", "cname"} /\ Goto(s)
        /\ UNCHANGED <<spaces, ns, ahead, type, begun>>
    BY <1>2 DEF AnnoteName, Is
  <2>2. PathOK /\ NotingOK /\ (state \notin AtTop \union NamingStates => Shape(state, type, D))
    BY DEF Written, WrittenOK, ShapeOK
  <2>3. state \in {"DEF_ANNOTE", "SYMBOL_ANNOTE", "NAME_ANNOTE"}
    BY <2>1, <2>2 DEF AnnoteStates, PathOK
  <2>4. LastIs(Handled, "@")
    BY <2>2, <2>3 DEF PathOK
  <2>5. Search(annotes, tok.name) = {}
    BY <2>4, PlainHere
  <2>6. /\ annotes' = Append(annotes, new) /\ laAnnotes' = laAnnotes
        /\ annote' = [list |-> "annotes", index |-> Len(annotes) + 1]
    BY <1>2, <2>3, <2>5 DEF AnnoteName
  <2>7. s \in {"DEF_ANNOTE_VALUE", "SYMBOL_ANNOTE_VALUE", "NAME_ANNOTE_VALUE"}
        /\ (s \notin AtTop \union NamingStates => Shape(s, type, D))
    BY <2>2, <2>3, AnnoteShapes
  <2>8. Beside(s)
    BY <2>1, AnnoteMoves
  <2> HIDE DEF s
  <2>9. state' = s /\ pending' = FALSE
    BY <2>1 DEF Goto
  <2>10. /\ tok \in Tokens /\ Handled \in Seq(Tokens) /\ Handled' = Append(Handled, tok)
         /\ annotes \in Seq(NotesRead)
    <3>1. pending' \in BOOLEAN /\ ~pending'
      BY <2>9
    <3> QED BY <3>1, Handles DEF Written, IInv, NotesOK
  <2>11. new \in NotesRead /\ new.name = tok.name
    <3>1. tok.name \in Texts /\ NoName \in Texts /\ begun \in Nat
      BY TokenParts, EmptyThings DEF IInv, InputOK, ScalarsOK
    <3> QED BY <3>1 DEF NotesRead
  <2> HIDE DEF new
  <2>12. NotingOK'
    <3>1. WrittenAt(annotes', Handled')
      BY <2>2, <2>4, <2>6, <2>10, <2>11, NewIsWritten DEF NotingOK
    <3>2. Len(annotes') = Len(annotes) + 1 /\ annotes' # <<>>
      BY <2>6, <2>10, <2>11, Appended
    <3>3. s \in NotingStates
      BY <2>7 DEF NotingStates
    <3> QED BY <2>2, <2>6, <2>9, <3>1, <3>2, <3>3 DEF NotingOK
  <2>13. Noted' = Noted \o StepWords
    <3>1. Noted = NoteWords(annotes)
      <4>1. Forms(state, annotes, name, Sight)
        BY NotedForms
      <4>2. Noting(state)
        BY <2>3 DEF Noting, ValueStates, NameNoted, AheadNoted
      <4> QED BY <4>1, <4>2 DEF Forms, Noted
    <3>2. Front(annotes') = annotes /\ Last(annotes') = new
      BY <2>6, <2>10, <2>11, SplitAppended
    <3>3. Noted' = NoteWords(Front(annotes')) \o <<Last(annotes').name>>
      <4>1. Forms(s, annotes', name', Sight')
        BY NotedForms
      <4>2. s \in ValueStates
        BY <2>7 DEF ValueStates
      <4>3. Noted' = NotedWords(s, annotes', name', Sight')
        BY <2>9 DEF Noted
      <4> QED BY <4>1, <4>2, <4>3 DEF Forms
    <3>4. StepWords = <<tok.name>>
      BY <2>1, <2>9, TokenIs DEF StepWords
    <3> QED BY <2>11, <3>1, <3>2, <3>3, <3>4
  <2>14. PathTo(s) /\ SameStage(s) /\ state # "START" /\ pending' \in BOOLEAN
    BY <2>3, <2>7, <2>8, <2>9 DEF PathTo, SameStage, Beside
  <2> QED BY <2>1, <2>7, <2>9, <2>12, <2>13, <2>14, NotesStep
<1> QED BY <1>1, <1>2

\* The value of an annotation is noted after its name.
LEMMA AnnoteValueWritten ==
    ASSUME IInv, IInv', Written, ok, pending, UNCHANGED input, PlainUpTo(read), AnnoteValue
    PROVE  Written'
<1>1. CASE Reject
  BY <1>1, Otherwise DEF Reject
<1>2. CASE ~Reject
  <2> DEFINE s == AfterValue(state)
             n == Len(annotes)
             e == [annotes[n] EXCEPT !.value = tok.name, !.at = begun]
  <2>1. /\ state \in ValueStates /\ tok.kind = "literal" /\ Goto(s)
        /\ UNCHANGED <<spaces, ns, ahead, annote, type, begun>>
    BY <1>2, StatesByName DEF AnnoteValue, Is
  <2>2. PathOK /\ NotingOK /\ (state \notin AtTop \union NamingStates => Shape(state, type, D))
    BY DEF Written, WrittenOK, ShapeOK
  <2>3. state \in {"DEF_ANNOTE_VALUE", "SYMBOL_ANNOTE_VALUE", "NAME_ANNOTE_VALUE"}
    BY <2>1, <2>2 DEF ValueStates, PathOK
  <2>4. annotes # <<>> /\ annote.list = "annotes" /\ annote.index = n /\ annotes \in Seq(NotesRead)
    BY <2>1, <2>2 DEF NotingOK, IInv, NotesOK
  <2>5. laAnnotes' = laAnnotes /\ annotes' = [annotes EXCEPT ![n].value = tok.name, ![n].at = begun]
    BY <1>2, <2>4 DEF AnnoteValue
  <2>6. /\ n \in 1 .. n /\ annotes[n] \in NotesRead /\ Last(annotes) = annotes[n]
        /\ Front(annotes) \in Seq(NotesRead)
    BY <2>4, Split DEF Last
  <2>7. e \in NotesRead /\ e.name = annotes[n].name /\ e.value = tok.name
    <3>1. tok.name \in Texts /\ begun \in Nat
      BY TokenParts DEF IInv, InputOK, ScalarsOK
    <3> QED BY <2>6, <3>1 DEF NotesRead
  <2>8. annotes' = [annotes EXCEPT ![n] = e]
    BY <2>4, <2>5, <2>6 DEF NotesRead
  <2> HIDE DEF e
  <2>9. annotes' = Append(Front(annotes), e)
    BY <2>4, <2>7, <2>8, SplitReplaced
  <2>10. s \in {"DEF_OR_ANNOTE", "SYMBOL_NAME", "FIELD_NAME"} /\ Beside(s)
         /\ (s \notin AtTop \union NamingStates => Shape(s, type, D))
    BY <2>1, <2>2, <2>3, AnnoteShapes, AnnoteMoves
  <2> HIDE DEF s
  <2>11. state' = s /\ pending' = FALSE
    BY <2>1 DEF Goto
  <2>12. /\ tok \in Tokens /\ Handled \in Seq(Tokens) /\ Handled' = Append(Handled, tok)
    <3>1. pending' \in BOOLEAN /\ ~pending'
      BY <2>11
    <3> QED BY <3>1, Handles DEF Written
  <2>13. NotingOK'
    <3>1. WrittenAt(annotes, Handled')
      BY <2>2, <2>12, StaysWritten DEF NotingOK
    <3>2. DOMAIN annotes' = DOMAIN annotes /\ \A k \in DOMAIN annotes : annotes'[k].name = annotes[k].name
      BY <2>7, <2>8
    <3>3. WrittenAt(annotes', Handled')
      BY <3>1, <3>2, SameNamesWritten
    <3>4. s \in NotingStates /\ s \notin ValueStates
      BY <2>10 DEF NotingStates, ValueStates
    <3> QED BY <2>2, <2>5, <2>11, <3>3, <3>4 DEF NotingOK
  <2>14. Noted' = Noted \o StepWords
    <3> DEFINE a == NoteWords(Front(annotes))
               x == annotes[n].name
               y == tok.name
    <3>1. Noted = a \o <<x>>
      <4>1. Forms(state, annotes, name, Sight)
        BY NotedForms
      <4> QED BY <2>1, <2>6, <4>1 DEF Forms, Noted
    <3>2. Noted' = NoteWords(annotes')
      <4>1. Forms(s, annotes', name', Sight')
        BY NotedForms
      <4>2. Noting(s)
        BY <2>10 DEF Noting, ValueStates, NameNoted, AheadNoted
      <4>3. Noted' = NotedWords(s, annotes', name', Sight')
        BY <2>11 DEF Noted
      <4> QED BY <4>1, <4>2, <4>3 DEF Forms
    <3>3. NoteWords(annotes') = a \o <<x, y>>
      BY <2>6, <2>7, <2>9, NotesGrow
    <3>4. StepWords = <<y>>
      BY <2>1, <2>11, TokenIs DEF StepWords
    <3>5. a \in Speech /\ <<x>> \in Speech /\ <<y>> \in Speech
      <4>1. x \in Vocabulary /\ y \in Vocabulary
        <5>1. x \in Texts /\ y \in Texts
          BY <2>6, <2>7 DEF NotesRead
        <5> HIDE DEF x, y, Texts
        <5> QED BY <5>1 DEF Vocabulary
      <4> HIDE DEF x, y
      <4> QED BY <2>6, <4>1, NotesGrow, OneWord
    <3>6. <<x>> \o <<y>> = <<x, y>>
      BY PairOfWords
    <3> HIDE DEF a, x, y
    <3>7. Associative(a, <<x>>, <<y>>)
      BY <3>5, Regroup
    <3> QED BY <3>1, <3>2, <3>3, <3>4, <3>6, <3>7 DEF Associative
  <2>15. PathTo(s) /\ SameStage(s) /\ state # "START" /\ pending' \in BOOLEAN
    BY <2>3, <2>10, <2>11 DEF PathTo, SameStage, Beside
  <2> QED BY <2>1, <2>10, <2>11, <2>13, <2>14, <2>15, NotesStep
<1> QED BY <1>1, <1>2

-----------------------------------------------------------------------------
\* Steps that begin a definition.

\* The words of a definition that begins.
LEMMA NewDefWords ==
    ASSUME IInv, state \notin ValueStates, begun >= 1, NEW kind \in {"group", "typedef", "enum"}
    PROVE  LET d == Definition(kind, name)
               w == NoteWords(annotes) \o <<name>> IN
           /\ d \in DefsRead /\ w \in Speech
           /\ kind # "typedef" => DefWords(d) = w
           /\ kind = "group" => d.kind = "group" /\ d.super = NoName /\ d.fields = <<>>
           /\ \A t \in TypesRead : kind = "typedef" =>
                 LET e == [d EXCEPT !.type = t] IN
                 e \in DefsRead /\ e.kind = "typedef" /\ e.type = t /\ DefWords(e) = w \o TypeWords(t)
<1> DEFINE d == Definition(kind, name)
           w == NoteWords(annotes) \o <<name>>
<1>1. d \in DefsRead /\ d.kind = kind
  BY NewDef
<1>2. /\ d.a = annotes /\ d.name = name /\ d.super = NoName /\ d.fields = <<>> /\ d.symbols = <<>>
  BY DEF Definition
<1> HIDE DEF d
<1>3. /\ DefWords(d) \in Speech /\ OpeningWords(d) \in Speech /\ SuperWords(d) \in Speech
      /\ d.kind = "group" => DefWords(d) = OpeningWords(d) \o (SuperWords(d) \o FieldsWords(d.fields))
      /\ d.kind = "enum" => DefWords(d) = OpeningWords(d) \o SymbolsWords(d.symbols)
  BY <1>1, DefSpeaks
<1>4. OpeningWords(d) = w
  BY <1>2 DEF OpeningWords
<1>5. SuperWords(d) = <<>> /\ FieldsWords(<<>>) = <<>> /\ SymbolsWords(<<>>) = <<>>
  BY <1>2, EmptyThings, FieldsGrow, SymbolsGrow DEF SuperWords
<1> HIDE DEF w
<1>6. w \in Speech /\ w \o <<>> = w /\ <<>> \o <<>> = <<>>
  BY <1>3, <1>4, <1>5, Together
<1>7. kind # "typedef" => DefWords(d) = w
  BY <1>1, <1>2, <1>3, <1>4, <1>5, <1>6
<1>8. ASSUME NEW t \in TypesRead, kind = "typedef"
      PROVE  LET e == [d EXCEPT !.type = t] IN
             e \in DefsRead /\ e.kind = "typedef" /\ e.type = t /\ DefWords(e) = w \o TypeWords(t)
  <2> DEFINE e == [d EXCEPT !.type = t]
  <2>1. e \in DefsRead /\ e.kind = "typedef" /\ e.type = t /\ e.a = d.a /\ e.name = d.name
    BY <1>1, <1>8 DEF DefsRead
  <2> HIDE DEF e
  <2>2. DefWords(e) = OpeningWords(e) \o TypeWords(t)
    BY <2>1, DefSpeaks
  <2>3. OpeningWords(e) = w
    BY <1>2, <2>1 DEF OpeningWords, w
  <2> QED BY <2>1, <2>2, <2>3 DEF e
<1> QED BY <1>1, <1>2, <1>6, <1>7, <1>8 DEF d, w

\* A step that begins a definition makes what was noted.
LEMMA BeginsStep ==
    ASSUME IInv, IInv', Written, ok, pending, UNCHANGED input, PlainUpTo(read), pending' \in BOOLEAN,
           state \in {"DEF_TYPE", "TYPEDEF", "ENUM", "ENUM_SINGLETON"},
           NEW d \in DefsRead, AddDef(d), ns' = ns, NEW s, state' = s, PathTo(s),
           annotes' = <<>>, laAnnotes' = <<>>, s \notin ValueStates, ~Open(Stage(s, type')),
           s \notin AtTop \union NamingStates => Shape(s, type', d),
           DefWords(d) \o Noted' = Noted \o StepWords
    PROVE  Written'
<1>1. NotingOK'
  <2>1. laAnnotes' = laAnnotes
    BY DEF Written, WrittenOK, NotingOK
  <2> QED BY <2>1, NotingStays
<1>2. ns \in 1 .. Len(spaces) /\ SpacesOK(spaces)
  BY DEF IInv, PlaceOK, DataOK
<1>3. Defs \in Seq(DefsRead) /\ Defs' = Append(Defs, d)
  BY <1>2, DefsAdded
<1>4. D' = d
  <2>1. Last(Append(Defs, d)) = d
    BY <1>3, SplitAppended
  <2>2. D' = Last(Defs')
    BY DEF D, Last
  <2> QED BY <1>3, <2>1, <2>2
<1>5. ShapeOK'
  BY <1>4 DEF ShapeOK
<1>6. Noted \in Speech /\ Noted' \in Speech /\ StepWords \in Speech
  <2>1. Noted \in Speech
    BY NotedNow DEF Written, WrittenOK
  <2>2. Noted' \in Speech
    BY <1>1, NotedNext
  <2>3. StepWords \in Speech
    BY Handles DEF Written
  <2> QED BY <2>1, <2>2, <2>3
<1>7. Becomes(Made', Noted', Made, Noted, StepWords)
  <2>1. state \in NamingStates \union {"DEF_TYPE"}
    BY DEF NamingStates
  <2> DEFINE t == Noted'
             r == Noted
             x == StepWords
  <2>2. t \in Speech /\ r \in Speech /\ x \in Speech /\ DefWords(d) \o t = r \o x
    BY <1>6
  <2> HIDE DEF t, r, x
  <2>3. Becomes(Made', t, Made, r, x)
    BY <2>1, <2>2, MadeWhenAdded
  <2> QED BY <2>3 DEF t, r, x
<1>8. state # "START"
  OBVIOUS
<1> QED BY <1>1, <1>5, <1>7, <1>8, WordsStep

\* Nothing is noted of a definition once it is made, and the step says nothing.
LEMMA BeginsStill ==
    ASSUME IInv, IInv', Written, ok, pending, UNCHANGED input, PlainUpTo(read), pending' \in BOOLEAN,
           state \in {"DEF_TYPE", "TYPEDEF", "ENUM", "ENUM_SINGLETON"},
           NEW d \in DefsRead, AddDef(d), ns' = ns, NEW s, state' = s, PathTo(s),
           annotes' = <<>>, laAnnotes' = <<>>, s \notin NotingStates \union ValueStates \union {"TYPE_RBRACKET"},
           ~Open(Stage(s, type')),
           s \notin AtTop \union NamingStates => Shape(s, type', d),
           StepWords = <<>>, DefWords(d) = Noted
    PROVE  Written'
<1>1. NotingOK'
  <2>1. laAnnotes' = laAnnotes
    BY DEF Written, WrittenOK, NotingOK
  <2> QED BY <2>1, NotingStays
<1>2. Noted' = <<>>
  BY <1>1, NotedNext
<1>3. DefWords(d) \in Speech
  BY DefSpeaks
<1>4. DefWords(d) \o Noted' = Noted \o StepWords
  BY <1>2
<1> QED BY <1>4, BeginsStep

\* DEF_TYPE: the name was that of a group, or a = is shifted.
LEMMA DefTypeWritten ==
    ASSUME IInv, IInv', Written, ok, pending, UNCHANGED input, PlainUpTo(read), DefType
    PROVE  Written'
<1> DEFINE grouped == Is({"/", ":", "->", "name", "cname", "@", "namespace", "eof"})
<1>1. CASE Reject
  BY <1>1, Otherwise DEF Reject
<1>2. state = "DEF_TYPE" /\ state \notin ValueStates /\ begun >= 1
  BY DEF DefType, In, ValueStates, IInv, ScalarsOK
<1>3. Noted = NoteWords(annotes) \o <<name>>
  <2>1. Forms(state, annotes, name, Sight)
    BY NotedForms
  <2>2. state \in NameNoted
    BY <1>2 DEF NameNoted
  <2> QED BY <2>1, <2>2 DEF Forms, Noted
<1>4. NotingOK /\ laAnnotes = <<>>
  BY DEF Written, WrittenOK, NotingOK
<1>5. CASE ~Reject /\ grouped
  <2> DEFINE s == CASE Is({"/"}) -> "GROUP_ID"
                    [] Is({":"}) -> "GROUP_SUPER"
                    [] Is({"->"}) -> "FIELD"
                    [] OTHER -> "ANY"
             d == Definition("group", name)
  <2>1. /\ AddDef(d) /\ annotes' = <<>>
        /\ UNCHANGED <<ns, ahead, laAnnotes, annote, type, begun>>
        /\ CASE Is({"/"}) -> Goto("GROUP_ID")
             [] Is({":"}) -> Goto("GROUP_SUPER")
             [] Is({"->"}) -> Goto("FIELD")
             [] OTHER -> Keep("ANY")
    BY <1>5 DEF DefType, Is
  <2>2. Keep(s) \/ (Goto(s) /\ tok.kind \in {"/", ":", "->"})
    BY <2>1 DEF Is
  <2>3. s \in {"GROUP_ID", "GROUP_SUPER", "FIELD", "ANY"}
    OBVIOUS
  <2> HIDE DEF s
  <2>4. /\ d \in DefsRead /\ DefWords(d) = NoteWords(annotes) \o <<name>>
        /\ d.kind = "group" /\ d.super = NoName /\ d.fields = <<>>
    BY <1>2, NewDefWords
  <2> HIDE DEF d
  <2>5. state' = s /\ pending' \in BOOLEAN /\ laAnnotes' = <<>> /\ ns' = ns
    BY <1>4, <2>1, <2>2 DEF Keep, Goto
  <2>6. StepWords = <<>>
    <3>1. pending' \/ tok.kind \notin Spoken
      BY <2>2 DEF Keep, Goto, Spoken, BuiltIn
    <3> QED BY <3>1, Silent
  <2>7. PathTo(s) /\ s \notin NotingStates \union ValueStates \union {"TYPE_RBRACKET"} /\ ~Open(Stage(s, type'))
    BY <2>3 DEF PathTo, NotingStates, NamingStates, ValueStates, Open, Stage, SymbolStates, SlashStates,
       BareStates, NameStates, TailStates
  <2>8. s \notin AtTop \union NamingStates => Shape(s, type', d)
    BY <2>3, <2>4 DEF Shape, AtTop, SymbolStates, SlashStates, BareStates, NameStates, EndStates, TailStates
  <2>9. DefWords(d) = Noted
    BY <1>3, <2>4
  <2> QED BY <1>2, <2>1, <2>4, <2>5, <2>6, <2>7, <2>8, <2>9, BeginsStill
<1>6. CASE ~Reject /\ ~grouped
  <2> DEFINE s == "ENUM_OR_TYPEDEF"
  <2>1. /\ tok.kind = "=" /\ Goto(s) /\ UNCHANGED <<spaces, ns, ahead, notes, type, begun>>
    BY <1>6 DEF DefType, Is
  <2>2. state' = s /\ pending' = FALSE
    BY <2>1 DEF Goto
  <2>3. SameStage(s) /\ PathTo(s) /\ s \in NotingStates \ ValueStates /\ s \in NamingStates /\ s \in NameNoted
    BY <1>2, <2>1, <2>2 DEF SameStage, Stage, Open, SymbolStates, SlashStates, BareStates, NameStates, TailStates,
       PathTo, NotingStates, NamingStates, ValueStates, NameNoted
  <2>4. StepWords = <<>>
    <3>1. tok.kind \notin Spoken
      BY <2>1 DEF Spoken, BuiltIn
    <3> QED BY <3>1, Silent
  <2>5. Noted' = NoteWords(annotes) \o <<name>>
    <3>1. Forms(s, annotes, name, Sight')
      BY NotedForms
    <3>2. Noted' = NotedWords(s, annotes, name, Sight')
      BY <2>1, <2>2 DEF Noted, notes, ahead
    <3>3. NotedWords(s, annotes, name, Sight') = NoteWords(annotes) \o <<name>>
      BY <2>3, <3>1 DEF Forms
    <3> QED BY <3>2, <3>3
  <2>6. Noted \in Speech
    BY <1>4, NotedNow
  <2>7. Noted' = Noted \o StepWords
    BY <1>3, <2>4, <2>5, <2>6, Together
  <2>8. state # "START" /\ pending' \in BOOLEAN /\ UNCHANGED <<spaces, ns, notes, type>>
    BY <1>2, <2>1, <2>2
  <2> QED BY <2>2, <2>3, <2>7, <2>8, NamesNoted
<1> QED BY <1>1, <1>5, <1>6

\* TYPEDEF: what was looked ahead is the type.
LEMMA TypedefWritten ==
    ASSUME IInv, IInv', Written, ok, pending, UNCHANGED input, PlainUpTo(read), Typedef
    PROVE  Written'
<1> DEFINE n == IF laType = "ref" THEN laName ELSE NoName
           c == Definition("typedef", name)
           t == [[[c.type EXCEPT !.tag = laType] EXCEPT !.name = n] EXCEPT !.a = laAnnotes]
           d == [c EXCEPT !.type = t]
           s == IF laType = "ref" THEN "TYPE_DYNAMIC" ELSE "TYPE_LBRACKET"
           w == NoteWords(annotes) \o <<name>>
<1>1. /\ state = "TYPEDEF"
      /\ AddDef([c EXCEPT !.type.tag = laType, !.type.name = n, !.type.a = laAnnotes])
      /\ annotes' = <<>> /\ laAnnotes' = <<>> /\ type' = "typedef" /\ Keep(s)
      /\ UNCHANGED <<ns, ahead, annote, begun>>
  BY DEF Typedef, In
<1>2. state \notin ValueStates /\ begun >= 1
  BY <1>1 DEF ValueStates, NamingStates, IInv, ScalarsOK
<1>3. laType \in BuiltIn \union {"ref"} /\ laAnnotes = <<>> /\ laName \in Texts /\ NoName \in Texts
  BY EmptyThings DEF IInv, ScalarsOK, Written, WrittenOK, NotingOK
<1>4. c \in DefsRead
  BY <1>2, NewDef
<1>5. c.type = [tag |-> "none", name |-> NoName, dyn |-> FALSE, seq |-> FALSE, size |-> 0, a |-> <<>>]
  BY DEF Definition
<1>6. n \in Texts
  BY <1>3
<1> HIDE DEF c, n
<1>7. [c EXCEPT !.type.tag = laType, !.type.name = n, !.type.a = laAnnotes] = d
  BY <1>4 DEF DefsRead, TypesRead
<1>8. t \in TypesRead /\ t.tag = laType /\ t.name = n /\ t.a = <<>> /\ t.seq = FALSE
  <2>1. c.type \in TypesRead /\ c.type.seq = FALSE
    <3>1. c.type \in TypesRead
      BY <1>4 DEF DefsRead
    <3>2. c.type.seq = FALSE
      BY <1>5
    <3> QED BY <3>1, <3>2
  <2>2. ASSUME NEW u \in TypesRead, NEW x \in BuiltIn \union {"ref"}
        PROVE  [u EXCEPT !.tag = x] \in TypesRead /\ [u EXCEPT !.tag = x].tag = x /\ [u EXCEPT !.tag = x].seq = u.seq
    BY DEF TypesRead
  <2>3. ASSUME NEW u \in TypesRead, NEW x \in Texts
        PROVE  /\ [u EXCEPT !.name = x] \in TypesRead /\ [u EXCEPT !.name = x].name = x
               /\ [u EXCEPT !.name = x].tag = u.tag /\ [u EXCEPT !.name = x].seq = u.seq
    BY DEF TypesRead
  <2>4. ASSUME NEW u \in TypesRead, NEW x \in Seq(NotesRead)
        PROVE  /\ [u EXCEPT !.a = x] \in TypesRead /\ [u EXCEPT !.a = x].a = x
               /\ [u EXCEPT !.a = x].name = u.name /\ [u EXCEPT !.a = x].tag = u.tag
               /\ [u EXCEPT !.a = x].seq = u.seq
    BY DEF TypesRead
  <2> DEFINE t1 == [c.type EXCEPT !.tag = laType]
             t2 == [t1 EXCEPT !.name = n]
  <2>5. t1 \in TypesRead /\ t1.tag = laType /\ t1.seq = FALSE
    BY <1>3, <2>1, <2>2
  <2> HIDE DEF t1
  <2>6. t2 \in TypesRead /\ t2.name = n /\ t2.tag = laType /\ t2.seq = FALSE
    BY <1>6, <2>3, <2>5
  <2> HIDE DEF t2
  <2>7. laAnnotes \in Seq(NotesRead) /\ laAnnotes = <<>>
    BY <1>3 DEF IInv, NotesOK
  <2>8. /\ [t2 EXCEPT !.a = laAnnotes] \in TypesRead /\ [t2 EXCEPT !.a = laAnnotes].a = <<>>
        /\ [t2 EXCEPT !.a = laAnnotes].name = n /\ [t2 EXCEPT !.a = laAnnotes].tag = laType
        /\ [t2 EXCEPT !.a = laAnnotes].seq = FALSE
    BY <2>4, <2>6, <2>7
  <2> QED BY <2>8 DEF t1, t2
<1> HIDE DEF t
<1>9. TypeWords(t) = <<Sight>>
  <2>1. (IF t.tag = "ref" THEN t.name ELSE t.tag) = Sight
    BY <1>8 DEF Sight, n
  <2>2. NoteWords(<<>>) = <<>>
    BY EmptySeq, NotesGrow
  <2>3. Sight \in Vocabulary
    BY NotedNow DEF Written, WrittenOK
  <2>4. <<Sight>> \in Speech
    BY <2>3, OneWord
  <2>5. <<>> \o <<Sight>> = <<Sight>> /\ <<Sight>> \o <<>> = <<Sight>>
    BY <2>4, Together
  <2>6. TypeWords(t) = (NoteWords(t.a) \o <<IF t.tag = "ref" THEN t.name ELSE t.tag>>) \o
                            (IF t.seq THEN <<"[">> ELSE <<>>)
    BY DEF TypeWords
  <2> QED BY <1>8, <2>1, <2>2, <2>5, <2>6
<1>10. d \in DefsRead /\ d.kind = "typedef" /\ d.type = t /\ DefWords(d) = w \o TypeWords(t)
  BY <1>2, <1>8, NewDefWords DEF c
<1>11. AddDef(d)
  BY <1>1, <1>7
<1> HIDE DEF d
<1>12. Noted = w \o <<Sight>>
  <2>1. Forms(state, annotes, name, Sight)
    BY NotedForms
  <2>2. state \in AheadNoted
    BY <1>1 DEF AheadNoted
  <2> QED BY <2>1, <2>2 DEF Forms, Noted
<1>13. DefWords(d) = Noted
  BY <1>9, <1>10, <1>12
<1> HIDE DEF w
<1>14. state' = s /\ pending' /\ pending' \in BOOLEAN /\ s \in {"TYPE_DYNAMIC", "TYPE_LBRACKET"}
  <2>1. s \in {"TYPE_DYNAMIC", "TYPE_LBRACKET"}
    OBVIOUS
  <2> QED BY <1>1, <2>1 DEF Keep
<1> HIDE DEF s
<1>15. PathTo(s) /\ s \notin NotingStates \union ValueStates \union {"TYPE_RBRACKET"} /\ ~Open(Stage(s, type'))
  BY <1>1, <1>14 DEF PathTo, NotingStates, NamingStates, ValueStates, Open, Stage, SymbolStates, SlashStates,
     BareStates, NameStates, TailStates
<1>16. Shape(s, type', d)
  BY <1>1, <1>8, <1>10, <1>14
     DEF Shape, SymbolStates, SlashStates, BareStates, NameStates, EndStates, TailStates
<1>17. StepWords = <<>>
  BY <1>14, Silent
<1> QED BY <1>1, <1>10, <1>11, <1>13, <1>14, <1>15, <1>16, <1>17, BeginsStill

\* ENUM and ENUM_SINGLETON: what was looked ahead is the name of a symbol, or none was.
LEMMA EnumWritten ==
    ASSUME IInv, IInv', Written, ok, pending, UNCHANGED input, PlainUpTo(read), Enum
    PROVE  Written'
<1> DEFINE d == Definition("enum", name)
           s == IF state = "ENUM" THEN "SYMBOL" ELSE "SYMBOL_ANNOTES"
           w == NoteWords(annotes) \o <<name>>
<1>1. /\ state \in {"ENUM", "ENUM_SINGLETON"} /\ AddDef(d) /\ Keep(s) /\ ns' = ns
      /\ state = "ENUM" => name' = laName /\ annotes' = laAnnotes /\ laAnnotes' = <<>>
      /\ state = "ENUM_SINGLETON" => annotes' = <<>> /\ laAnnotes' = laAnnotes
  BY DEF Enum
<1>2. state \notin ValueStates /\ begun >= 1
  BY <1>1 DEF ValueStates, NamingStates, IInv, ScalarsOK
<1>3. laAnnotes = <<>> /\ (state = "ENUM" => laType = "ref") /\ NotingOK
  BY DEF Written, WrittenOK, NotingOK, PathOK
<1>4. d \in DefsRead /\ DefWords(d) = w /\ w \in Speech
  BY <1>2, NewDefWords
<1>5. d.kind = "enum"
  BY DEF Definition
<1> HIDE DEF d
<1>6. annotes' = <<>> /\ laAnnotes' = <<>>
  BY <1>1, <1>3
<1>7. state' = s /\ pending' /\ pending' \in BOOLEAN /\ s \in {"SYMBOL", "SYMBOL_ANNOTES"}
      /\ (s = "SYMBOL" <=> state = "ENUM")
  <2>1. s \in {"SYMBOL", "SYMBOL_ANNOTES"} /\ (s = "SYMBOL" <=> state = "ENUM")
    OBVIOUS
  <2> QED BY <1>1, <2>1 DEF Keep
<1> HIDE DEF s
<1>8. /\ PathTo(s) /\ s \notin ValueStates /\ s # "TYPE_RBRACKET" /\ ~Open(Stage(s, type'))
      /\ s = "SYMBOL_ANNOTES" => s \notin NotingStates
  BY <1>7 DEF PathTo, NotingStates, NamingStates, ValueStates, Open, Stage, SymbolStates, SlashStates,
     BareStates, NameStates, TailStates
<1>9. Shape(s, type', d)
  BY <1>5, <1>7 DEF Shape, SymbolStates, SlashStates, BareStates, NameStates, EndStates, TailStates
<1>10. StepWords = <<>>
  BY <1>7, Silent
<1>11. CASE state = "ENUM_SINGLETON"
  <2>1. Noted = w
    <3>1. Forms(state, annotes, name, Sight)
      BY NotedForms
    <3>2. state \in NameNoted
      BY <1>11 DEF NameNoted
    <3> QED BY <3>1, <3>2 DEF Forms, Noted
  <2>2. DefWords(d) = Noted
    BY <1>4, <2>1
  <2> HIDE DEF w
  <2> QED BY <1>1, <1>4, <1>6, <1>7, <1>8, <1>9, <1>10, <1>11, <2>2, BeginsStill
<1>12. CASE state = "ENUM"
  <2>1. Noted = w \o <<laName>>
    <3>1. Forms(state, annotes, name, Sight)
      BY NotedForms
    <3>2. state \in AheadNoted
      BY <1>12 DEF AheadNoted
    <3>3. Sight = laName
      BY <1>3, <1>12 DEF Sight
    <3> QED BY <3>1, <3>2, <3>3 DEF Forms, Noted
  <2> HIDE DEF w
  <2>2. <<laName>> \in Speech
    <3>1. laName \in Vocabulary
      <4>1. laName \in Texts
        BY DEF IInv, ScalarsOK
      <4> HIDE DEF Texts
      <4> QED BY <4>1 DEF Vocabulary
    <3> QED BY <3>1, OneWord
  <2>3. Noted' = <<laName>>
    <3>1. Forms(s, <<>>, laName, Sight')
      BY NotedForms
    <3>2. s \in NameNoted
      BY <1>7, <1>12 DEF NameNoted
    <3>3. Noted' = NotedWords(s, <<>>, laName, Sight')
      BY <1>1, <1>6, <1>7, <1>12 DEF Noted
    <3>4. NoteWords(<<>>) = <<>>
      BY EmptySeq, NotesGrow
    <3>5. <<>> \o <<laName>> = <<laName>>
      BY <2>2, Together
    <3>6. NotedWords(s, <<>>, laName, Sight') = NoteWords(<<>>) \o <<laName>>
      BY <3>1, <3>2 DEF Forms
    <3> QED BY <3>3, <3>4, <3>5, <3>6
  <2>4. w \o <<laName>> \in Speech
    BY <1>4, <2>2, Together
  <2>5. (w \o <<laName>>) \o <<>> = w \o <<laName>>
    BY <2>4, Together
  <2>6. DefWords(d) \o Noted' = Noted \o StepWords
    BY <1>4, <1>10, <2>1, <2>3, <2>5
  <2> QED BY <1>1, <1>4, <1>6, <1>7, <1>8, <1>9, <1>12, <2>6, BeginsStep
<1> QED BY <1>1, <1>11, <1>12

-----------------------------------------------------------------------------
\* Steps that write to the last definition.

\* A part that has the words it had, those that were noted and those of the step.
Says(part, was, noted, x) == part = (was \o noted) \o x

\* What comes before the part stays before it.
LEMMA SaysAfter ==
    ASSUME NEW p \in Speech, NEW q \in Speech, NEW r \in Speech, NEW x \in Speech, NEW s, Says(s, q, r, x)
    PROVE  Says(p \o s, p \o q, r, x)
<1> DEFINE m == q \o r
<1>1. m \in Speech
  BY Together
<1>2. s = m \o x
  BY DEF Says
<1>3. Associative(p, q, r)
  BY Regroup
<1> HIDE DEF m
<1>4. Associative(p, m, x)
  BY <1>1, Regroup
<1> QED BY <1>2, <1>3, <1>4 DEF Says, Associative, m

\* A step that says nothing and has nothing noted leaves the words as they are, a step
\* that has nothing noted adds its own, and one that says nothing those that were noted.
LEMMA SaysLess ==
    ASSUME NEW q \in Speech, NEW r \in Speech
    PROVE  Says(q, q, <<>>, <<>>) /\ Says(q \o r, q, <<>>, r) /\ Says(q \o r, q, r, <<>>)
<1> DEFINE m == q \o r
<1>1. m \in Speech /\ q \o <<>> = q
  BY Together
<1>2. m = m \o <<>>
  BY <1>1, Together
<1> HIDE DEF m
<1>3. Says(q, q, <<>>, <<>>)
  BY <1>1 DEF Says
<1>4. m = q \o r
  BY DEF m
<1>5. Says(m, q, <<>>, r)
  BY <1>1, <1>4 DEF Says
<1>6. Says(m, q, r, <<>>)
  BY <1>2, <1>4 DEF Says
<1> QED BY <1>3, <1>5, <1>6 DEF m

\* A step that writes to the last definition what was noted and what it says.
LEMMA SetsStep ==
    ASSUME IInv, IInv', Written, ok, pending, UNCHANGED input, PlainUpTo(read), pending' \in BOOLEAN,
           state \notin AtTop \union NamingStates,
           NEW d \in DefsRead, SetDef(d), ns' = ns, NEW s, state' = s, PathTo(s),
           s \notin NotingStates \union ValueStates \union {"TYPE_RBRACKET"},
           laAnnotes' = laAnnotes, annotes' = <<>>,
           Open(Stage(s, type')) => d.fields # <<>>,
           s \notin AtTop \union NamingStates => Shape(s, type', d),
           Says(PartWords(Stage(s, type'), d), PartWords(Stage(state, type), D), Noted, StepWords)
    PROVE  Written'
<1>1. NotingOK'
  BY NotingStays
<1>2. Noted' = <<>>
  BY <1>1, NotedNext
<1>3. Defs' = Append(Front(Defs), d) /\ Front(Defs) \in Seq(DefsRead)
  BY TheDef, DefsSet
<1>4. D' = d
  <2>1. Last(Append(Front(Defs), d)) = d
    BY <1>3, SplitAppended
  <2>2. D' = Last(Defs')
    BY DEF D, Last
  <2> QED BY <1>3, <2>1, <2>2
<1>5. ShapeOK'
  BY <1>4 DEF ShapeOK
<1>6. Noted \in Speech /\ StepWords \in Speech /\ <<>> \in Speech
  BY NotedNow, Handles, OneWord DEF Written, WrittenOK
<1>7. Open(Stage(state, type)) => D.fields # <<>>
  BY OpenHasField
<1>8. PartWords(Stage(s, type'), d) \in Speech
  BY PartSpeaks
<1>9. Becomes(PartWords(Stage(s, type'), d), <<>>, PartWords(Stage(state, type), D), Noted, StepWords)
  <2> DEFINE p == PartWords(Stage(s, type'), d)
             q == PartWords(Stage(state, type), D)
  <2>1. p \in Speech /\ Says(p, q, Noted, StepWords)
    BY <1>8
  <2> HIDE DEF p, q
  <2>2. p \o <<>> = p
    BY <2>1, Together
  <2>3. Becomes(p, <<>>, q, Noted, StepWords)
    BY <2>1, <2>2 DEF Becomes, Says
  <2> QED BY <2>3 DEF p, q
<1>10. Stage(state, type)' = Stage(s, type')
  OBVIOUS
<1>11. Becomes(Made', <<>>, Made, Noted, StepWords)
  <2> DEFINE r == Noted
             x == StepWords
  <2>1. /\ r \in Speech /\ x \in Speech
        /\ Becomes(PartWords(Stage(state, type)', d), <<>>, PartWords(Stage(state, type), D), r, x)
    BY <1>6, <1>9, <1>10
  <2>2. Open(Stage(state, type)') => d.fields # <<>>
    BY <1>10
  <2> HIDE DEF r, x
  <2>3. Becomes(Made', <<>>, Made, r, x)
    BY <1>6, <2>1, <2>2, MadeWhenSet
  <2> QED BY <2>3 DEF r, x
<1>12. state # "START"
  BY DEF AtTop
<1>13. Becomes(Made', Noted', Made, Noted, StepWords)
  BY <1>2, <1>11
<1> QED BY <1>1, <1>5, <1>12, <1>13, WordsStep

\* The same, for a step that has nothing noted, says nothing and changes no words.
LEMMA SetsNothing ==
    ASSUME IInv, IInv', Written, ok, pending, UNCHANGED input, PlainUpTo(read), pending' \in BOOLEAN,
           state \notin AtTop \union NamingStates \union NotingStates \union {"TYPE_RBRACKET"},
           NEW d \in DefsRead, SetDef(d), ns' = ns, NEW s, state' = s, PathTo(s),
           s \notin NotingStates \union ValueStates \union {"TYPE_RBRACKET"},
           UNCHANGED notes,
           Open(Stage(s, type')) => d.fields # <<>>,
           s \notin AtTop \union NamingStates => Shape(s, type', d),
           pending' \/ tok.kind \notin Spoken,
           PartWords(Stage(s, type'), d) = PartWords(Stage(state, type), D)
    PROVE  Written'
<1>1. annotes = <<>> /\ Noted = <<>>
  BY NotedNow DEF Written, WrittenOK
<1>2. StepWords = <<>>
  BY Silent
<1>3. annotes' = <<>> /\ laAnnotes' = laAnnotes
  BY <1>1 DEF notes
<1>4. PartWords(Stage(state, type), D) \in Speech
  <2>1. D \in DefsRead
    BY TheDef
  <2> QED BY <2>1, OpenHasField, PartSpeaks
<1>5. Says(PartWords(Stage(s, type'), d), PartWords(Stage(state, type), D), Noted, StepWords)
  <2> DEFINE q == PartWords(Stage(state, type), D)
  <2>1. PartWords(Stage(s, type'), d) = q /\ q \in Speech
    BY <1>4
  <2> HIDE DEF q
  <2>2. Says(q, q, <<>>, <<>>)
    BY <2>1, SaysLess
  <2> QED BY <1>1, <1>2, <2>1, <2>2 DEF q
<1> QED BY <1>3, <1>5, SetsStep

-----------------------------------------------------------------------------
\* Symbols.

\* The shape of the states after a symbol.
LEMMA SymbolShapes ==
    ASSUME NEW d, d.kind = "enum", NEW t, NEW s \in {"SYMBOL_SLASH", "SYMBOL_NEXT"}
    PROVE  /\ Shape(s, t, d) /\ PathTo(s) /\ s \notin NotingStates \union ValueStates \union {"TYPE_RBRACKET"}
           /\ ~Open(Stage(s, t))
BY DEF Shape, SymbolStates, SlashStates, BareStates, NameStates, EndStates, TailStates, PathTo, NotingStates,
   NamingStates, ValueStates, Open, Stage

\* An enum with other symbols has other words only for these.
LEMMA SymbolsSet ==
    ASSUME NEW d \in DefsRead, d.kind = "enum", NEW l \in Seq(SymbolsRead)
    PROVE  LET e == [d EXCEPT !.symbols = l] IN
           /\ e \in DefsRead /\ e.kind = "enum" /\ e.symbols = l
           /\ OpeningWords(d) \in Speech /\ SymbolsWords(d.symbols) \in Speech
           /\ DefWords(d) = OpeningWords(d) \o SymbolsWords(d.symbols)
           /\ DefWords(e) = OpeningWords(d) \o SymbolsWords(l)
<1> DEFINE e == [d EXCEPT !.symbols = l]
<1>1. e \in DefsRead /\ e.kind = "enum" /\ e.symbols = l /\ e.a = d.a /\ e.name = d.name
      /\ d.symbols \in Seq(SymbolsRead)
  BY DEF DefsRead
<1> HIDE DEF e
<1>2. DefWords(d) = OpeningWords(d) \o SymbolsWords(d.symbols) /\ OpeningWords(d) \in Speech
  BY DefSpeaks
<1>3. DefWords(e) = OpeningWords(e) \o SymbolsWords(l)
  BY <1>1, DefSpeaks
<1>4. OpeningWords(e) = OpeningWords(d)
  BY <1>1 DEF OpeningWords
<1>5. SymbolsWords(d.symbols) \in Speech
  BY <1>1, SymbolsGrow
<1> QED BY <1>1, <1>2, <1>3, <1>4, <1>5 DEF e

\* SYMBOL: the symbol has the annotations and the name that were noted.
LEMMA SymbolWritten ==
    ASSUME IInv, IInv', Written, ok, pending, UNCHANGED input, PlainUpTo(read), Symbol
    PROVE  Written'
<1>1. CASE Reject
  BY <1>1, Otherwise DEF Reject
<1>2. CASE ~Reject
  <2> DEFINE x == [name |-> name, value |-> 0, a |-> annotes]
             l == Append(D.symbols, x)
             d == [D EXCEPT !.symbols = l]
             s == "SYMBOL_SLASH"
             w == NoteWords(annotes) \o <<name>>
  <2>1. /\ state = "SYMBOL" /\ Keep(s) /\ annotes' = <<>> /\ UNCHANGED <<ns, ahead, laAnnotes, annote, type, begun>>
        /\ SetDef([D EXCEPT !.symbols = Append(@, x)])
    BY <1>2 DEF Symbol, In
  <2>2. state \notin AtTop \union NamingStates /\ state \in NameNoted /\ ~Open(Stage(state, type))
    BY <2>1 DEF AtTop, NamingStates, NameNoted, Open, Stage, SymbolStates, SlashStates, BareStates, NameStates,
       TailStates
  <2>3. D \in DefsRead /\ D.kind = "enum"
    <3>1. Shape(state, type, D)
      BY <2>2 DEF Written, WrittenOK, ShapeOK
    <3> QED BY <2>1, <2>2, <3>1, TheDef DEF Shape, SymbolStates
  <2>4. SetDef(d)
    BY <2>1
  <2>5. x \in SymbolsRead /\ SymbolWords(x) = w
    BY DEF IInv, ScalarsOK, NotesOK, SymbolsRead, SymbolWords
  <2> HIDE DEF x
  <2>6. D.symbols \in Seq(SymbolsRead) /\ l \in Seq(SymbolsRead)
    <3>1. D.symbols \in Seq(SymbolsRead)
      BY <2>3 DEF DefsRead
    <3> QED BY <2>5, <3>1, Appended
  <2>7. SymbolsWords(l) = SymbolsWords(D.symbols) \o w
    BY <2>5, <2>6, SymbolsGrow
  <2> HIDE DEF l
  <2>8. /\ d \in DefsRead /\ d.kind = "enum"
        /\ OpeningWords(D) \in Speech /\ SymbolsWords(D.symbols) \in Speech
        /\ DefWords(D) = OpeningWords(D) \o SymbolsWords(D.symbols)
        /\ DefWords(d) = OpeningWords(D) \o SymbolsWords(l)
    BY <2>3, <2>6, SymbolsSet
  <2> HIDE DEF d
  <2>9. Noted = w /\ Noted \in Speech
    <3>1. Forms(state, annotes, name, Sight)
      BY NotedForms
    <3>2. Noted \in Speech
      BY NotedNow DEF Written, WrittenOK
    <3> QED BY <2>2, <3>1, <3>2 DEF Forms, Noted
  <2> HIDE DEF w
  <2>10. Says(DefWords(d), DefWords(D), Noted, <<>>)
    <3> DEFINE p == OpeningWords(D)
               q == SymbolsWords(D.symbols)
    <3>1. p \in Speech /\ q \in Speech /\ w \in Speech /\ <<>> \in Speech
      BY <2>8, <2>9, OneWord
    <3>2. DefWords(D) = p \o q /\ DefWords(d) = p \o (q \o w)
      BY <2>7, <2>8
    <3> HIDE DEF p, q
    <3>3. Says(q \o w, q, w, <<>>)
      BY <3>1, SaysLess
    <3>4. Says(p \o (q \o w), p \o q, w, <<>>)
      BY <3>1, <3>3, SaysAfter
    <3> QED BY <2>9, <3>2, <3>4
  <2>11. /\ Shape(s, type', d) /\ PathTo(s) /\ s \notin NotingStates \union ValueStates \union {"TYPE_RBRACKET"}
         /\ ~Open(Stage(s, type'))
    BY <2>8, SymbolShapes
  <2>12. Says(PartWords(Stage(s, type'), d), PartWords(Stage(state, type), D), Noted, StepWords)
    <3>1. pending'
      BY <2>1 DEF Keep
    <3>2. StepWords = <<>>
      BY <3>1, Silent
    <3>3. PartWords(Stage(s, type'), d) = DefWords(d) /\ PartWords(Stage(state, type), D) = DefWords(D)
      BY <2>2, <2>11 DEF PartWords
    <3> QED BY <2>10, <3>2, <3>3
  <2>13. state' = s /\ pending' \in BOOLEAN
    BY <2>1 DEF Keep
  <2> QED BY <2>1, <2>2, <2>4, <2>8, <2>11, <2>12, <2>13, SetsStep
<1> QED BY <1>1, <1>2

\* SYMBOL_SLASH and SYMBOL_VALUE: the value of a symbol is not one of the words.
LEMMA ValueWritten ==
    ASSUME IInv, IInv', Written, ok, pending, UNCHANGED input, PlainUpTo(read), SymbolSlash \/ SymbolValue
    PROVE  Written'
<1>1. CASE Reject
  BY <1>1, Otherwise DEF Reject
<1>2. CASE ~Reject
  <2>1. state \in SlashStates /\ UNCHANGED <<ns, ahead, notes, type, begun>>
    BY <1>2 DEF SymbolSlash, SymbolValue, In, SlashStates
  <2>2. /\ state \notin AtTop \union NamingStates \union NotingStates \union {"TYPE_RBRACKET"}
        /\ ~Open(Stage(state, type)) /\ Stage(state, type) = "symbol"
    BY <2>1 DEF SlashStates, AtTop, NamingStates, NotingStates, Open, Stage, SymbolStates, BareStates, NameStates,
       TailStates
  <2>3. D \in DefsRead /\ D.kind = "enum" /\ D.symbols # <<>>
    <3>1. Shape(state, type, D)
      BY <2>2 DEF Written, WrittenOK, ShapeOK
    <3>2. D \in DefsRead /\ SymbolsAt("symbol", D)
      BY <2>2, TheDef DEF InStage
    <3> QED BY <2>1, <3>1, <3>2 DEF Shape, SymbolsAt
  <2>4. ASSUME NEW d \in DefsRead, d.kind = "enum", SetDef(d), DefWords(d) = DefWords(D),
               state' = "SYMBOL_NEXT", pending' \in BOOLEAN, pending' \/ tok.kind \notin Spoken
        PROVE  Written'
    <3> DEFINE s == "SYMBOL_NEXT"
    <3>1. /\ Shape(s, type', d) /\ PathTo(s) /\ s \notin NotingStates \union ValueStates \union {"TYPE_RBRACKET"}
          /\ ~Open(Stage(s, type'))
      BY <2>4, SymbolShapes
    <3>2. PartWords(Stage(s, type'), d) = PartWords(Stage(state, type), D)
      BY <2>2, <2>4, <3>1 DEF PartWords
    <3> QED BY <2>1, <2>2, <2>4, <3>1, <3>2, SetsNothing
  <2>5. ASSUME NEW v \in Int, SetSymbol([S EXCEPT !.value = v]), state' = "SYMBOL_NEXT", pending' \in BOOLEAN,
               pending' \/ tok.kind \notin Spoken
        PROVE  Written'
    <3> DEFINE n == Len(D.symbols)
               e == [S EXCEPT !.value = v]
               l == [D.symbols EXCEPT ![n] = e]
               d == [D EXCEPT !.symbols = l]
               f == Front(D.symbols)
    <3>1. D.symbols \in Seq(SymbolsRead)
      BY <2>3 DEF DefsRead
    <3>2. /\ f \in Seq(SymbolsRead) /\ S \in SymbolsRead /\ D.symbols = Append(f, S)
      BY <2>3, <3>1, Split DEF S, Last
    <3>3. e \in SymbolsRead /\ SymbolWords(e) = SymbolWords(S)
      BY <3>2 DEF SymbolsRead, SymbolWords
    <3>4. SetDef(d)
      <4>1. [D EXCEPT !.symbols[n] = e] = d
        BY <2>3 DEF DefsRead
      <4> QED BY <2>5, <4>1 DEF SetSymbol
    <3> HIDE DEF e
    <3>5. l = Append(f, e) /\ l \in Seq(SymbolsRead)
      <4>1. l = Append(f, e)
        <5> DEFINE g == D.symbols
        <5>1. g \in Seq(SymbolsRead) /\ g # <<>> /\ e \in SymbolsRead
          BY <2>3, <3>1, <3>3
        <5> HIDE DEF g
        <5>2. [g EXCEPT ![Len(g)] = e] = Append(Front(g), e)
          BY <5>1, SplitReplaced
        <5> QED BY <5>2 DEF g, f
      <4> HIDE DEF l, f
      <4>2. Append(f, e) \in Seq(SymbolsRead)
        BY <3>2, <3>3, Appended
      <4> QED BY <4>1, <4>2
    <3> HIDE DEF f
    <3>6. SymbolsWords(l) = SymbolsWords(D.symbols)
      <4>1. \A y \in SymbolsRead : SymbolsWords(Append(f, y)) = SymbolsWords(f) \o SymbolWords(y)
        BY <3>2, SymbolsGrow
      <4>2. SymbolsWords(Append(f, e)) = SymbolsWords(f) \o SymbolWords(S)
        BY <3>3, <4>1
      <4>3. SymbolsWords(Append(f, S)) = SymbolsWords(f) \o SymbolWords(S)
        BY <3>2, <4>1
      <4> QED BY <3>2, <3>5, <4>2, <4>3
    <3> HIDE DEF l
    <3>7. d \in DefsRead /\ d.kind = "enum" /\ DefWords(d) = DefWords(D)
      <4> DEFINE g == D
      <4>1. g \in DefsRead /\ g.kind = "enum" /\ l \in Seq(SymbolsRead)
        BY <2>3, <3>5
      <4>2. d = [g EXCEPT !.symbols = l] /\ SymbolsWords(l) = SymbolsWords(g.symbols)
        BY <3>6
      <4> HIDE DEF g, d
      <4>3. /\ d \in DefsRead /\ d.kind = "enum"
            /\ DefWords(g) = OpeningWords(g) \o SymbolsWords(g.symbols)
            /\ DefWords(d) = OpeningWords(g) \o SymbolsWords(l)
        BY <4>1, <4>2, SymbolsSet
      <4> QED BY <4>2, <4>3 DEF g
    <3> HIDE DEF d
    <3> QED BY <2>4, <2>5, <3>4, <3>7
  <2>6. CASE SymbolValue
    <3>1. /\ tok.kind \in {"uint", "int"} /\ tok.num \in (-ENUM_MAX - 1) .. ENUM_MAX
          /\ SetSymbol([S EXCEPT !.value = tok.num]) /\ Goto("SYMBOL_NEXT")
      BY <1>2, <2>6 DEF SymbolValue, Is
    <3>2. tok.num \in Int /\ state' = "SYMBOL_NEXT" /\ pending' = FALSE /\ tok.kind \notin Spoken
      <4>1. tok.num \in Int
        BY TokenParts DEF IInv, InputOK
      <4> QED BY <3>1, <4>1 DEF Goto, Spoken, BuiltIn
    <3> QED BY <2>5, <3>1, <3>2
  <2>7. CASE SymbolSlash /\ Is({"/"})
    <3>1. state = "SYMBOL_SLASH" /\ Goto("SYMBOL_VALUE") /\ UNCHANGED spaces /\ tok.kind \notin Spoken
      BY <2>7 DEF SymbolSlash, In, Is, Spoken, BuiltIn
    <3>2. Quietly("SYMBOL_VALUE")
      BY <3>1, TypeOfState, QuietMoves
    <3>3. PathTo("SYMBOL_VALUE")
      BY DEF PathTo
    <3> QED BY <2>1, <3>1, <3>2, <3>3, SilentStep
  <2>8. CASE SymbolSlash /\ ~Is({"/"}) /\ ~HasPrevious
    <3>1. Keep("SYMBOL_NEXT") /\ UNCHANGED spaces
      BY <1>2, <2>8 DEF SymbolSlash
    <3>2. state' = "SYMBOL_NEXT" /\ pending' /\ pending' \in BOOLEAN
      BY <3>1 DEF Keep
    <3>3. SetDef(D)
      BY <2>2, <3>1, SameDef
    <3> QED BY <2>3, <2>4, <3>2, <3>3
  <2>9. CASE SymbolSlash /\ ~Is({"/"}) /\ HasPrevious
    <3>1. Keep("SYMBOL_NEXT") /\ SetSymbol([S EXCEPT !.value = Previous + 1])
      BY <1>2, <2>9 DEF SymbolSlash
    <3>2. state' = "SYMBOL_NEXT" /\ pending' /\ pending' \in BOOLEAN
      BY <3>1 DEF Keep
    <3>3. Previous + 1 \in Int
      <4>1. D.symbols \in Seq(SymbolsRead) /\ Len(D.symbols) > 1
        BY <2>3, <2>9 DEF DefsRead, HasPrevious
      <4>2. Len(D.symbols) - 1 \in 1 .. Len(D.symbols)
        BY <4>1
      <4>3. D.symbols[Len(D.symbols) - 1] \in SymbolsRead
        BY <4>1, <4>2, ElementOfSeq
      <4> QED BY <4>3 DEF Previous, SymbolsRead
    <3> QED BY <2>5, <3>1, <3>2, <3>3
  <2> QED BY <2>6, <2>7, <2>8, <2>9
<1> QED BY <1>1, <1>2

-----------------------------------------------------------------------------
\* Groups.

\* The shape of the states after the number and after the supergroup.
LEMMA HeadShapes ==
    ASSUME NEW d, d.kind = "group", NEW t, NEW s \in {"SUPER_OR_FIELD_OR_ANY", "FIELD_OR_ANY"},
           s = "SUPER_OR_FIELD_OR_ANY" => d.super = NoName /\ d.fields = <<>>
    PROVE  /\ Shape(s, t, d) /\ PathTo(s) /\ s \notin NotingStates \union ValueStates \union {"TYPE_RBRACKET"}
           /\ ~Open(Stage(s, t))
BY DEF Shape, SymbolStates, SlashStates, BareStates, NameStates, EndStates, TailStates, PathTo, NotingStates,
   NamingStates, ValueStates, Open, Stage

\* GROUP_ID and GROUP_SUPER: a number, which is not one of the words, and a supergroup.
LEMMA GroupHeadWritten ==
    ASSUME IInv, IInv', Written, ok, pending, UNCHANGED input, PlainUpTo(read), WordsHaveCharacters,
           GroupId \/ GroupSuper
    PROVE  Written'
<1>1. CASE Reject
  BY <1>1, Otherwise DEF Reject
<1>2. state \in {"GROUP_ID", "GROUP_SUPER"}
  BY DEF GroupId, GroupSuper, In
<1>3. /\ state \notin AtTop \union NamingStates \union NotingStates \union {"TYPE_RBRACKET"}
      /\ ~Open(Stage(state, type))
  BY <1>2 DEF AtTop, NamingStates, NotingStates, Open, Stage, SymbolStates, SlashStates, BareStates, NameStates,
     TailStates
<1>4. D \in DefsRead /\ D.kind = "group" /\ D.super = NoName /\ D.fields = <<>>
  <2>1. Shape(state, type, D)
    BY <1>3 DEF Written, WrittenOK, ShapeOK
  <2> QED BY <1>2, <1>3, <2>1, TheDef DEF Shape
<1>5. OpeningWords(D) \in Speech /\ DefWords(D) = OpeningWords(D) \o (<<>> \o <<>>)
  <2>1. SuperWords(D) = <<>> /\ FieldsWords(D.fields) = <<>>
    BY <1>4, EmptyThings, FieldsGrow DEF SuperWords
  <2>2. OpeningWords(D) \in Speech /\ DefWords(D) = OpeningWords(D) \o (SuperWords(D) \o FieldsWords(D.fields))
    BY <1>4, DefSpeaks
  <2> QED BY <2>1, <2>2
<1>6. CASE GroupId /\ ~Reject
  <2> DEFINE d == [D EXCEPT !.hasId = TRUE, !.id = tok.num]
             s == "SUPER_OR_FIELD_OR_ANY"
  <2>1. /\ Goto(s) /\ SetDef(d) /\ tok.kind = "uint" /\ UNCHANGED <<ns, ahead, notes, type, begun>>
    BY <1>6 DEF GroupId, Is
  <2>2. tok.num \in Int
    BY TokenParts DEF IInv, InputOK
  <2>3. /\ d \in DefsRead /\ d.kind = "group" /\ d.super = NoName /\ d.fields = <<>>
        /\ d.a = D.a /\ d.name = D.name
    BY <1>4, <2>2 DEF DefsRead
  <2> HIDE DEF d
  <2>4. DefWords(d) = DefWords(D)
    <3>1. DefWords(d) = OpeningWords(d) \o (SuperWords(d) \o FieldsWords(d.fields))
      BY <2>3, DefSpeaks
    <3>2. OpeningWords(d) = OpeningWords(D) /\ SuperWords(d) = <<>> /\ FieldsWords(d.fields) = <<>>
      BY <2>3, EmptyThings, FieldsGrow DEF OpeningWords, SuperWords
    <3> QED BY <1>5, <3>1, <3>2
  <2>5. /\ Shape(s, type', d) /\ PathTo(s) /\ s \notin NotingStates \union ValueStates \union {"TYPE_RBRACKET"}
        /\ ~Open(Stage(s, type'))
    BY <2>3, HeadShapes
  <2>6. PartWords(Stage(s, type'), d) = PartWords(Stage(state, type), D)
    BY <1>3, <2>4, <2>5 DEF PartWords
  <2>7. state' = s /\ pending' \in BOOLEAN /\ tok.kind \notin Spoken
    <3>1. pending' = FALSE
      BY <2>1 DEF Goto
    <3> QED BY <2>1, <3>1 DEF Goto, Spoken, BuiltIn
  <2> QED BY <1>3, <2>1, <2>3, <2>5, <2>6, <2>7, SetsNothing
<1>7. CASE GroupSuper /\ ~Reject
  <2> DEFINE d == [D EXCEPT !.super = tok.name]
             s == "FIELD_OR_ANY"
  <2>1. /\ Goto(s) /\ SetDef(d) /\ tok.kind \in {"name", "cname"} /\ UNCHANGED <<ns, ahead, notes, type, begun>>
    BY <1>7 DEF GroupSuper, Is
  <2>2. tok.name \in Texts /\ tok.name # NoName
    BY <2>1, TokenParts DEF IInv, InputOK, Named
  <2>3. d \in DefsRead /\ d.kind = "group" /\ d.super = tok.name /\ d.fields = <<>> /\ d.a = D.a /\ d.name = D.name
    <3> HIDE DEF Texts
    <3> QED BY <1>4, <2>2 DEF DefsRead
  <2> HIDE DEF d
  <2>4. <<tok.name>> \in Speech
    <3>1. tok.name \in Vocabulary
      <4> HIDE DEF Texts
      <4> QED BY <2>2 DEF Vocabulary
    <3> QED BY <3>1, OneWord
  <2>5. DefWords(d) = OpeningWords(D) \o (<<tok.name>> \o <<>>)
    <3>1. DefWords(d) = OpeningWords(d) \o (SuperWords(d) \o FieldsWords(d.fields))
      BY <2>3, DefSpeaks
    <3>2. OpeningWords(d) = OpeningWords(D) /\ SuperWords(d) = <<tok.name>> /\ FieldsWords(d.fields) = <<>>
      BY <2>2, <2>3, EmptyThings, FieldsGrow DEF OpeningWords, SuperWords
    <3> QED BY <3>1, <3>2
  <2>6. Says(DefWords(d), DefWords(D), <<>>, <<tok.name>>)
    <3> DEFINE p == OpeningWords(D)
               w == <<tok.name>>
    <3>1. p \in Speech /\ w \in Speech /\ <<>> \in Speech
      BY <1>5, <2>4, OneWord
    <3>2. DefWords(d) = p \o (w \o <<>>) /\ DefWords(D) = p \o (<<>> \o <<>>)
      BY <1>5, <2>5
    <3> HIDE DEF p, w
    <3>3. w \o <<>> = w /\ <<>> \o <<>> = <<>> /\ p \o <<>> = p
      BY <3>1, Together
    <3>4. Says(p \o w, p, <<>>, w)
      BY <3>1, SaysLess
    <3> QED BY <3>2, <3>3, <3>4 DEF w
  <2>7. /\ Shape(s, type', d) /\ PathTo(s) /\ s \notin NotingStates \union ValueStates \union {"TYPE_RBRACKET"}
        /\ ~Open(Stage(s, type'))
    BY <2>3, HeadShapes
  <2>8. state' = s /\ pending' \in BOOLEAN /\ ~pending'
    <3>1. pending' = FALSE
      BY <2>1 DEF Goto
    <3> QED BY <2>1, <3>1 DEF Goto
  <2>9. Noted = <<>> /\ annotes = <<>>
    BY <1>3, NotedNow DEF Written, WrittenOK
  <2>10. StepWords = <<tok.name>>
    BY <2>1, <2>8, TokenIs DEF StepWords
  <2>11. Says(PartWords(Stage(s, type'), d), PartWords(Stage(state, type), D), Noted, StepWords)
    <3>1. PartWords(Stage(s, type'), d) = DefWords(d) /\ PartWords(Stage(state, type), D) = DefWords(D)
      BY <1>3, <2>7 DEF PartWords
    <3> QED BY <2>6, <2>9, <2>10, <3>1
  <2>12. annotes' = <<>> /\ laAnnotes' = laAnnotes
    BY <2>1, <2>9 DEF notes
  <2> QED BY <1>3, <2>1, <2>3, <2>7, <2>8, <2>11, <2>12, SetsStep
<1> QED BY <1>1, <1>6, <1>7

\* The words of a group as far as it is made, by its last field.
LEMMA GroupPart ==
    ASSUME NEW stage, NEW d \in DefsRead, d.kind = "group", d.fields # <<>>
    PROVE  /\ Front(d.fields) \in Seq(FieldsRead) /\ Last(d.fields) \in FieldsRead
           /\ OpeningWords(d) \in Speech /\ SuperWords(d) \in Speech
           /\ FieldsWords(Front(d.fields)) \in Speech /\ FieldPart(stage, Last(d.fields)) \in Speech
           /\ PartWords(stage, d) = OpeningWords(d)
                 \o (SuperWords(d) \o (FieldsWords(Front(d.fields)) \o FieldPart(stage, Last(d.fields))))
<1> DEFINE l == d.fields
           f == Front(l)
           e == Last(l)
<1>1. f \in Seq(FieldsRead) /\ e \in FieldsRead /\ l = Append(f, e) /\ l \in Seq(FieldsRead)
  <2>1. l \in Seq(FieldsRead) /\ l # <<>>
    BY DEF DefsRead
  <2> HIDE DEF l
  <2> QED BY <2>1, Split
<1>2. OpeningWords(d) \in Speech /\ SuperWords(d) \in Speech
  BY DefSpeaks
<1> HIDE DEF l, f, e
<1>3. FieldsWords(f) \in Speech /\ FieldsWords(l) = FieldsWords(f) \o FieldWords(e)
  BY <1>1, FieldsGrow
<1>4. FieldPart(stage, e) \in Speech
  <2>1. e.type \in TypesRead
    BY <1>1 DEF FieldsRead
  <2>2. TypeWords(e.type) \in Speech /\ FieldWords(e) \in Speech /\ <<>> \in Speech
    BY <1>1, <2>1, PartsSpeak, OneWord
  <2> QED BY <2>2 DEF FieldPart
<1>5. PartWords(stage, d) = OpeningWords(d) \o (SuperWords(d) \o (FieldsWords(f) \o FieldPart(stage, e)))
  <2>1. CASE Open(stage)
    BY <2>1 DEF PartWords, l, f, e
  <2>2. CASE ~Open(stage)
    <3>1. PartWords(stage, d) = DefWords(d)
      BY <2>2 DEF PartWords
    <3>2. DefWords(d) = OpeningWords(d) \o (SuperWords(d) \o FieldsWords(l))
      BY DefSpeaks DEF l
    <3>3. FieldPart(stage, e) = FieldWords(e)
      BY <2>2 DEF Open, FieldPart
    <3> QED BY <1>3, <3>1, <3>2, <3>3
  <2> QED BY <2>1, <2>2
<1> QED BY <1>1, <1>2, <1>3, <1>4, <1>5 DEF l, f, e

\* A group whose last field is replaced says what the field says.
LEMMA GroupSays ==
    ASSUME NEW d \in DefsRead, d.kind = "group", d.fields # <<>>, NEW f \in FieldsRead,
           NEW was, NEW stage, NEW r \in Speech, NEW x \in Speech,
           Says(FieldPart(stage, f), FieldPart(was, Last(d.fields)), r, x)
    PROVE  LET e == [d EXCEPT !.fields[Len(d.fields)] = f] IN
           /\ e \in DefsRead /\ e.kind = "group" /\ e.fields # <<>> /\ Last(e.fields) = f
           /\ Says(PartWords(stage, e), PartWords(was, d), r, x)
<1> DEFINE l == d.fields
           m == [l EXCEPT ![Len(l)] = f]
           e == [d EXCEPT !.fields = m]
           p == FieldsWords(Front(l))
           q == FieldPart(was, Last(l))
           s == FieldPart(stage, f)
<1>1. [d EXCEPT !.fields[Len(d.fields)] = f] = e
  BY DEF DefsRead
<1>2. l \in Seq(FieldsRead) /\ l # <<>>
  BY DEF DefsRead
<1>3. /\ OpeningWords(d) \in Speech /\ SuperWords(d) \in Speech /\ p \in Speech /\ q \in Speech
      /\ PartWords(was, d) = OpeningWords(d) \o (SuperWords(d) \o (p \o q))
      /\ Front(l) \in Seq(FieldsRead)
  BY GroupPart
<1>4. Says(s, q, r, x)
  OBVIOUS
<1> HIDE DEF l
<1>5. m = Append(Front(l), f)
  BY <1>2, SplitReplaced
<1>6. m \in Seq(FieldsRead) /\ m # <<>> /\ Front(m) = Front(l) /\ Last(m) = f
  <2> DEFINE g == Front(l)
             n == Append(g, f)
  <2>1. g \in Seq(FieldsRead) /\ m = n
    BY <1>3, <1>5
  <2> HIDE DEF g, m
  <2>2. n \in Seq(FieldsRead) /\ n # <<>> /\ Front(n) = g /\ Last(n) = f
    BY <2>1, SplitAppended
  <2> HIDE DEF n
  <2> QED BY <2>1, <2>2 DEF g
<1> HIDE DEF m
<1>7. e \in DefsRead /\ e.kind = "group" /\ e.fields = m /\ e.a = d.a /\ e.name = d.name /\ e.super = d.super
  BY <1>6 DEF DefsRead
<1> HIDE DEF e
<1>8. PartWords(stage, e) = OpeningWords(e) \o (SuperWords(e) \o (p \o s))
  BY <1>6, <1>7, GroupPart
<1>9. OpeningWords(e) = OpeningWords(d) /\ SuperWords(e) = SuperWords(d)
  BY <1>7 DEF OpeningWords, SuperWords
<1> DEFINE o == OpeningWords(d)
           u == SuperWords(d)
<1>10. o \in Speech /\ u \in Speech /\ p \in Speech /\ q \in Speech
  BY <1>3
<1>11. PartWords(stage, e) = o \o (u \o (p \o s)) /\ PartWords(was, d) = o \o (u \o (p \o q))
  BY <1>3, <1>8, <1>9
<1> HIDE DEF p, q, s, o, u
<1>12. Says(p \o s, p \o q, r, x) /\ p \o q \in Speech
  BY <1>4, <1>10, SaysAfter, Together
<1>13. Says(u \o (p \o s), u \o (p \o q), r, x) /\ u \o (p \o q) \in Speech
  BY <1>10, <1>12, SaysAfter, Together
<1>14. Says(o \o (u \o (p \o s)), o \o (u \o (p \o q)), r, x)
  BY <1>10, <1>13, SaysAfter
<1> QED BY <1>1, <1>6, <1>7, <1>11, <1>14

\* FIELD: a field of which nothing is made.
LEMMA FieldWritten ==
    ASSUME IInv, IInv', Written, ok, pending, UNCHANGED input, PlainUpTo(read), Field
    PROVE  Written'
<1> DEFINE l == D.fields
           m == Append(l, EmptyField)
           d == [D EXCEPT !.fields = m]
           s == IF Is({"@"}) THEN "TYPE_ANNOTE" ELSE "FIELD_TYPE"
<1>1. state = "FIELD" /\ type' = "field" /\ Keep(s) /\ UNCHANGED <<ns, ahead, notes, begun>> /\ SetDef(d)
  BY DEF Field, In
<1>2. /\ state \notin AtTop \union NamingStates \union NotingStates \union {"TYPE_RBRACKET"}
      /\ ~Open(Stage(state, type))
  BY <1>1 DEF AtTop, NamingStates, NotingStates, Open, Stage, SymbolStates, SlashStates, BareStates, NameStates,
     TailStates
<1>3. D \in DefsRead /\ D.kind = "group"
  <2>1. Shape(state, type, D)
    BY <1>2 DEF Written, WrittenOK, ShapeOK
  <2> QED BY <1>1, <1>2, <2>1, TheDef DEF Shape
<1>4. EmptyField \in FieldsRead
  BY EmptyThings
<1>5. l \in Seq(FieldsRead)
  BY <1>3 DEF DefsRead
<1>6. m \in Seq(FieldsRead) /\ m # <<>> /\ Front(m) = l /\ Last(m) = EmptyField
  <2> HIDE DEF l
  <2> QED BY <1>4, <1>5, SplitAppended
<1> HIDE DEF m
<1>7. /\ d \in DefsRead /\ d.kind = "group" /\ d.fields = m
      /\ d.a = D.a /\ d.name = D.name /\ d.super = D.super
  BY <1>3, <1>6 DEF DefsRead
<1> HIDE DEF d
<1>8. PartWords("bare", d) = DefWords(D)
  <2>1. PartWords("bare", d) = OpeningWords(d) \o (SuperWords(d) \o (FieldsWords(l) \o FieldPart("bare", EmptyField)))
    BY <1>6, <1>7, GroupPart
  <2>2. OpeningWords(d) = OpeningWords(D) /\ SuperWords(d) = SuperWords(D)
    BY <1>7 DEF OpeningWords, SuperWords
  <2>3. FieldPart("bare", EmptyField) = <<>>
    BY DEF FieldPart
  <2>4. FieldsWords(l) \o <<>> = FieldsWords(l)
    BY <1>5, FieldsGrow, Together
  <2>5. DefWords(D) = OpeningWords(D) \o (SuperWords(D) \o FieldsWords(l))
    BY <1>3, DefSpeaks
  <2> QED BY <2>1, <2>2, <2>3, <2>4, <2>5
<1>9. s \in {"TYPE_ANNOTE", "FIELD_TYPE"} /\ (s = "TYPE_ANNOTE" => tok.kind = "@")
  BY DEF Is
<1> HIDE DEF s
<1>10. state' = s /\ pending' /\ pending' \in BOOLEAN
  BY <1>1 DEF Keep
<1>11. PathTo(s) /\ s \notin NotingStates \union ValueStates \union {"TYPE_RBRACKET"} /\ Stage(s, type') = "bare"
  <2>1. PathTo(s)
    BY <1>9, <1>10 DEF PathTo
  <2>2. s \notin NotingStates \union ValueStates \union {"TYPE_RBRACKET"}
    BY <1>9 DEF NotingStates, NamingStates, ValueStates
  <2>3. s \in BareStates /\ s \notin SymbolStates \union SlashStates \union NameStates \union TailStates
    BY <1>9 DEF BareStates, SymbolStates, SlashStates, NameStates, TailStates
  <2>4. Stage(s, type') = "bare"
    BY <2>3 DEF Stage
  <2> QED BY <2>1, <2>2, <2>4
<1>12. ~Last(d.fields).type.seq /\ ~Last(d.fields).opt
  BY <1>6, <1>7 DEF EmptyField
<1>13. Shape(s, type', d)
  BY <1>1, <1>7, <1>9, <1>12 DEF Shape, SymbolStates, SlashStates, BareStates, NameStates, EndStates, TailStates
<1>14. PartWords(Stage(s, type'), d) = PartWords(Stage(state, type), D)
  BY <1>2, <1>8, <1>11 DEF PartWords
<1>15. d.fields # <<>>
  BY <1>6, <1>7
<1> QED BY <1>1, <1>2, <1>7, <1>10, <1>11, <1>13, <1>14, <1>15, SetsNothing

-----------------------------------------------------------------------------
\* Types.

\* A type with another tag.
LEMMA TagChanged ==
    ASSUME NEW t \in TypesRead, NEW x \in BuiltIn \union {"ref"}
    PROVE  LET u == [t EXCEPT !.tag = x] IN
           u \in TypesRead /\ u.tag = x /\ u.name = t.name /\ u.seq = t.seq /\ u.a = t.a
BY DEF TypesRead

\* A type with other annotations.
LEMMA NotesChanged ==
    ASSUME NEW t \in TypesRead, NEW x \in Seq(NotesRead)
    PROVE  LET u == [t EXCEPT !.a = x] IN
           u \in TypesRead /\ u.tag = t.tag /\ u.name = t.name /\ u.seq = t.seq /\ u.a = x
BY DEF TypesRead

\* A type with the mark of a dynamic group or of a sequence.
LEMMA MarksChanged ==
    ASSUME NEW t \in TypesRead
    PROVE  /\ LET u == [t EXCEPT !.dyn = TRUE] IN
              u \in TypesRead /\ u.tag = t.tag /\ u.name = t.name /\ u.seq = t.seq /\ u.a = t.a
           /\ LET u == [t EXCEPT !.seq = TRUE] IN
              u \in TypesRead /\ u.tag = t.tag /\ u.name = t.name /\ u.seq = TRUE /\ u.a = t.a
BY DEF TypesRead

\* A type with another size.
LEMMA SizeChanged ==
    ASSUME NEW t \in TypesRead, NEW n \in Int
    PROVE  LET u == [t EXCEPT !.size = n] IN
           u \in TypesRead /\ u.tag = t.tag /\ u.name = t.name /\ u.seq = t.seq /\ u.a = t.a
BY DEF TypesRead

\* A type that is no sequence and has no annotations is one word.
LEMMA ShortType ==
    ASSUME NEW t \in TypesRead, t.a = <<>>, ~t.seq, NEW x \in Vocabulary,
           (IF t.tag = "ref" THEN t.name ELSE t.tag) = x
    PROVE  TypeWords(t) = <<x>>
<1>1. NoteWords(<<>>) = <<>>
  BY EmptySeq, NotesGrow
<1>2. <<x>> \in Speech
  BY OneWord
<1>3. <<>> \o <<x>> = <<x>> /\ <<x>> \o <<>> = <<x>>
  BY <1>2, Together
<1>4. TypeWords(t) = (NoteWords(t.a) \o <<IF t.tag = "ref" THEN t.name ELSE t.tag>>) \o
                          (IF t.seq THEN <<"[">> ELSE <<>>)
  BY DEF TypeWords
<1> QED BY <1>1, <1>3, <1>4

\* The shape of the states after the type of a field.
LEMMA TypedShapes ==
    ASSUME NEW d, d.kind = "group", NEW s \in (TailStates \ {"TYPE_RBRACKET"}) \union {"FIELD_NAME_ANNOTES"},
           ~Last(d.fields).opt, s \in TailStates => ~Last(d.fields).type.seq
    PROVE  /\ Shape(s, "field", d) /\ PathTo(s) /\ s \notin NotingStates \union ValueStates \union {"TYPE_RBRACKET"}
           /\ Stage(s, "field") = "typed"
<1>1. PathTo(s) /\ s \notin NotingStates \union ValueStates \union {"TYPE_RBRACKET"}
  BY DEF PathTo, NotingStates, NamingStates, ValueStates, TailStates
<1>2. s \notin SymbolStates \union SlashStates \union BareStates /\ s \in NameStates \union TailStates
  BY DEF SymbolStates, SlashStates, BareStates, NameStates, TailStates
<1>3. Stage(s, "field") = "typed"
  BY <1>2 DEF Stage
<1>4. Shape(s, "field", d)
  BY <1>2 DEF Shape, TailStates, EndStates
<1> QED BY <1>1, <1>3, <1>4

\* A field with another type is otherwise the field it was.
LEMMA FieldRetyped ==
    ASSUME NEW f \in FieldsRead, NEW t \in TypesRead
    PROVE  LET e == [f EXCEPT !.type = t] IN
           e \in FieldsRead /\ e.type = t /\ e.opt = f.opt /\ e.name = f.name /\ e.a = f.a
BY DEF FieldsRead

\* FIELD_TYPE: the field has the type that is written.
LEMMA FieldTypeWritten ==
    ASSUME IInv, IInv', Written, ok, pending, UNCHANGED input, PlainUpTo(read), NoTimes, FieldType
    PROVE  Written'
<1>1. CASE Reject
  BY <1>1, Otherwise DEF Reject
<1>2. /\ state = "FIELD_TYPE" /\ state \in BareStates /\ type = "field"
      /\ state \notin AtTop \union NamingStates \union NotingStates \union {"TYPE_RBRACKET"}
      /\ Stage(state, type) = "bare"
  <2>1. state = "FIELD_TYPE"
    BY DEF FieldType, In
  <2>2. state \in BareStates /\ state \notin SymbolStates \union SlashStates \union NameStates \union TailStates
    BY <2>1 DEF BareStates, SymbolStates, SlashStates, NameStates, TailStates
  <2>3. state \notin AtTop \union NamingStates \union NotingStates \union {"TYPE_RBRACKET"}
    BY <2>1 DEF AtTop, NamingStates, NotingStates
  <2>4. Stage(state, type) = "bare"
    BY <2>2 DEF Stage
  <2> QED BY <2>1, <2>2, <2>3, <2>4, TypeOfState
<1>3. annotes = <<>> /\ Noted = <<>>
  BY <1>2, NotedNow DEF Written, WrittenOK
<1>4. /\ D \in DefsRead /\ D.kind = "group" /\ D.fields # <<>>
      /\ ~Last(D.fields).type.seq /\ ~Last(D.fields).opt
  <2>1. Shape(state, type, D)
    BY <1>2 DEF Written, WrittenOK, ShapeOK
  <2>2. D \in DefsRead
    BY <1>2, TheDef
  <2>3. D.fields # <<>>
    BY <1>2, OpenHasField DEF Open
  <2> QED BY <1>2, <2>1, <2>2, <2>3 DEF Shape
<1>5. F = Last(D.fields) /\ F \in FieldsRead /\ TheType = F.type /\ F.type \in TypesRead
  <2>1. D.fields \in Seq(FieldsRead)
    BY <1>4 DEF DefsRead
  <2>2. Last(D.fields) \in FieldsRead
    <3> DEFINE l == D.fields
    <3>1. l \in Seq(FieldsRead) /\ l # <<>>
      BY <1>4, <2>1
    <3> HIDE DEF l
    <3>2. Last(l) \in FieldsRead
      BY <3>1, Split
    <3> QED BY <3>2 DEF l
  <2>3. F = Last(D.fields)
    BY DEF F, Last
  <2> QED BY <1>2, <2>2, <2>3 DEF TheType, FieldsRead
<1>6. ASSUME NEW u \in TypesRead, u.a = <<>>, ~u.seq, SetType(u), NEW x \in Vocabulary,
             (IF u.tag = "ref" THEN u.name ELSE u.tag) = x, TokenWords(tok) = <<x>>,
             NEW s \in (TailStates \ {"TYPE_RBRACKET"}) \union {"FIELD_NAME_ANNOTES"}, Goto(s),
             annotes' = <<>>, UNCHANGED <<ns, ahead, laAnnotes, annote, type, begun>>
      PROVE  Written'
  <2> DEFINE f == [F EXCEPT !.type = u]
             e == [D EXCEPT !.fields[Len(D.fields)] = f]
  <2>1. f \in FieldsRead /\ f.type = u /\ ~f.opt
    BY <1>4, <1>5, FieldRetyped
  <2>2. SetDef(e)
    BY <1>2, <1>6 DEF SetType, SetField
  <2> HIDE DEF f
  <2>3. Says(FieldPart("typed", f), FieldPart("bare", Last(D.fields)), <<>>, <<x>>) /\ <<x>> \in Speech
    <3>1. FieldPart("typed", f) = <<x>>
      <4>1. TypeWords(u) = <<x>>
        BY <1>6, ShortType
      <4> QED BY <2>1, <4>1 DEF FieldPart
    <3>2. FieldPart("bare", Last(D.fields)) = <<>>
      BY DEF FieldPart
    <3>3. <<x>> \in Speech
      BY <1>6, OneWord
    <3>4. <<>> \o <<>> = <<>> /\ <<>> \o <<x>> = <<x>>
      BY <3>3, OneWord, Together
    <3>5. (<<>> \o <<>>) \o <<x>> = <<x>>
      BY <3>4
    <3> QED BY <3>1, <3>2, <3>3, <3>5 DEF Says
  <2>4. /\ e \in DefsRead /\ e.kind = "group" /\ e.fields # <<>> /\ Last(e.fields) = f
        /\ Says(PartWords("typed", e), PartWords("bare", D), <<>>, <<x>>)
    BY <1>4, <2>1, <2>3, OneWord, GroupSays
  <2> HIDE DEF e
  <2>5. /\ Shape(s, "field", e) /\ PathTo(s) /\ s \notin NotingStates \union ValueStates \union {"TYPE_RBRACKET"}
        /\ Stage(s, "field") = "typed"
    BY <1>6, <2>1, <2>4, TypedShapes
  <2>6. state' = s /\ ~pending' /\ pending' \in BOOLEAN /\ type' = "field"
    <3>1. pending' = FALSE
      BY <1>6 DEF Goto
    <3> QED BY <1>2, <1>6, <3>1 DEF Goto
  <2>7. StepWords = <<x>>
    BY <1>6, <2>6 DEF StepWords
  <2>8. Says(PartWords(Stage(s, type'), e), PartWords(Stage(state, type), D), Noted, StepWords)
    BY <1>2, <1>3, <2>4, <2>5, <2>6, <2>7
  <2>9. laAnnotes' = laAnnotes /\ ns' = ns /\ annotes' = <<>>
    BY <1>6
  <2>10. Shape(s, type', e)
    BY <2>5, <2>6
  <2> QED BY <1>2, <2>2, <2>4, <2>5, <2>6, <2>8, <2>9, <2>10, SetsStep
<1>7. tok.name \in Texts /\ tok.name \in Vocabulary
  <2>1. tok.name \in Texts
    BY TokenParts DEF IInv, InputOK
  <2> HIDE DEF Texts
  <2> QED BY <2>1 DEF Vocabulary
<1> DEFINE t == [TheType EXCEPT !.a = annotes]
<1>8. t \in TypesRead /\ t.a = <<>> /\ ~t.seq
  <2>1. annotes \in Seq(NotesRead)
    BY DEF IInv, NotesOK
  <2>2. TheType \in TypesRead /\ ~TheType.seq
    BY <1>4, <1>5
  <2> QED BY <1>3, <2>1, <2>2, NotesChanged
<1>9. CASE ~Reject /\ Is(BuiltIn)
  <2> DEFINE u == [t EXCEPT !.tag = IType(tok.kind)]
             s == CASE Is({"string"}) -> "TYPE_LPAREN_OPTIONAL"
                    [] Is({"fixed"}) -> "TYPE_LPAREN"
                    [] OTHER -> "FIELD_NAME_ANNOTES"
  <2>1. SetType(u) /\ Goto(s) /\ annotes' = <<>> /\ UNCHANGED <<ns, ahead, laAnnotes, annote, type, begun>>
    BY <1>9 DEF FieldType, Is, BuiltIn
  <2>2. s \in (TailStates \ {"TYPE_RBRACKET"}) \union {"FIELD_NAME_ANNOTES"}
    <3>1. s \in {"TYPE_LPAREN_OPTIONAL", "TYPE_LPAREN", "FIELD_NAME_ANNOTES"}
      OBVIOUS
    <3> HIDE DEF s
    <3> QED BY <3>1 DEF TailStates
  <2> HIDE DEF s
  <2>3. tok.kind \in BuiltIn /\ IType(tok.kind) = tok.kind /\ tok.kind # "ref"
    <3>1. tok.kind \in BuiltIn
      BY <1>9 DEF Is
    <3>2. tok \in Tokens
      BY DEF IInv, InputOK
    <3>3. tok.kind \notin {"milliTime", "nanoTime"}
      BY <3>1, <3>2 DEF Tokens, Eof, NoTimes, BuiltIn
    <3> QED BY <3>1, <3>3 DEF IType, BuiltIn
  <2>4. u \in TypesRead /\ u.a = <<>> /\ ~u.seq /\ u.tag = tok.kind
    <3> HIDE DEF t
    <3>1. IType(tok.kind) \in BuiltIn \union {"ref"}
      <4> HIDE DEF BuiltIn
      <4> QED BY <2>3
    <3> QED BY <1>8, <2>3, <3>1, TagChanged
  <2> HIDE DEF t, u
  <2>5. tok.kind \in Vocabulary
    <3> HIDE DEF BuiltIn, Texts
    <3> QED BY <2>3 DEF Vocabulary
  <2>6. TokenWords(tok) = <<tok.kind>>
    <3> HIDE DEF BuiltIn
    <3> QED BY <2>3, TokenIs
  <2>7. (IF u.tag = "ref" THEN u.name ELSE u.tag) = tok.kind
    BY <2>3, <2>4
  <2> QED BY <1>6, <2>1, <2>2, <2>4, <2>5, <2>6, <2>7
<1>10. CASE ~Reject /\ ~Is(BuiltIn)
  <2> DEFINE u == [[t EXCEPT !.tag = "ref"] EXCEPT !.name = tok.name]
             v == [t EXCEPT !.tag = "ref", !.name = tok.name]
             s == "TYPE_DYNAMIC"
  <2>1. /\ SetType(v) /\ Goto(s) /\ tok.kind \in {"name", "cname"}
        /\ annotes' = <<>> /\ UNCHANGED <<ns, ahead, laAnnotes, annote, type, begun>>
    BY <1>10 DEF FieldType, Is
  <2>2. v \in TypesRead /\ v.a = <<>> /\ ~v.seq /\ v.tag = "ref" /\ v.name = tok.name
    <3> HIDE DEF t
    <3>1. t \in TypesRead /\ t.a = <<>> /\ ~t.seq
      BY <1>8
    <3> QED BY <1>7, <3>1 DEF TypesRead
  <2>3. s \in (TailStates \ {"TYPE_RBRACKET"}) \union {"FIELD_NAME_ANNOTES"}
    BY DEF TailStates
  <2>4. TokenWords(tok) = <<tok.name>>
    BY <2>1, TokenIs
  <2>5. (IF v.tag = "ref" THEN v.name ELSE v.tag) = tok.name
    BY <2>2
  <2> HIDE DEF v, s, t
  <2> QED BY <1>6, <1>7, <2>1, <2>2, <2>3, <2>4, <2>5
<1> QED BY <1>1, <1>9, <1>10

-----------------------------------------------------------------------------
\* What comes after the name of a type.

\* The type whose tail it is, and what holds of the definition it is in.
LEMMA TailNow ==
    ASSUME IInv, Written, ok, PlainUpTo(read), state \in TailStates
    PROVE  /\ TheType \in TypesRead /\ ~TheType.seq /\ annotes = <<>>
           /\ state \notin AtTop \union NamingStates \union NotingStates
           /\ D \in DefsRead /\ type \in {"field", "typedef"}
           /\ type = "field" => /\ D.kind = "group" /\ D.fields # <<>> /\ F = Last(D.fields) /\ F \in FieldsRead
                                /\ ~F.opt /\ TheType = F.type /\ Stage(state, type) = "typed"
           /\ type # "field" => D.kind = "typedef" /\ TheType = D.type /\ ~Open(Stage(state, type))
<1>1. /\ state \notin AtTop \union NamingStates \union NotingStates
      /\ state \notin SymbolStates \union SlashStates \union BareStates \union NameStates
  BY DEF TailStates, AtTop, NamingStates, NotingStates, SymbolStates, SlashStates, BareStates, NameStates
<1>2. type \in {"field", "typedef"} /\ D \in DefsRead
  BY <1>1, TypeOfState, TheDef
<1>3. Shape(state, type, D) /\ annotes = <<>>
  BY <1>1 DEF Written, WrittenOK, ShapeOK, NotingOK
<1>4. CASE type = "field"
  <2>1. Stage(state, type) = "typed"
    BY <1>1, <1>4 DEF Stage
  <2>2. D.fields # <<>>
    BY <1>1, <2>1, OpenHasField DEF Open
  <2>3. F \in FieldsRead /\ F = Last(D.fields)
    <3> DEFINE l == D.fields
    <3>1. l \in Seq(FieldsRead) /\ l # <<>>
      BY <1>2, <2>2 DEF DefsRead
    <3> HIDE DEF l
    <3>2. Last(l) \in FieldsRead
      BY <3>1, Split
    <3> QED BY <3>2 DEF l, F, Last
  <2>4. TheType = F.type /\ F.type \in TypesRead
    BY <1>4, <2>3 DEF TheType, FieldsRead
  <2>5. D.kind = "group" /\ ~F.type.seq /\ ~F.opt
    BY <1>3, <1>4, <2>3 DEF Shape
  <2> QED BY <1>1, <1>2, <1>3, <1>4, <2>1, <2>2, <2>3, <2>4, <2>5
<1>5. CASE type # "field"
  <2>1. ~Open(Stage(state, type))
    <3>1. Stage(state, type) = "whole"
      BY <1>1, <1>5 DEF Stage
    <3> QED BY <3>1 DEF Open
  <2>2. TheType = D.type /\ D.type \in TypesRead
    BY <1>2, <1>5 DEF TheType, DefsRead
  <2>3. D.kind = "typedef" /\ ~D.type.seq
    BY <1>3, <1>5 DEF Shape
  <2> QED BY <1>1, <1>2, <1>3, <1>5, <2>1, <2>2, <2>3
<1> QED BY <1>4, <1>5

\* The shape of the states after a part of the type of a typedef.
LEMMA TypedefShapes ==
    ASSUME NEW d, d.kind = "typedef", NEW s \in (TailStates \ {"TYPE_RBRACKET"}) \union {"ANY"},
           s \in TailStates => ~d.type.seq
    PROVE  /\ s \notin AtTop \union NamingStates => Shape(s, "typedef", d)
           /\ PathTo(s) /\ s \notin NotingStates \union ValueStates \union {"TYPE_RBRACKET"}
           /\ ~Open(Stage(s, "typedef"))
<1>1. PathTo(s) /\ s \notin NotingStates \union ValueStates \union {"TYPE_RBRACKET"}
  BY DEF PathTo, NotingStates, NamingStates, ValueStates, TailStates
<1>2. s \notin SymbolStates \union SlashStates \union BareStates \union NameStates
  BY DEF SymbolStates, SlashStates, BareStates, NameStates, TailStates
<1>3. ~Open(Stage(s, "typedef"))
  <2>1. Stage(s, "typedef") = "whole"
    BY <1>2 DEF Stage
  <2> QED BY <2>1 DEF Open
<1>4. s \notin AtTop \union NamingStates => Shape(s, "typedef", d)
  BY <1>2 DEF Shape, TailStates, EndStates, AtTop
<1> QED BY <1>1, <1>3, <1>4

\* A step of the tail of a type that adds to the words of the type.
LEMMA TailWritten ==
    ASSUME IInv, IInv', Written, ok, pending, UNCHANGED input, PlainUpTo(read), pending' \in BOOLEAN,
           state \in TailStates, NEW t \in TypesRead, SetType(t), UNCHANGED <<ns, ahead, notes, type, begun>>,
           NEW s \in (TailStates \ {"TYPE_RBRACKET"}) \union {AfterType}, state' = s, s \in TailStates => ~t.seq,
           Says(TypeWords(t), TypeWords(TheType), Noted, StepWords)
    PROVE  Written'
<1>1. /\ TheType \in TypesRead /\ annotes = <<>>
      /\ state \notin AtTop \union NamingStates \union NotingStates
      /\ D \in DefsRead /\ type \in {"field", "typedef"}
  BY TailNow
<1>2. annotes' = <<>> /\ laAnnotes' = laAnnotes /\ ns' = ns /\ type' = type
  BY <1>1 DEF notes
<1> DEFINE r == Noted
           x == StepWords
<1>3. r \in Speech /\ x \in Speech
  <2>1. Noted \in Speech
    BY NotedNow DEF Written, WrittenOK
  <2>2. StepWords \in Speech
    BY Handles DEF Written
  <2> QED BY <2>1, <2>2
<1>4. Says(TypeWords(t), TypeWords(TheType), r, x)
  OBVIOUS
<1> HIDE DEF r, x
<1>5. CASE type = "field"
  <2> DEFINE f == [F EXCEPT !.type = t]
             e == [D EXCEPT !.fields[Len(D.fields)] = f]
  <2>1. /\ D.kind = "group" /\ D.fields # <<>> /\ F = Last(D.fields) /\ F \in FieldsRead
        /\ ~F.opt /\ TheType = F.type /\ Stage(state, type) = "typed"
    BY <1>5, TailNow
  <2>2. f \in FieldsRead /\ f.type = t /\ ~f.opt
    BY <2>1, FieldRetyped
  <2>3. SetDef(e)
    BY <1>5 DEF SetType, SetField
  <2> HIDE DEF f
  <2>4. Says(FieldPart("typed", f), FieldPart("typed", Last(D.fields)), r, x)
    <3>1. FieldPart("typed", f) = TypeWords(t)
      BY <2>2 DEF FieldPart
    <3>2. FieldPart("typed", Last(D.fields)) = TypeWords(TheType)
      BY <2>1 DEF FieldPart
    <3> QED BY <1>4, <3>1, <3>2
  <2>5. /\ e \in DefsRead /\ e.kind = "group" /\ e.fields # <<>> /\ Last(e.fields) = f
        /\ Says(PartWords("typed", e), PartWords("typed", D), r, x)
    BY <1>1, <1>3, <2>1, <2>2, <2>4, GroupSays
  <2> HIDE DEF e
  <2>6. s \in (TailStates \ {"TYPE_RBRACKET"}) \union {"FIELD_NAME_ANNOTES"}
    BY <1>5 DEF AfterType
  <2>7. /\ Shape(s, "field", e) /\ PathTo(s) /\ s \notin NotingStates \union ValueStates \union {"TYPE_RBRACKET"}
        /\ Stage(s, "field") = "typed"
    BY <2>2, <2>5, <2>6, TypedShapes
  <2>8. Says(PartWords(Stage(s, type'), e), PartWords(Stage(state, type), D), Noted, StepWords)
    BY <1>2, <1>5, <2>1, <2>5, <2>7 DEF r, x
  <2>9. Shape(s, type', e)
    BY <1>2, <1>5, <2>7
  <2> QED BY <1>1, <1>2, <2>3, <2>5, <2>7, <2>8, <2>9, SetsStep
<1>6. CASE type # "field"
  <2> DEFINE d == [D EXCEPT !.type = t]
  <2>1. D.kind = "typedef" /\ TheType = D.type /\ ~Open(Stage(state, type))
    BY <1>6, TailNow
  <2>2. d \in DefsRead /\ d.kind = "typedef" /\ d.type = t /\ d.a = D.a /\ d.name = D.name
    BY <1>1, <2>1 DEF DefsRead
  <2>3. SetDef(d)
    BY <1>6 DEF SetType
  <2> HIDE DEF d
  <2> DEFINE p == OpeningWords(D)
             q == TypeWords(TheType)
             w == TypeWords(t)
  <2>4. DefWords(d) = p \o w /\ DefWords(D) = p \o q /\ p \in Speech /\ q \in Speech
    <3>1. OpeningWords(d) = OpeningWords(D)
      BY <2>2 DEF OpeningWords
    <3>2. DefWords(d) = OpeningWords(d) \o TypeWords(d.type)
      BY <2>2, DefSpeaks
    <3>3. DefWords(D) = OpeningWords(D) \o TypeWords(D.type) /\ OpeningWords(D) \in Speech
      BY <1>1, <2>1, DefSpeaks
    <3> QED BY <1>1, <2>1, <2>2, <3>1, <3>2, <3>3, PartsSpeak
  <2>5. Says(w, q, r, x)
    BY <1>4
  <2> HIDE DEF p, q, w
  <2>6. Says(DefWords(d), DefWords(D), r, x)
    <3>1. Says(p \o w, p \o q, r, x)
      BY <1>3, <2>4, <2>5, SaysAfter
    <3> QED BY <2>4, <3>1
  <2>7. s \in (TailStates \ {"TYPE_RBRACKET"}) \union {"ANY"}
    BY <1>6 DEF AfterType
  <2>8. /\ s \notin AtTop \union NamingStates => Shape(s, "typedef", d)
        /\ PathTo(s) /\ s \notin NotingStates \union ValueStates \union {"TYPE_RBRACKET"}
        /\ ~Open(Stage(s, "typedef"))
    BY <2>2, <2>7, TypedefShapes
  <2>9. type' = "typedef"
    BY <1>1, <1>2, <1>6
  <2>10. Says(PartWords(Stage(s, type'), d), PartWords(Stage(state, type), D), Noted, StepWords)
    <3>1. PartWords(Stage(s, type'), d) = DefWords(d) /\ PartWords(Stage(state, type), D) = DefWords(D)
      BY <2>1, <2>8, <2>9 DEF PartWords
    <3> QED BY <2>6, <3>1 DEF r, x
  <2>11. s \notin AtTop \union NamingStates => Shape(s, type', d)
    BY <2>8, <2>9
  <2>12. ~Open(Stage(s, type'))
    BY <2>8, <2>9
  <2> QED BY <1>1, <1>2, <2>2, <2>3, <2>8, <2>10, <2>11, <2>12, SetsStep
<1> QED BY <1>5, <1>6

\* A step of the tail of a type that changes no words and says nothing.
LEMMA TailSilent ==
    ASSUME IInv, IInv', Written, ok, pending, UNCHANGED input, PlainUpTo(read),
           state \in TailStates \ {"TYPE_RBRACKET"}, NEW t \in TypesRead, t.tag = TheType.tag,
           t.name = TheType.name, t.seq = TheType.seq, t.a = TheType.a,
           SetType(t), UNCHANGED <<ns, ahead, notes, type, begun>>,
           NEW s \in (TailStates \ {"TYPE_RBRACKET"}) \union {AfterType},
           Keep(s) \/ (Goto(s) /\ tok.kind \notin Spoken)
    PROVE  Written'
<1>1. TheType \in TypesRead /\ ~TheType.seq /\ state \notin NotingStates \union {"TYPE_RBRACKET"}
  BY TailNow
<1>2. Noted = <<>>
  BY <1>1, NotedNow DEF Written, WrittenOK
<1>3. state' = s /\ pending' \in BOOLEAN /\ StepWords = <<>>
  <2>1. pending' \/ tok.kind \notin Spoken
    BY DEF Keep
  <2> QED BY <2>1, Silent DEF Keep, Goto
<1>4. TypeWords(t) = TypeWords(TheType)
  BY DEF TypeWords
<1>5. Says(TypeWords(t), TypeWords(TheType), Noted, StepWords)
  <2> DEFINE q == TypeWords(TheType)
  <2>1. q \in Speech
    BY <1>1, PartsSpeak
  <2>2. TypeWords(t) = q
    BY <1>4
  <2> HIDE DEF q
  <2>3. Says(q, q, <<>>, <<>>)
    BY <2>1, OneWord, SaysLess
  <2> QED BY <1>2, <1>3, <2>2, <2>3 DEF q
<1> QED BY <1>1, <1>3, <1>5, TailWritten

\* A type that becomes a sequence has a [ after its words.
LEMMA SequenceWords ==
    ASSUME NEW t \in TypesRead, ~t.seq, NEW u \in TypesRead, u.tag = t.tag, u.name = t.name, u.a = t.a, u.seq
    PROVE  TypeWords(u) = TypeWords(t) \o <<"[">>
<1> DEFINE p == NoteWords(t.a)
           q == <<IF t.tag = "ref" THEN t.name ELSE t.tag>>
<1>1. TypeWords(t) = (p \o q) \o <<>> /\ TypeWords(u) = (p \o q) \o <<"[">>
  BY DEF TypeWords
<1>2. p \in Speech /\ q \in Speech
  <2>1. t.a \in Seq(NotesRead) /\ t.name \in Vocabulary /\ t.tag \in Vocabulary
    <3> HIDE DEF Texts, BuiltIn
    <3> QED BY DEF TypesRead, Vocabulary
  <2> QED BY <2>1, NotesGrow, OneWord
<1> HIDE DEF p, q
<1>3. p \o q \in Speech
  BY <1>2, Together
<1>4. (p \o q) \o <<>> = p \o q
  BY <1>3, Together
<1> QED BY <1>1, <1>4

\* TYPE_DYNAMIC, TYPE_RBRACKET, TYPE_LPAREN_OPTIONAL, TYPE_SIZE: only the brackets of a
\* sequence are words.
LEMMA TailsWritten ==
    ASSUME IInv, IInv', Written, ok, pending, UNCHANGED input, PlainUpTo(read),
           TypeDynamic \/ TypeRBracket \/ TypeLParenOptional \/ TypeSize
    PROVE  Written'
<1>1. CASE Reject
  BY <1>1, Otherwise DEF Reject
<1>2. state \in TailStates /\ (state = "TYPE_RBRACKET" <=> TypeRBracket)
  BY DEF TypeDynamic, TypeRBracket, TypeLParenOptional, TypeSize, In, TailStates
<1>3. TheType \in TypesRead /\ ~TheType.seq /\ state \notin NotingStates
  BY <1>2, TailNow
<1>4. tok.num \in Int /\ UnlimitedSize \in Int
  BY TokenParts, ParserAssumption DEF IInv, InputOK, UnlimitedSize
<1>5. \A k \in {"*", "]", "(", "uint"} : k \notin Spoken
  BY DEF Spoken, BuiltIn
<1>6. type \in {"field", "typedef"} /\ (state \in NameStates => type = "field")
  BY TypeOfState
<1>7. ASSUME NEW s \in {"TYPE_LBRACKET", "TYPE_SIZE"}, Quietly(s), Keep(s) \/ (Goto(s) /\ tok.kind \notin Spoken),
             UNCHANGED <<spaces, ns, ahead, notes, type, begun>>
      PROVE  Written'
  <2>1. PathTo(s)
    BY DEF PathTo
  <2>2. pending' \/ tok.kind \notin Spoken
    BY <1>7 DEF Keep
  <2> QED BY <1>7, <2>1, <2>2, SilentStep
<1>8. /\ "TYPE_DYNAMIC" \in (TailStates \ {"TYPE_RBRACKET"}) \union {AfterType}
      /\ AfterType \in (TailStates \ {"TYPE_RBRACKET"}) \union {AfterType}
  BY DEF TailStates
<1>9. CASE TypeDynamic /\ Is({"*"})
  <2> DEFINE t == [TheType EXCEPT !.dyn = TRUE]
  <2>1. /\ SetType(t) /\ Goto("TYPE_DYNAMIC") /\ tok.kind \notin Spoken /\ state \in TailStates \ {"TYPE_RBRACKET"}
        /\ UNCHANGED <<ns, ahead, notes, type, begun>>
    BY <1>2, <1>5, <1>9 DEF TypeDynamic, Is, In
  <2>2. t \in TypesRead /\ t.tag = TheType.tag /\ t.name = TheType.name /\ t.seq = TheType.seq /\ t.a = TheType.a
    BY <1>3, MarksChanged
  <2> HIDE DEF t
  <2> QED BY <1>8, <2>1, <2>2, TailSilent
<1>10. CASE TypeDynamic /\ ~Is({"*"})
  <2>1. /\ Keep("TYPE_LBRACKET") /\ UNCHANGED <<spaces, ns, ahead, notes, type, begun>>
        /\ state = "TYPE_DYNAMIC"
    BY <1>10 DEF TypeDynamic, In
  <2>2. Quietly("TYPE_LBRACKET")
    BY <1>6, <2>1, QuietMoves
  <2> QED BY <1>7, <2>1, <2>2
<1>11. CASE TypeLParenOptional /\ Is({"("})
  <2>1. /\ Goto("TYPE_SIZE") /\ tok.kind \notin Spoken /\ UNCHANGED <<spaces, ns, ahead, notes, type, begun>>
        /\ state = "TYPE_LPAREN_OPTIONAL"
    BY <1>5, <1>11 DEF TypeLParenOptional, In, Is
  <2>2. Quietly("TYPE_SIZE")
    BY <1>6, <2>1, QuietMoves
  <2> QED BY <1>7, <2>1, <2>2
<1>12. CASE TypeLParenOptional /\ ~Is({"("})
  <2> DEFINE t == [TheType EXCEPT !.size = UnlimitedSize]
  <2>1. /\ SetType(t) /\ Keep(AfterType) /\ state \in TailStates \ {"TYPE_RBRACKET"}
        /\ UNCHANGED <<ns, ahead, notes, type, begun>>
    BY <1>2, <1>12 DEF TypeLParenOptional, In
  <2>2. t \in TypesRead /\ t.tag = TheType.tag /\ t.name = TheType.name /\ t.seq = TheType.seq /\ t.a = TheType.a
    BY <1>3, <1>4, SizeChanged
  <2> HIDE DEF t
  <2> QED BY <1>8, <2>1, <2>2, TailSilent
<1>13. CASE TypeSize /\ ~Reject
  <2> DEFINE t == [TheType EXCEPT !.size = tok.num]
  <2>1. /\ SetType(t) /\ Goto(AfterType) /\ tok.kind \notin Spoken /\ state \in TailStates \ {"TYPE_RBRACKET"}
        /\ UNCHANGED <<ns, ahead, notes, type, begun>>
    BY <1>2, <1>5, <1>13 DEF TypeSize, Is, In
  <2>2. t \in TypesRead /\ t.tag = TheType.tag /\ t.name = TheType.name /\ t.seq = TheType.seq /\ t.a = TheType.a
    BY <1>3, <1>4, SizeChanged
  <2> HIDE DEF t
  <2> QED BY <1>8, <2>1, <2>2, TailSilent
<1>14. CASE TypeRBracket /\ ~Reject
  <2> DEFINE t == [TheType EXCEPT !.seq = TRUE]
  <2>1. /\ SetType(t) /\ Goto(AfterType) /\ tok.kind \notin Spoken /\ state = "TYPE_RBRACKET"
        /\ UNCHANGED <<ns, ahead, notes, type, begun>>
    BY <1>2, <1>5, <1>14 DEF TypeRBracket, Is
  <2>2. t \in TypesRead /\ t.tag = TheType.tag /\ t.name = TheType.name /\ t.seq /\ t.a = TheType.a
    BY <1>3, MarksChanged
  <2> HIDE DEF t
  <2>3. state' = AfterType /\ pending' \in BOOLEAN /\ StepWords = <<>>
    <3>1. pending' = FALSE
      BY <2>1 DEF Goto
    <3> QED BY <2>1, <3>1, Silent DEF Goto
  <2>4. Noted = <<"[">>
    <3>1. state \notin ValueStates /\ state \notin NameNoted /\ state \notin AheadNoted
      BY <2>1 DEF ValueStates, NameNoted, AheadNoted
    <3> QED BY <2>1, <3>1 DEF Noted, NotedWords
  <2>5. Says(TypeWords(t), TypeWords(TheType), Noted, StepWords)
    <3> DEFINE q == TypeWords(TheType)
               r == <<"[">>
    <3>1. q \in Speech /\ TypeWords(t) = q \o r
      BY <1>3, <2>2, PartsSpeak, SequenceWords
    <3>2. r \in Speech
      <4>1. "[" \in Vocabulary
        BY DEF Vocabulary
      <4> QED BY <4>1, OneWord
    <3> HIDE DEF q, r
    <3>3. Says(q \o r, q, r, <<>>)
      BY <3>1, <3>2, SaysLess
    <3> QED BY <2>3, <2>4, <3>1, <3>3 DEF q, r
  <2>6. AfterType \notin TailStates
    BY DEF AfterType, TailStates
  <2> QED BY <1>2, <1>8, <2>1, <2>2, <2>3, <2>5, <2>6, TailWritten
<1> QED BY <1>1, <1>9, <1>10, <1>11, <1>12, <1>13, <1>14

-----------------------------------------------------------------------------
\* The end of a field.

\* The last field, where it is open or whole.
LEMMA FieldNow ==
    ASSUME IInv, Written, ok, PlainUpTo(read), state \in {"FIELD_NAME", "FIELD_OPTIONAL"}
    PROVE  /\ D \in DefsRead /\ D.kind = "group" /\ D.fields # <<>>
           /\ F = Last(D.fields) /\ F \in FieldsRead /\ ~F.opt
           /\ state \notin AtTop \union NamingStates
           /\ Stage(state, type) = IF state = "FIELD_NAME" THEN "typed" ELSE "whole"
<1>1. state \notin AtTop \union NamingStates
  BY DEF AtTop, NamingStates
<1>2. /\ state \notin SymbolStates \union SlashStates \union BareStates \union TailStates
      /\ (state \in NameStates <=> state = "FIELD_NAME") /\ (state \in EndStates <=> state = "FIELD_OPTIONAL")
  BY DEF SymbolStates, SlashStates, BareStates, TailStates, NameStates, EndStates
<1>3. Stage(state, type) = IF state = "FIELD_NAME" THEN "typed" ELSE "whole"
  <2>1. CASE state = "FIELD_NAME"
    BY <1>2, <2>1 DEF Stage
  <2>2. CASE state # "FIELD_NAME"
    BY <1>2, <2>2 DEF Stage
  <2> QED BY <2>1, <2>2
<1>4. D \in DefsRead
  BY <1>1, TheDef
<1>5. D.fields # <<>>
  <2>1. CASE state = "FIELD_NAME"
    BY <1>1, <1>3, <2>1, OpenHasField DEF Open
  <2>2. CASE state = "FIELD_OPTIONAL"
    BY <1>2, <2>2 DEF IInv, PlaceOK
  <2> QED BY <2>1, <2>2
<1>6. F \in FieldsRead /\ F = Last(D.fields)
  <2> DEFINE l == D.fields
  <2>1. l \in Seq(FieldsRead) /\ l # <<>>
    BY <1>4, <1>5 DEF DefsRead
  <2> HIDE DEF l
  <2>2. Last(l) \in FieldsRead
    BY <2>1, Split
  <2> QED BY <2>2 DEF l, F, Last
<1>7. D.kind = "group" /\ ~F.opt
  <2>1. Shape(state, type, D)
    BY <1>1 DEF Written, WrittenOK, ShapeOK
  <2> QED BY <1>2, <1>6, <2>1 DEF Shape
<1> QED BY <1>1, <1>3, <1>4, <1>5, <1>6, <1>7

\* The shape of the states after the name of a field.
LEMMA WholeShapes ==
    ASSUME NEW d, d.kind = "group", NEW s \in EndStates, s = "FIELD_OPTIONAL" => ~Last(d.fields).opt, NEW t
    PROVE  /\ Shape(s, t, d) /\ PathTo(s) /\ s \notin NotingStates \union ValueStates \union {"TYPE_RBRACKET"}
           /\ Stage(s, t) = "whole"
<1>1. PathTo(s) /\ s \notin NotingStates \union ValueStates \union {"TYPE_RBRACKET"}
  BY DEF PathTo, NotingStates, NamingStates, ValueStates, EndStates
<1>2. s \notin SymbolStates \union SlashStates \union BareStates \union NameStates \union TailStates
  BY DEF SymbolStates, SlashStates, BareStates, NameStates, TailStates, EndStates
<1>3. Stage(s, t) = "whole"
  BY <1>2 DEF Stage
<1>4. Shape(s, t, d)
  BY <1>2 DEF Shape, EndStates
<1> QED BY <1>1, <1>3, <1>4

\* FIELD_NAME: the field has the annotations that were noted and the name that is read.
LEMMA FieldNameWritten ==
    ASSUME IInv, IInv', Written, ok, pending, UNCHANGED input, PlainUpTo(read), FieldName
    PROVE  Written'
<1>1. CASE Reject
  BY <1>1, Otherwise DEF Reject
<1>2. CASE ~Reject
  <2> DEFINE f == [F EXCEPT !.a = annotes, !.name = tok.name]
             e == [D EXCEPT !.fields[Len(D.fields)] = f]
             s == "FIELD_OPTIONAL"
  <2>1. /\ state = "FIELD_NAME" /\ SetDef(e) /\ annotes' = <<>> /\ Goto(s) /\ tok.kind = "name"
        /\ UNCHANGED <<ns, ahead, laAnnotes, annote, type, begun>>
    BY <1>2 DEF FieldName, SetField, In, Is
  <2>2. /\ D \in DefsRead /\ D.kind = "group" /\ D.fields # <<>>
        /\ F = Last(D.fields) /\ F \in FieldsRead /\ ~F.opt
        /\ state \notin AtTop \union NamingStates /\ Stage(state, type) = "typed"
    BY <2>1, FieldNow
  <2>3. annotes \in Seq(NotesRead) /\ tok.name \in Texts
    BY TokenParts DEF IInv, InputOK, NotesOK
  <2>4. f \in FieldsRead /\ f.type = F.type /\ f.a = annotes /\ f.name = tok.name /\ ~f.opt
    <3> HIDE DEF Texts
    <3> QED BY <2>2, <2>3 DEF FieldsRead
  <2> HIDE DEF f
  <2> DEFINE q == TypeWords(F.type)
             r == NoteWords(annotes)
             x == <<tok.name>>
  <2>5. q \in Speech /\ r \in Speech /\ x \in Speech
    <3>1. F.type \in TypesRead
      BY <2>2 DEF FieldsRead
    <3>2. tok.name \in Vocabulary
      <4> HIDE DEF Texts
      <4> QED BY <2>3 DEF Vocabulary
    <3> QED BY <2>3, <3>1, <3>2, PartsSpeak, NotesGrow, OneWord
  <2>6. Noted = r
    <3>1. Forms(state, annotes, name, Sight)
      BY NotedForms
    <3>2. Noting(state)
      BY <2>1 DEF Noting, ValueStates, NameNoted, AheadNoted
    <3> QED BY <3>1, <3>2 DEF Forms, Noted
  <2>7. Says(FieldPart("whole", f), FieldPart("typed", Last(D.fields)), r, x)
    <3>1. FieldPart("whole", f) = ((q \o r) \o x) \o <<>>
      <4>1. FieldWords(f) = ((TypeWords(f.type) \o NoteWords(f.a)) \o <<f.name>>) \o (IF f.opt THEN <<"?">> ELSE <<>>)
        BY DEF FieldWords
      <4> QED BY <2>4, <4>1 DEF FieldPart
    <3>2. FieldPart("typed", Last(D.fields)) = q
      BY <2>2 DEF FieldPart
    <3> HIDE DEF q, r, x
    <3>3. q \o r \in Speech
      BY <2>5, Together
    <3>4. (q \o r) \o x \in Speech
      BY <2>5, <3>3, Together
    <3>5. ((q \o r) \o x) \o <<>> = (q \o r) \o x
      BY <3>4, Together
    <3>6. Says((q \o r) \o x, q, r, x)
      BY DEF Says
    <3> QED BY <3>1, <3>2, <3>5, <3>6
  <2>8. StepWords = x /\ state' = s /\ pending' \in BOOLEAN /\ type' = type /\ laAnnotes' = laAnnotes /\ ns' = ns
    <3>1. pending' = FALSE
      BY <2>1 DEF Goto
    <3> QED BY <2>1, <3>1, TokenIs DEF Goto, StepWords
  <2> HIDE DEF q, r, x
  <2>9. /\ e \in DefsRead /\ e.kind = "group" /\ e.fields # <<>> /\ Last(e.fields) = f
        /\ Says(PartWords("whole", e), PartWords("typed", D), r, x)
    BY <2>2, <2>4, <2>5, <2>7, GroupSays
  <2> HIDE DEF e
  <2>10. /\ Shape(s, type', e) /\ PathTo(s) /\ s \notin NotingStates \union ValueStates \union {"TYPE_RBRACKET"}
         /\ Stage(s, type') = "whole"
    <3>1. s \in EndStates
      BY DEF EndStates
    <3> QED BY <2>4, <2>9, <3>1, WholeShapes
  <2>11. Says(PartWords(Stage(s, type'), e), PartWords(Stage(state, type), D), Noted, StepWords)
    BY <2>2, <2>6, <2>8, <2>9, <2>10
  <2> QED BY <2>1, <2>2, <2>8, <2>9, <2>10, <2>11, SetsStep
<1> QED BY <1>1, <1>2

\* FIELD_OPTIONAL: an optional field has a ? after its name.
LEMMA FieldOptionalWritten ==
    ASSUME IInv, IInv', Written, ok, pending, UNCHANGED input, PlainUpTo(read), FieldOptional
    PROVE  Written'
<1>1. state = "FIELD_OPTIONAL" /\ UNCHANGED <<ns, ahead, notes, type, begun>>
  BY DEF FieldOptional, In
<1> DEFINE s == "FIELD_NEXT"
<1>2. CASE ~Is({"?"})
  <2>1. Keep(s) /\ UNCHANGED spaces
    BY <1>2 DEF FieldOptional
  <2>2. Quietly(s) /\ PathTo(s)
    BY <1>1, TypeOfState, QuietMoves DEF PathTo
  <2>3. pending'
    BY <2>1 DEF Keep
  <2> QED BY <1>1, <2>1, <2>2, <2>3, SilentStep
<1>3. CASE Is({"?"})
  <2> DEFINE f == [F EXCEPT !.opt = TRUE]
             e == [D EXCEPT !.fields[Len(D.fields)] = f]
  <2>1. SetDef(e) /\ Goto(s) /\ tok.kind = "?"
    BY <1>3 DEF FieldOptional, SetField, Is
  <2>2. /\ D \in DefsRead /\ D.kind = "group" /\ D.fields # <<>>
        /\ F = Last(D.fields) /\ F \in FieldsRead /\ ~F.opt
        /\ state \notin AtTop \union NamingStates /\ Stage(state, type) = "whole"
    BY <1>1, FieldNow
  <2>3. f \in FieldsRead /\ f.type = F.type /\ f.a = F.a /\ f.name = F.name /\ f.opt
    BY <2>2 DEF FieldsRead
  <2> HIDE DEF f
  <2> DEFINE q == FieldWords(F)
             m == (TypeWords(F.type) \o NoteWords(F.a)) \o <<F.name>>
             x == <<"?">>
  <2>4. q \in Speech /\ x \in Speech /\ m \in Speech
    <3>1. "?" \in Vocabulary /\ F.name \in Vocabulary
      <4> HIDE DEF Texts
      <4> QED BY <2>2 DEF Vocabulary, FieldsRead
    <3>2. F.type \in TypesRead /\ F.a \in Seq(NotesRead)
      BY <2>2 DEF FieldsRead
    <3>3. TypeWords(F.type) \in Speech /\ NoteWords(F.a) \in Speech /\ <<F.name>> \in Speech
      BY <3>1, <3>2, PartsSpeak, NotesGrow, OneWord
    <3>4. TypeWords(F.type) \o NoteWords(F.a) \in Speech
      BY <3>3, Together
    <3> QED BY <2>2, <3>1, <3>3, <3>4, PartsSpeak, OneWord, Together
  <2>5. FieldWords(f) = m \o x /\ q = m \o <<>>
    BY <2>2, <2>3 DEF FieldWords
  <2> HIDE DEF q, m, x
  <2>6. Says(FieldWords(f), q, <<>>, x)
    <3>1. m \o <<>> = m
      BY <2>4, Together
    <3>2. Says(m \o x, m, <<>>, x)
      BY <2>4, SaysLess
    <3> QED BY <2>5, <3>1, <3>2
  <2>7. Says(FieldPart("whole", f), FieldPart("whole", Last(D.fields)), <<>>, x)
    BY <2>2, <2>6 DEF FieldPart, q
  <2>8. /\ e \in DefsRead /\ e.kind = "group" /\ e.fields # <<>> /\ Last(e.fields) = f
        /\ Says(PartWords("whole", e), PartWords("whole", D), <<>>, x)
    BY <2>2, <2>3, <2>4, <2>7, OneWord, GroupSays
  <2> HIDE DEF e
  <2>9. /\ Shape(s, type', e) /\ PathTo(s) /\ s \notin NotingStates \union ValueStates \union {"TYPE_RBRACKET"}
        /\ Stage(s, type') = "whole"
    <3>1. s \in EndStates /\ s # "FIELD_OPTIONAL"
      BY DEF EndStates
    <3> QED BY <2>8, <3>1, WholeShapes
  <2>10. Noted = <<>> /\ annotes = <<>>
    <3>1. state \notin NotingStates \union {"TYPE_RBRACKET"}
      BY <1>1 DEF NotingStates, NamingStates
    <3> QED BY <3>1, NotedNow DEF Written, WrittenOK
  <2>11. StepWords = x /\ state' = s /\ pending' \in BOOLEAN
    <3>1. pending' = FALSE
      BY <2>1 DEF Goto
    <3> QED BY <2>1, <3>1, TokenIs DEF Goto, StepWords, x
  <2>12. Says(PartWords(Stage(s, type'), e), PartWords(Stage(state, type), D), Noted, StepWords)
    BY <2>2, <2>8, <2>9, <2>10, <2>11
  <2>13. annotes' = <<>> /\ laAnnotes' = laAnnotes /\ ns' = ns
    BY <1>1, <2>10 DEF notes
  <2> QED BY <2>1, <2>2, <2>8, <2>9, <2>11, <2>12, <2>13, SetsStep
<1> QED BY <1>2, <1>3

-----------------------------------------------------------------------------
\* The words read and the words made.

\* What was read before is plain if it still is with one more token.
LEMMA PlainBefore ==
    ASSUME NEW l \in Seq(Tokens), NEW t \in Tokens, PlainUpTo(Append(l, t))
    PROVE  PlainUpTo(l)
<1> DEFINE m == Append(l, t)
           n == Len(l)
<1>1. /\ n \in Nat /\ DOMAIN l = 1 .. n /\ DOMAIN m = 1 .. (n + 1)
      /\ \A k \in 1 .. n : m[k] = l[k]
  BY AppendProperties
<1> HIDE DEF m, n
<1>2. \A k \in 1 .. n : k \in 1 .. (n + 1)
  BY <1>1
<1>3. PlainUpTo(m)
  BY DEF m
<1>4. \A k \in DOMAIN l : l[k].kind # "namespace"
  BY <1>1, <1>2, <1>3 DEF PlainUpTo
<1>5. ASSUME NEW k \in DOMAIN l, l[k].kind = "@", k > 1
      PROVE  l[k - 1].kind # "="
  <2>1. k \in 1 .. n /\ k - 1 \in 1 .. n
    BY <1>1, <1>5
  <2> QED BY <1>1, <1>2, <1>3, <1>5, <2>1 DEF PlainUpTo
<1>6. ASSUME NEW k \in DOMAIN l, NEW j \in DOMAIN l, k # j, k + 1 \in DOMAIN l, j + 1 \in DOMAIN l,
             l[k].kind = "@", l[j].kind = "@"
      PROVE  ~Finds(l[k + 1].name, l[j + 1].name)
  <2>1. m[k] = l[k] /\ m[j] = l[j] /\ m[k + 1] = l[k + 1] /\ m[j + 1] = l[j + 1]
    BY <1>1, <1>6
  <2>2. k \in DOMAIN m /\ j \in DOMAIN m /\ k + 1 \in DOMAIN m /\ j + 1 \in DOMAIN m
    BY <1>1, <1>2, <1>6
  <2>3. ~Finds(m[k + 1].name, m[j + 1].name)
    BY <1>3, <1>6, <2>1, <2>2 DEF PlainUpTo
  <2> QED BY <2>1, <2>3
<1> QED BY <1>4, <1>5, <1>6 DEF PlainUpTo

\* What a step that leaves the lists and what was handled keeps.
LEMMA WordsStay ==
    ASSUME WrittenOK, UNCHANGED <<state, spaces, ns, ahead, notes, type>>, Handled' = Handled,
           state = "TYPE_ANNOTE" => pending' /\ tok'.kind = "@"
    PROVE  WrittenOK'
<1>1. /\ state' = state /\ spaces' = spaces /\ ns' = ns /\ name' = name /\ laName' = laName /\ laType' = laType
      /\ annotes' = annotes /\ laAnnotes' = laAnnotes /\ annote' = annote /\ type' = type
  BY DEF ahead, notes
<1>2. Defs' = Defs /\ D' = D
  BY <1>1 DEF Defs, D
<1>3. PathOK'
  BY <1>1 DEF WrittenOK, PathOK
<1>4. NotingOK'
  BY <1>1 DEF WrittenOK, NotingOK
<1>5. ShapeOK'
  BY <1>1, <1>2 DEF WrittenOK, ShapeOK
<1>6. Made' = Made
  BY <1>1, <1>2 DEF Made
<1>7. Noted' = Noted
  BY <1>1 DEF Noted, Sight
<1>8. WordsOK'
  BY <1>1, <1>6, <1>7 DEF WrittenOK, WordsOK
<1> QED BY <1>3, <1>4, <1>5, <1>8 DEF WrittenOK

\* The next token is still to be handled.
LEMMA TokenWritten ==
    ASSUME IInv, IInv', Written, GetToken
    PROVE  Written'
<1>1. PICK t \in alphabet \union {Eof} :
         /\ tok' = t /\ read' = Append(read, t)
         /\ ok' = (t.kind # "enomem") /\ pending' = (t.kind # "enomem")
  BY DEF GetToken
<1>2. UNCHANGED <<state, spaces, ns, ahead, notes, type>> /\ ok /\ ~pending
  BY DEF GetToken
<1>3. t \in Tokens /\ read \in Seq(Tokens)
  BY <1>1 DEF IInv, InputOK, Tokens
<1>4. read' # <<>> /\ Front(read') = read /\ Last(read') = t
  BY <1>1, <1>3, SplitAppended
<1>5. TokenOK'
  BY <1>1, <1>4 DEF TokenOK
<1>6. ASSUME ok', PlainUpTo(read)' PROVE WrittenOK'
  <2>1. PlainUpTo(Append(read, t))
    BY <1>1, <1>6
  <2>2. PlainUpTo(read)
    BY <1>3, <2>1, PlainBefore
  <2>3. WrittenOK
    BY <1>2, <2>2 DEF Written
  <2>4. pending'
    BY <1>1, <1>6
  <2>5. Handled' = Handled
    BY <1>2, <1>4, <2>4 DEF Handled
  <2>6. state # "TYPE_ANNOTE"
    BY <1>2, <2>3 DEF WrittenOK, PathOK
  <2> QED BY <1>2, <2>3, <2>5, <2>6, WordsStay
<1> QED BY <1>5, <1>6 DEF Written

\* Nothing is read or made when parseSchema is called.
LEMMA InitWritten == Init => Written
<1> SUFFICES ASSUME Init PROVE Written
  OBVIOUS
<1>1. /\ state = "START" /\ pending = FALSE /\ spaces = <<>> /\ read = <<>> /\ annotes = <<>> /\ laAnnotes = <<>>
  BY DEF Init
<1>2. Handled = <<>>
  BY <1>1 DEF Handled
<1>3. PathOK
  BY <1>1, <1>2 DEF PathOK
<1>4. NotingOK
  BY <1>1 DEF NotingOK, ValueStates, WrittenAt
<1>5. ShapeOK /\ WordsOK /\ TokenOK
  BY <1>1 DEF ShapeOK, WordsOK, TokenOK, AtTop
<1> QED BY <1>3, <1>4, <1>5 DEF Written, WrittenOK

\* Every step handles tokens as the words it makes and notes say.
LEMMA NextWritten ==
    ASSUME WordsHaveCharacters, NoTimes
    PROVE  IInv /\ IInv' /\ Written /\ [Next]_vars => Written'
<1> SUFFICES ASSUME IInv, IInv', Written, [Next]_vars PROVE Written'
  OBVIOUS
<1>1. CASE GetToken
  BY <1>1, TokenWritten
<1>2. CASE UNCHANGED vars
  <2>1. /\ UNCHANGED <<state, spaces, ns, ahead, notes, type>>
        /\ tok' = tok /\ read' = read /\ pending' = pending /\ ok' = ok
    BY <1>2 DEF vars, ahead, notes
  <2>2. TokenOK'
    BY <2>1 DEF Written, TokenOK
  <2>3. Handled' = Handled
    BY <2>1 DEF Handled
  <2>4. PlainUpTo(read)' = PlainUpTo(read)
    BY <2>1
  <2>5. ASSUME WrittenOK PROVE WrittenOK'
    <3>1. state = "TYPE_ANNOTE" => pending' /\ tok'.kind = "@"
      BY <2>1, <2>5 DEF WrittenOK, PathOK
    <3> QED BY <2>1, <2>3, <2>5, <3>1, WordsStay
  <2> QED BY <2>1, <2>2, <2>4, <2>5 DEF Written
<1>3. CASE Handle
  <2>1. ok /\ pending /\ UNCHANGED input
    BY <1>3 DEF Handle, In, Start, Ns, TopLevel, DefOrAnnote, AnnoteName, AnnoteValue, DefType, EnumOrTypedef,
       SymbolOrRef, Typedef, Enum, SymbolAnnotes, SymbolName, Symbol, SymbolSlash, SymbolValue, SymbolNext,
       AfterGroupHead, GroupId, GroupSuper, Field, FieldType, TypeDynamic, TypeLBracket, TypeRBracket, TypeLParen,
       TypeLParenOptional, TypeSize, FieldNameAnnotes, FieldName, FieldOptional, FieldNext, NoMemory
  <2>2. CASE ~PlainUpTo(read)
    BY <2>1, <2>2, Otherwise
  <2>3. CASE PlainUpTo(read)
    <3>1. CASE Start
      BY <2>1, <2>3, <3>1, StartWritten
    <3>2. CASE Ns
      BY <2>1, <2>3, <3>2 DEF Ns, In, Written, WrittenOK, PathOK
    <3>3. CASE \/ TopLevel \/ SymbolOrRef \/ SymbolAnnotes \/ SymbolNext \/ AfterGroupHead
               \/ TypeLBracket \/ TypeLParen \/ FieldNameAnnotes \/ FieldNext
      BY <2>1, <2>3, <3>3, QuietStepsWritten
    <3>4. CASE DefOrAnnote \/ SymbolName
      BY <2>1, <2>3, <3>4, NameWritten
    <3>5. CASE EnumOrTypedef
      BY <2>1, <2>3, <3>5, AheadWritten
    <3>6. CASE AnnoteName
      BY <2>1, <2>3, <3>6, AnnoteNameWritten
    <3>7. CASE AnnoteValue
      BY <2>1, <2>3, <3>7, AnnoteValueWritten
    <3>8. CASE DefType
      BY <2>1, <2>3, <3>8, DefTypeWritten
    <3>9. CASE Typedef
      BY <2>1, <2>3, <3>9, TypedefWritten
    <3>10. CASE Enum
      BY <2>1, <2>3, <3>10, EnumWritten
    <3>11. CASE Symbol
      BY <2>1, <2>3, <3>11, SymbolWritten
    <3>12. CASE SymbolSlash \/ SymbolValue
      BY <2>1, <2>3, <3>12, ValueWritten
    <3>13. CASE GroupId \/ GroupSuper
      BY <2>1, <2>3, <3>13, GroupHeadWritten
    <3>14. CASE Field
      BY <2>1, <2>3, <3>14, FieldWritten
    <3>15. CASE FieldType
      BY <2>1, <2>3, <3>15, FieldTypeWritten
    <3>16. CASE TypeDynamic \/ TypeRBracket \/ TypeLParenOptional \/ TypeSize
      BY <2>1, <2>3, <3>16, TailsWritten
    <3>17. CASE FieldName
      BY <2>1, <2>3, <3>17, FieldNameWritten
    <3>18. CASE FieldOptional
      BY <2>1, <2>3, <3>18, FieldOptionalWritten
    <3>19. CASE NoMemory
      BY <2>1, <3>19, Otherwise DEF NoMemory, Reject
    <3> QED BY <1>3, <3>1, <3>2, <3>3, <3>4, <3>5, <3>6, <3>7, <3>8, <3>9, <3>10, <3>11, <3>12, <3>13, <3>14,
               <3>15, <3>16, <3>17, <3>18, <3>19 DEF Handle
  <2> QED BY <2>2, <2>3
<1> QED BY <1>1, <1>2, <1>3 DEF Next

\* An accepted schema has every name, type and mark of what was read, each once, in its
\* place and with the annotations where they were, if names and literals have characters
\* and no type is one of the two times.
THEOREM AcceptedWritten == (WordsHaveCharacters /\ NoTimes) => (Spec => []AcceptedIsWhatWasWritten)
<1> SUFFICES ASSUME WordsHaveCharacters, NoTimes PROVE Spec => []AcceptedIsWhatWasWritten
  OBVIOUS
<1>1. IInv /\ Written => AcceptedIsWhatWasWritten
  <2> SUFFICES ASSUME IInv, Written, Accepted, Plain PROVE SchemaWords(Defs) = WordsOf(read)
    BY DEF AcceptedIsWhatWasWritten
  <2>1. state = "ANY" /\ ok /\ ~pending
    BY AcceptedAtTop DEF Accepted
  <2>2. PlainUpTo(read)
    BY DEF Plain, PlainUpTo
  <2>3. WrittenOK /\ Handled = read
    BY <2>1, <2>2 DEF Written, Handled
  <2>4. Noted = <<>>
    <3>1. state \notin NotingStates \union {"TYPE_RBRACKET"}
      BY <2>1 DEF NotingStates, NamingStates
    <3> QED BY <2>3, <3>1, NotedNow DEF WrittenOK
  <2>5. Made = SchemaWords(Defs)
    <3>1. state \notin SymbolStates \union SlashStates \union BareStates \union NameStates \union TailStates
      BY <2>1 DEF SymbolStates, SlashStates, BareStates, NameStates, TailStates
    <3>2. Stage(state, type) = "whole"
      BY <3>1 DEF Stage
    <3>3. ~Open("whole")
      BY DEF Open
    <3> QED BY <3>2, <3>3 DEF Made, MadeWords
  <2>6. Made \o <<>> = Made
    BY <2>1, MadeNow, Together
  <2>7. Made \o Noted = WordsOf(read)
    BY <2>1, <2>3 DEF WrittenOK, WordsOK
  <2> QED BY <2>4, <2>5, <2>6, <2>7
<1>2. Init => Written
  BY InitWritten
<1>3. IInv /\ IInv' /\ Written /\ [Next]_vars => Written'
  BY NextWritten
<1>4. Spec => []IInv
  BY Invariance
<1> QED BY <1>1, <1>2, <1>3, <1>4, PTL DEF Spec

-----------------------------------------------------------------------------
\* No token is handled for ever.

\* How many more states may be given a token that is in this one.
Passes(s) ==
    CASE s = "SYMBOL_OR_REF" -> 6
      [] s = "ENUM" -> 5
      [] s \in {"TYPEDEF", "SYMBOL"} -> 4
      [] s \in {"TYPE_DYNAMIC", "SYMBOL_SLASH", "FIELD_OPTIONAL"} -> 3
      [] s \in {"START", "DEF_TYPE", "ENUM_SINGLETON", "SUPER_OR_FIELD_OR_ANY", "FIELD_OR_ANY", "SYMBOL_NEXT",
                "TYPE_LBRACKET", "TYPE_LPAREN_OPTIONAL", "FIELD_NEXT"} -> 2
      [] s \in {"ANY", "SYMBOL_ANNOTES", "FIELD_NAME_ANNOTES", "FIELD"} -> 1
      [] OTHER -> 0

\* A step leaves no token to handle, or a state from which fewer are left to pass it to.
MovesOn == ~pending' \/ Passes(state') < Passes(state)

\* The states that pass a token on, and where they leave it; the others shift it or refuse it.
LEMMA HandleMovesOn == ASSUME Handle, ok' PROVE MovesOn
<1> SUFFICES ASSUME pending' PROVE Passes(state') < Passes(state)
  BY DEF MovesOn
<1>0. ok' /\ pending'
  OBVIOUS
<1>1. CASE Start
  <2>1. state = "START" /\ state' = "ANY"
    BY <1>1, <1>0 DEF Start, Goto, Keep, Reject, In
  <2> QED BY <2>1 DEF Passes
<1>2. CASE TopLevel
  <2>1. state = "ANY" /\ state' = "DEF_OR_ANNOTE"
    BY <1>2, <1>0 DEF TopLevel, Goto, Keep, Reject, In
  <2> QED BY <2>1 DEF Passes
<1>3. CASE DefType
  <2>1. state = "DEF_TYPE" /\ state' = "ANY"
    BY <1>3, <1>0 DEF DefType, Goto, Keep, Reject, In
  <2> QED BY <2>1 DEF Passes
<1>4. CASE SymbolOrRef
  <2>1. state = "SYMBOL_OR_REF" /\ state' \in {"ENUM", "TYPEDEF"}
    BY <1>4, <1>0 DEF SymbolOrRef, Goto, Keep, Reject, In
  <2> QED BY <2>1 DEF Passes
<1>5. CASE Typedef
  <2>1. state = "TYPEDEF" /\ state' \in {"TYPE_DYNAMIC", "TYPE_LBRACKET"}
    BY <1>5, <1>0 DEF Typedef, Goto, Keep, Reject, In
  <2> QED BY <2>1 DEF Passes
<1>6. CASE Enum
  <2>1. <<state, state'>> \in {<<"ENUM_SINGLETON", "SYMBOL_ANNOTES">>, <<"ENUM", "SYMBOL">>}
    BY <1>6, <1>0 DEF Enum, Goto, Keep, Reject, In
  <2> QED BY <2>1 DEF Passes
<1>7. CASE SymbolAnnotes
  <2>1. state = "SYMBOL_ANNOTES" /\ state' = "SYMBOL_NAME"
    BY <1>7, <1>0 DEF SymbolAnnotes, Goto, Keep, Reject, In
  <2> QED BY <2>1 DEF Passes
<1>8. CASE Symbol
  <2>1. state = "SYMBOL" /\ state' = "SYMBOL_SLASH"
    BY <1>8, <1>0 DEF Symbol, Goto, Keep, Reject, In
  <2> QED BY <2>1 DEF Passes
<1>9. CASE SymbolSlash
  <2>1. state = "SYMBOL_SLASH" /\ state' = "SYMBOL_NEXT"
    BY <1>9, <1>0 DEF SymbolSlash, Goto, Keep, Reject, In
  <2> QED BY <2>1 DEF Passes
<1>10. CASE SymbolNext
  <2>1. state = "SYMBOL_NEXT" /\ state' = "ANY"
    BY <1>10, <1>0 DEF SymbolNext, Goto, Keep, Reject, In
  <2> QED BY <2>1 DEF Passes
<1>11. CASE AfterGroupHead
  <2>1. state \in {"SUPER_OR_FIELD_OR_ANY", "FIELD_OR_ANY"} /\ state' = "ANY"
    BY <1>11, <1>0 DEF AfterGroupHead, Goto, Keep, Reject, In
  <2> QED BY <2>1 DEF Passes
<1>12. CASE Field
  <2>1. state = "FIELD" /\ state' \in {"TYPE_ANNOTE", "FIELD_TYPE"}
    BY <1>12, <1>0 DEF Field, Goto, Keep, Reject, In
  <2> QED BY <2>1 DEF Passes
<1>13. CASE TypeDynamic
  <2>1. state = "TYPE_DYNAMIC" /\ state' = "TYPE_LBRACKET"
    BY <1>13, <1>0 DEF TypeDynamic, Goto, Keep, Reject, In
  <2> QED BY <2>1 DEF Passes
<1>14. CASE TypeLBracket
  <2>1. state = "TYPE_LBRACKET" /\ state' \in {"FIELD_NAME_ANNOTES", "ANY"}
    BY <1>14, <1>0 DEF TypeLBracket, Goto, Keep, Reject, In, AfterType
  <2> QED BY <2>1 DEF Passes
<1>15. CASE TypeLParenOptional
  <2>1. state = "TYPE_LPAREN_OPTIONAL" /\ state' \in {"FIELD_NAME_ANNOTES", "ANY"}
    BY <1>15, <1>0 DEF TypeLParenOptional, Goto, Keep, Reject, In, AfterType
  <2> QED BY <2>1 DEF Passes
<1>16. CASE FieldNameAnnotes
  <2>1. state = "FIELD_NAME_ANNOTES" /\ state' = "FIELD_NAME"
    BY <1>16, <1>0 DEF FieldNameAnnotes, Goto, Keep, Reject, In
  <2> QED BY <2>1 DEF Passes
<1>17. CASE FieldOptional
  <2>1. state = "FIELD_OPTIONAL" /\ state' = "FIELD_NEXT"
    BY <1>17, <1>0 DEF FieldOptional, Goto, Keep, Reject, In
  <2> QED BY <2>1 DEF Passes
<1>18. CASE FieldNext
  <2>1. state = "FIELD_NEXT" /\ state' = "ANY"
    BY <1>18, <1>0 DEF FieldNext, Goto, Keep, Reject, In
  <2> QED BY <2>1 DEF Passes
<1>19. ASSUME \/ Ns \/ DefOrAnnote \/ AnnoteName \/ AnnoteValue \/ EnumOrTypedef \/ SymbolName \/ SymbolValue
              \/ GroupId \/ GroupSuper \/ FieldType \/ TypeRBracket \/ TypeLParen \/ TypeSize \/ FieldName
              \/ NoMemory
       PROVE  FALSE
  BY <1>0, <1>19 DEF Ns, DefOrAnnote, AnnoteName, AnnoteValue, EnumOrTypedef, SymbolName, SymbolValue,
     GroupId, GroupSuper, FieldType, TypeRBracket, TypeLParen, TypeSize, FieldName, NoMemory, Goto, Reject
<1> QED BY <1>1, <1>2, <1>3, <1>4, <1>5, <1>6, <1>7, <1>8, <1>9, <1>10, <1>11, <1>12, <1>13, <1>14, <1>15,
     <1>16, <1>17, <1>18, <1>19 DEF Handle

\* A token is passed from state to state at most six times and never in a circle: a
\* step that has a token to handle refuses it, shifts it, or leaves it to a state from
\* which fewer are left.
THEOREM TokensMoveOn == Spec => [][(pending /\ ok') => (Passes(state) \in 0 .. 6 /\ MovesOn)]_vars
<1>1. [Next]_vars => [(pending /\ ok') => (Passes(state) \in 0 .. 6 /\ MovesOn)]_vars
  <2> SUFFICES ASSUME Next, pending, ok' PROVE Passes(state) \in 0 .. 6 /\ MovesOn
    OBVIOUS
  <2>1. Handle
    BY DEF Next, GetToken
  <2>2. Passes(state) \in 0 .. 6
    BY DEF Passes
  <2> QED BY <2>1, <2>2, HandleMovesOn
<1> QED BY <1>1, PTL DEF Spec
=============================================================================
