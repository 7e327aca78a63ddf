------------------------------- MODULE Lexer -------------------------------
(***************************************************************************)
(* BLINK_Lexer_getToken of blink_lexer.c, called until the text of a       *)
(* schema is used up or a call gives no token.                             *)
(*                                                                         *)
(* A text is a sequence of characters; a position is the number of them    *)
(* that have been read, as BLINK_Stream_tell has it. Each recogniser tries *)
(* the text at a position and gives the set of its tokens: none when it    *)
(* does not recognise the text, "enomem" when the text outgrows the        *)
(* buffer. Numbers wrap at HexDigits hexadecimal digits (16 in the code,   *)
(* where the signed sum wraps as the unsigned one does in every build).    *)
(***************************************************************************)
EXTENDS Integers, Sequences, FiniteSets

CONSTANTS
    Texts,          \* the texts read
    Letters,        \* the letters in them, and the underscore
    TokenTable,     \* the marks and keywords, each a sequence of characters
    NameMax,        \* characters the caller's buffer holds
    HexDigits       \* hexadecimal digits of an unsigned number

VARIABLES
    text,
    pos,        \* where the stream stands
    from,       \* history: where it stood before the last call
    token,      \* what the last call gave: [kind, start, end, len, number]
    location    \* [row, col]

vars == <<text, pos, from, token, location>>

Separators == {" ", "\n", "\t", "\r"}
\* The digits in order; upper case letters are left out.
HexOrder == <<"0", "1", "2", "3", "4", "5", "6", "7", "8", "9", "a", "b", "c", "d", "e", "f">>
HexChars == {HexOrder[k] : k \in 1 .. 16}
Digits == {HexOrder[k] : k \in 1 .. 10}
DigitValue == [c \in HexChars |-> (CHOOSE k \in 1 .. 16 : HexOrder[k] = c) - 1]

FirstNameChars == Letters
NameChars == Letters \union Digits

\* A keyword of the table is made of the characters of names, a mark begins no other
\* token, none has the end of a line in it and none begins a later one.
LexerAssumption ==
    /\ Texts \subseteq Seq(STRING \ {"end"})
    /\ NameMax \in Nat
    /\ HexDigits \in Nat \ {0}
    /\ Letters \intersect (Digits \union Separators \union {"end", "nul", ":", "\"", "'", "\\", "-", "#"}) = {}
    /\ TokenTable \in Seq(Seq(STRING \ {"\n"}) \ {<<>>})
    /\ \A k \in DOMAIN TokenTable :
        LET word == TokenTable[k]
        IN  /\ word[1] \notin Digits \union {"\"", "'", "\\"}
            /\ word[1] \in Letters => \A n \in DOMAIN word : word[n] \in NameChars
            /\ word[1] = "-" => Len(word) > 1 /\ word[2] \notin Digits
            /\ \A l \in k + 1 .. Len(TokenTable) :
                 Len(word) <= Len(TokenTable[l]) => SubSeq(TokenTable[l], 1, Len(word)) # word
ASSUME LexerAssumption

-----------------------------------------------------------------------------
\* The character at a position, and where a run of characters of a set ends.
At(p) == IF p < Len(text) THEN text[p + 1] ELSE "end"
Chars == {text[k] : k \in DOMAIN text}
RunEnd(p, chars) ==
    CHOOSE q \in p .. Len(text) : At(q) \notin chars /\ \A r \in p .. q - 1 : At(r) \in chars

Token(kind, start, end, len, number) ==
    [kind |-> kind, start |-> start, end |-> end, len |-> len, number |-> number]
Blank(kind, start, end) == Token(kind, start, end, 0, 0)

\* ENOMEM: the text up to the first character that has no room was read.
Full(p, start) == Blank("enomem", p, start + NameMax + 1)

\* The powers of a base up to the n-th.
Powers(base, n) ==
    LET power[k \in 0 .. n] == IF k = 0 THEN 1 ELSE base * power[k - 1]
    IN  power

\* A number, digit by digit, in an integer of Modulus values.
Modulus == Powers(16, HexDigits)[HexDigits]
NumberAt(p, q, base) ==
    LET sum[k \in p .. q] == IF k = p THEN 0 ELSE (sum[k - 1] * base + DigitValue[At(k - 1)]) % Modulus
    IN  sum[q]
SignedOf(n) == IF n >= Modulus \div 2 THEN n - Modulus ELSE n

\* Mutant of IsCName: a colon that is not followed by a name belongs to it.
IsCNameOpen(p) ==
    LET colon == RunEnd(p, NameChars)
        end == RunEnd(colon + 1, NameChars)
    IN  IF At(p) \notin FirstNameChars THEN {}
        ELSE IF colon - p > NameMax \/ (At(colon) = ":" /\ colon - p = NameMax) THEN {Full(p, p)}
        ELSE IF At(colon) # ":" THEN {}
        ELSE IF end - p > NameMax THEN {Full(p, p)}
        ELSE {Token("cname", p, end, end - p, 0)}

\* A name, a colon and at least one more character of a name.
IsCName(p) ==
    LET colon == RunEnd(p, NameChars)
        end == RunEnd(colon + 1, NameChars)
    IN  IF At(p) \notin FirstNameChars THEN {}
        ELSE IF colon - p > NameMax \/ (At(colon) = ":" /\ colon - p = NameMax) THEN {Full(p, p)}
        ELSE IF At(colon) # ":" \/ end = colon + 1 THEN {}
        ELSE IF end - p > NameMax THEN {Full(p, p)}
        ELSE {Token("cname", p, end, end - p, 0)}

BeginsWith(p, word) == p + Len(word) <= Len(text) /\ SubSeq(text, p + 1, p + Len(word)) = word

\* Mutant of StringToToken: the word is compared and not read.
StringToTokenPeeks(p) ==
    {Blank("word", p, p) : k \in {i \in DOMAIN TokenTable : BeginsWith(p, TokenTable[i])}}

\* The first word of the table the text begins with, whatever follows it.
StringToToken(p) ==
    {Blank("word", p, p + Len(TokenTable[k])) :
        k \in {i \in DOMAIN TokenTable : /\ BeginsWith(p, TokenTable[i])
                                         /\ \A j \in 1 .. i - 1 : ~BeginsWith(p, TokenTable[j])}}

IsLiteral(p) ==
    LET mark == At(p)
        end == RunEnd(p + 1, Chars \ {mark, "\n"})
    IN  IF mark \notin {"\"", "'"} THEN {}
        ELSE IF end - (p + 1) > NameMax THEN {Full(p, p + 1)}
        ELSE IF At(end) # mark THEN {}
        ELSE {Token("literal", p, end + 1, end - (p + 1), 0)}

\* Mutant of IsName: the escape is counted with the name.
IsNameEscaped(p) ==
    LET first == IF At(p) = "\\" THEN p + 1 ELSE p
        end == RunEnd(first, NameChars)
    IN  IF At(first) \notin FirstNameChars THEN {}
        ELSE IF end - first > NameMax THEN {Full(p, first)}
        ELSE {Token("name", p, end, IF end = Len(text) THEN 0 ELSE end - p, 0)}

\* A name may be escaped. Its length is set when a character that does not belong to
\* it is seen: at the end of the text it stays 0.
IsName(p) ==
    LET first == IF At(p) = "\\" THEN p + 1 ELSE p
        end == RunEnd(first, NameChars)
    IN  IF At(first) \notin FirstNameChars THEN {}
        ELSE IF end - first > NameMax THEN {Full(p, first)}
        ELSE {Token("name", p, end, IF end = Len(text) THEN 0 ELSE end - first, 0)}

\* Digits are counted from 1 and compared with <=: one more than fits is taken.
IsHexNumber(p) ==
    LET end == RunEnd(p + 2, HexChars)
    IN  IF At(p) # "0" \/ At(p + 1) # "x" \/ At(p + 2) \notin HexChars THEN {}
        ELSE IF end - (p + 2) > HexDigits + 1 THEN {}
        ELSE {Token("uint", p, end, 0, NumberAt(p + 2, end, 16))}

IsUnsignedNumber(p) ==
    IF At(p) \notin Digits THEN {}
    ELSE LET end == RunEnd(p, Digits) IN {Token("uint", p, end, 0, NumberAt(p, end, 10))}

IsSignedNumber(p) ==
    LET first == IF At(p) = "-" THEN p + 1 ELSE p
        end == RunEnd(first, Digits)
    IN  IF At(first) \notin Digits THEN {}
        ELSE {Token("int", p, end, 0, SignedOf((-NumberAt(first, end, 10)) % Modulus))}

-----------------------------------------------------------------------------
\* The recognisers in the order they are tried; a character none of them knows is read.
Recognise(p) ==
    LET tried == <<IsCName(p), StringToToken(p), IsLiteral(p), IsName(p), IsHexNumber(p),
                   IsUnsignedNumber(p), IsSignedNumber(p), {Blank("unknown", p, p + 1)}>>
    IN  tried[CHOOSE k \in DOMAIN tried : tried[k] # {} /\ \A l \in 1 .. k - 1 : tried[l] = {}]

AfterSpace == RunEnd(pos, Separators)

\* Mutant of AfterComment: the end of the line stays where it is.
AfterCommentOnly(p) == IF At(p) # "#" THEN p ELSE RunEnd(p, Chars \ {"\n"})

\* One comment, with the end of its line.
AfterComment(p) ==
    IF At(p) # "#" THEN p
    ELSE LET end == RunEnd(p, Chars \ {"\n"}) IN IF At(end) = "\n" THEN end + 1 ELSE end

\* Only what is skipped is counted.
NewLines(p, q) == {k \in p .. q - 1 : At(k) = "\n"}
LocationAt(space, start) ==
    [row |-> location.row + Cardinality(NewLines(pos, start)),
     col |-> IF NewLines(space, start) # {} THEN 0
             ELSE IF NewLines(pos, space) = {} THEN location.col + (space - pos)
             ELSE space - 1 - CHOOSE k \in NewLines(pos, space) : \A l \in NewLines(pos, space) : l <= k]

NoToken == Blank("none", 0, 0)
Last == {"eof", "enomem", "unknown"}

Init ==
    /\ text \in Texts
    /\ pos = 0
    /\ from = 0
    /\ token = NoToken
    /\ location = [row |-> 1, col |-> 0]

\* A NUL ends the text like its end does.
GetToken ==
    /\ token.kind \notin Last
    /\ \E space \in {AfterSpace} : \E start \in {AfterComment(space)} :
        /\ location' = LocationAt(space, start)
        /\ token' \in CASE At(start) = "end" -> {Blank("eof", start, start)}
                        [] At(start) = "nul" -> {Blank("eof", start, start + 1)}
                        [] OTHER -> Recognise(start)
    /\ pos' = token'.end
    /\ from' = pos
    /\ UNCHANGED text

Next == GetToken

\* getToken is called by a loop that runs until the text is used up.
Spec == Init /\ [][Next]_vars /\ WF_vars(Next)
-----------------------------------------------------------------------------
\* What the tokens are: the language the code takes, of each kind. It is wider than the
\* patterns of blink_lexer.h, and the properties at the end of the module say by what: a
\* name of one character, alone or in a cname (NamesHaveTwoCharacters), a digit after the
\* colon of a cname (CNamesAreNames), and more than two characters there; "-0" and what
\* begins so (IntsAreNotZero); one hexadecimal digit (HexHasTwoDigits) or one too many
\* (HexTooBigIsUnknown).
Piece(p, n) == SubSeq(text, p + 1, p + n)
All(s, chars) == \A k \in DOMAIN s : s[k] \in chars
PlainName(s) == s # <<>> /\ s[1] \in FirstNameChars /\ All(s, NameChars)
Beyond(s, k) == SubSeq(s, k + 1, Len(s))
Fits(kind, s) ==
    CASE kind = "name" -> PlainName(s) \/ (s # <<>> /\ s[1] = "\\" /\ PlainName(Beyond(s, 1)))
      [] kind = "cname" ->
            \E k \in 2 .. Len(s) - 1 :
                s[k] = ":" /\ PlainName(SubSeq(s, 1, k - 1)) /\ All(Beyond(s, k), NameChars)
      [] kind = "word" -> s \in {TokenTable[k] : k \in DOMAIN TokenTable}
      [] kind = "literal" ->
            /\ Len(s) >= 2
            /\ s[1] \in {"\"", "'"}
            /\ s[Len(s)] = s[1]
            /\ All(SubSeq(s, 2, Len(s) - 1), Chars \ {s[1], "\n"})
      [] kind = "uint" ->
            \/ s # <<>> /\ All(s, Digits)
            \/ Len(s) > 2 /\ SubSeq(s, 1, 2) = <<"0", "x">> /\ All(Beyond(s, 2), HexChars)
      [] kind = "int" -> Len(s) > 1 /\ s[1] = "-" /\ All(Beyond(s, 1), Digits)
Kinds == {"name", "cname", "word", "literal", "uint", "int"}

Taken == Piece(token.start, token.end - token.start)
Pieces == {Piece(token.start, n) : n \in 1 .. Len(text) - token.start}
HexTooLong == \E s \in Pieces : Len(s) > HexDigits + 3 /\ Fits("uint", s) /\ s[2] = "x"
OutgrowsBuffer(s) ==
    LET rest == Beyond(s, 1) IN
    \/ Len(s) > NameMax /\ PlainName(s)
    \/ Len(s) > NameMax /\ Fits("cname", s)
    \/ Len(s) = NameMax + 1 /\ PlainName(SubSeq(s, 1, NameMax)) /\ s[Len(s)] = ":"
    \/ Len(rest) > NameMax /\ s[1] = "\\" /\ PlainName(rest)
    \/ Len(rest) > NameMax /\ s[1] \in {"\"", "'"} /\ All(rest, Chars \ {s[1], "\n"})

\* Every token is a text of its kind, as the code takes it, and the longest there is of
\* any kind: the recognisers, tried one after another and each giving up in its own
\* place, neither split a text nor run into the next one, refuse only what no kind has
\* and run out of room only on what has none. A keyword that begins a name is the one
\* text that is split, and a hexadecimal number that is too long.
TokensAreLongest ==
    /\ token.kind \in Kinds => Fits(token.kind, Taken)
    /\ token.kind \in Kinds =>
        \A s \in Pieces, kind \in Kinds :
            Fits(kind, s) => \/ Len(s) <= Len(Taken)
                             \/ token.kind = "word" /\ kind = "name"
                             \/ token.kind = "uint" /\ HexTooLong
    /\ token.kind = "unknown" => \A s \in Pieces, kind \in Kinds : ~Fits(kind, s)
    /\ token.kind = "enomem" => \E s \in Pieces : OutgrowsBuffer(s)

\* What a number says: its digits from the last one on, each as often as its place says.
ValueOf(s, base) ==
    LET value[k \in 0 .. Len(s)] ==
            IF k = 0 THEN 0
            ELSE value[k - 1] + DigitValue[s[Len(s) + 1 - k]] * Powers(base, Len(s))[k - 1]
    IN  value[Len(s)]

\* The value that comes with a token is the whole of its text, without quotes and
\* escape, in the caller's buffer; a number is the one that is written as far as it
\* fits. A name at the very end of a text has no length.
ValuesAreExact ==
    CASE token.kind \in {"name", "cname"} /\ (token.kind = "cname" \/ token.end < Len(text)) ->
            token.len = Cardinality({k \in DOMAIN Taken : Taken[k] # "\\"}) /\ token.len <= NameMax
      [] token.kind = "literal" -> token.len = Len(Taken) - 2 /\ token.len <= NameMax
      [] token.kind = "uint" /\ "x" \notin {Taken[k] : k \in DOMAIN Taken} ->
            token.number = ValueOf(Taken, 10) % Modulus
      [] token.kind = "uint" /\ "x" \in {Taken[k] : k \in DOMAIN Taken} ->
            token.number = ValueOf(Beyond(Taken, 2), 16) % Modulus
      [] token.kind = "int" ->
            LET magnitude == ValueOf(Beyond(Taken, 1), 10) IN
            magnitude <= Modulus \div 2 => token.number = -magnitude
      [] OTHER -> TRUE

\* Nothing of a text is lost: before a token only separators and one whole comment are
\* skipped, the text ends where it ends or at a NUL, and the row that is reported is
\* the row the token stands in.
OnlySpaceIsSkipped ==
    token # NoToken =>
        LET skipped == SubSeq(text, from + 1, token.start)
            before == SubSeq(text, 1, token.start)
        IN  /\ \E k \in 0 .. Len(skipped) :
                 /\ All(SubSeq(skipped, 1, k), Separators)
                 /\ k < Len(skipped) =>
                     /\ skipped[k + 1] = "#"
                     /\ \A l \in k + 1 .. Len(skipped) - 1 : skipped[l] # "\n"
                     /\ skipped[Len(skipped)] = "\n" \/ token.start = Len(text)
            /\ token.kind = "eof" => token.start = Len(text) \/ text[token.start + 1] = "nul"
            /\ location.row = 1 + Cardinality({k \in DOMAIN before : before[k] = "\n"})

\* The text is used up or refused: every call that gives a token has read some of it.
Ends == <>(token.kind \in Last)
-----------------------------------------------------------------------------
\* What the comments and tests say and the code does not do.

\* "TOK_UINT ... [0][x][0-9a-fA-F][0-9a-fA-F]+", and TOK_UNKNOWN for seventeen digits in
\* test_BLINK_Lexer_getToken_hex_number_too_big: a number that does not fit is none.
HexTooBigIsUnknown ==
    (token.kind = "uint" /\ "x" \in {Taken[k] : k \in DOMAIN Taken}) =>
        ValueOf(Beyond(Taken, 2), 16) < Modulus

\* "TOK_NAME [\\]?[A-Za-z_][A-Za-z_0-9]+": a name is a token, whatever it begins with.
NamesAreWhole ==
    token.kind = "word" => \A s \in Pieces : Fits("name", s) => Len(s) <= Len(Taken)

\* "TOK_NAME ... [A-Za-z_0-9]+": a name has two characters.
NamesHaveTwoCharacters == token.kind = "name" => Cardinality({k \in DOMAIN Taken : Taken[k] # "\\"}) >= 2

\* "TOK_UINT ... [0-9a-fA-F][0-9a-fA-F]+": a hexadecimal number has two digits.
HexHasTwoDigits == token.kind = "uint" /\ "x" \in {Taken[k] : k \in DOMAIN Taken} => Len(Taken) >= 4

\* "TOK_CNAME ... :[A-Za-z_]": the second name does not begin with a digit.
CNamesAreNames ==
    token.kind = "cname" =>
        \A k \in DOMAIN Taken : Taken[k] = ":" => Taken[k + 1] \in FirstNameChars

\* "value of token": a name has its length.
NamesHaveALength == token.kind = "name" => token.len > 0

\* "skip whitespace", "skip comment": no space is refused.
SpaceIsNoToken == token.kind = "unknown" => Taken[1] \notin Separators \union {"#"}

\* "TOK_INT [-][1-9][0-9]*".
IntsAreNotZero == token.kind = "int" => Taken[2] # "0"

\* "col": the column is that of what was skipped last.
ColumnIsColumn ==
    token.kind \in Kinds =>
        LET line == {k \in DOMAIN text : k <= token.start /\ text[k] = "\n"} IN
        location.col = token.start - (IF line = {} THEN 0 ELSE CHOOSE k \in line : \A l \in line : l <= k)
=============================================================================
