------------------------------ MODULE MCLexer ------------------------------
(***************************************************************************)
(* Small texts for Lexer: every text of a few characters of one alphabet.  *)
(***************************************************************************)
EXTENDS Lexer, TLC

SomeLetters == {"a", "u", "x", "f"}
SomeTokens == <<<<",">>, <<":">>, <<"-", ">">>, <<"<", "-">>, <<"u", "8">>>>

TextsOf(alphabet, n) == UNION {[1 .. k -> alphabet] : k \in 0 .. n}

\* Names, keywords and names of two parts; literals and comments; numbers; marks of two
\* characters and the end of a text.
NameTexts == TextsOf({"a", "u", "8", ":", "\\", " "}, 5)
LiteralTexts == TextsOf({"a", "'", "\"", "#", "\n"}, 6)
NumberTexts == TextsOf({"0", "1", "x", "f", "-"}, 6)
MarkTexts == TextsOf({"-", "<", ">", "1", "#", "\n", "nul"}, 4)
AllTexts == NameTexts \union LiteralTexts \union NumberTexts \union MarkTexts
=============================================================================
