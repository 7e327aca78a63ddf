------------------------------ MODULE Channel ------------------------------
(***************************************************************************)
(* What an encoder and a decoder of the compact form are for: the items    *)
(* the encoder accepted arrive at the decoder unchanged, in order, each    *)
(* once, and nothing else arrives.                                         *)
(***************************************************************************)
EXTENDS Naturals, Sequences

CONSTANT Item(_)    \* is a value an item?

VARIABLES
    sent,   \* the items accepted for encoding
    got     \* the items decoded

vars == <<sent, got>>

Init == sent = <<>> /\ got = <<>>

Put ==
    /\ Len(sent') = Len(sent) + 1
    /\ SubSeq(sent', 1, Len(sent)) = sent
    /\ Item(sent'[Len(sent')])
    /\ UNCHANGED got

Get ==
    /\ Len(got) < Len(sent)
    /\ got' = Append(got, sent[Len(got) + 1])
    /\ UNCHANGED sent

Spec == Init /\ [][Put \/ Get]_vars
=============================================================================
