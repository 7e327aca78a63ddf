------------------------------ MODULE MCStream ------------------------------
(***************************************************************************)
(* Values for the constants of Stream that a configuration file cannot     *)
(* write: sequences and negative numbers.                                  *)
(***************************************************************************)
EXTENDS Stream

MCByte == {0, 1}
MCPayloads == {<<>>, <<1>>, <<1, 0>>, [i \in 1 .. (INT_MAX + 1) |-> 0]}
MCCurOffsets == {-1, 0, 1, 2}
MCWideOffsets == {1, INT_MAX}
=============================================================================
