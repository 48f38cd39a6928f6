-------------------------- MODULE MCKeyErrorWindow --------------------------
(***************************************************************************)
(* KeyErrorWindow for TLC: four errors within a window of four ticks.      *)
(***************************************************************************)
EXTENDS KeyErrorWindow

FourInFour == [threshold |-> 4, window |-> 4, backoff |-> 2]
=============================================================================
