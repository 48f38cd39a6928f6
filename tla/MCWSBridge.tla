----------------------------- MODULE MCWSBridge -----------------------------
(***************************************************************************)
(* WSBridge for TLC: three requests, of which the last has a body that is  *)
(* no JSON object, and two ids, of which the first two requests share one. *)
(***************************************************************************)
EXTENDS WSBridge

CONSTANTS r1, r2, r3, i1, i2

TwoShareAnId == [r \in Requests |-> IF r = r3 THEN i2 ELSE i1]
=============================================================================
