---------------------------- MODULE MCConfigStore ----------------------------
(***************************************************************************)
(* ConfigStore for TLC: two browsers, two passwords and two keys.          *)
(***************************************************************************)
EXTENDS ConfigStore

CONSTANTS a1, a2, p1, p2

\* The operator sets the other password, or one key, or makes a mistake.
HandEdits == [config |-> {p2, Bad}, keys |-> {{1}, Bad}]
=============================================================================
