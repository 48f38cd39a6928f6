---------------------------- MODULE MCKeyLimiter ----------------------------
(***************************************************************************)
(* KeyLimiter for TLC.  Four calls and two slots give a queue of two, so   *)
(* that first and last of it differ; the second key lets a call come back  *)
(* under another key, and lets buckets come and go.                        *)
(***************************************************************************)
EXTENDS KeyLimiter

CONSTANTS c1, c2, c3, c4, k1, k2
=============================================================================
