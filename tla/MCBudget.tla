------------------------------ MODULE MCBudget ------------------------------
(***************************************************************************)
(* Budget for TLC: two handlers, two models, a catalogue with a cap for    *)
(* each and one with a cap of one and a cap missing, and two               *)
(* configurations that differ in the tiers, the policy, the TTL and the    *)
(* limits of the files.                                                    *)
(***************************************************************************)
EXTENDS Budget

CONSTANTS p1, p2

TwoLimits == {[maxAge |-> 1, maxSize |-> 1], [maxAge |-> 0, maxSize |-> 2]}

TwoConfigs ==
    {[defaultModel |-> "a", tiers |-> <<"b", "", "a">>, clamp |-> FALSE, catalogTTL |-> 1,
      limits |-> [maxAge |-> 1, maxSize |-> 1]],
     [defaultModel |-> "a", tiers |-> <<"a", "", "a">>, clamp |-> TRUE, catalogTTL |-> 2,
      limits |-> [maxAge |-> 0, maxSize |-> 2]]}

SomeAsks ==
    {[model |-> "", field |-> 2, alt |-> 3], [model |-> "b", field |-> 0, alt |-> 3]}

SomeCatalogs == {[a |-> 3, b |-> 4], [a |-> 1, b |-> 0]}
=============================================================================
