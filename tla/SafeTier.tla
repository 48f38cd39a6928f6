------------------------------ MODULE SafeTier ------------------------------
(***************************************************************************)
(* catalog.go, SafeTier, and service.go, applyBudgetPolicy: the output cap *)
(* that a catalogue gives a request, and what the budget policy does with  *)
(* a request that asks for more.                                           *)
(*                                                                         *)
(* A catalogue is the function from models to max_completion_tokens that   *)
(* ParseCatalog makes: no entry for a model that is missing, zero for one  *)
(* whose cap is missing or not positive.  Display names and the context    *)
(* window, which the policy does not use, are left out.                    *)
(***************************************************************************)
EXTENDS Naturals, Sequences, FiniteSetsExt, SequencesExt

\* The first occurrences of the ids that are not empty, in their order.
dedupe(ids) ==
    FoldLeft(LAMBDA out, m : IF m = "" \/ Contains(out, m) THEN out ELSE Append(out, m),
             <<>>, ids)

\* SafeTier returns an error.
Incomplete(catalog, ids) ==
    \/ dedupe(ids) = <<>>
    \/ \E m \in ToSet(dedupe(ids)) : m \notin DOMAIN catalog \/ catalog[m] = 0

\* Mutant: the cap itself is allowed.
maxOutputWhole(catalog, ids) ==
    FoldLeft(LAMBDA cap, m : IF cap = 0 \/ catalog[m] < cap THEN catalog[m] ELSE cap,
             0, dedupe(ids))

\* SafeTier's cap of a complete catalogue.  Zero stands for none yet, so a model
\* whose cap is one is forgotten when another model follows.
maxOutput(catalog, ids) ==
    FoldLeft(LAMBDA cap, m : IF cap = 0 \/ catalog[m] - 1 < cap THEN catalog[m] - 1 ELSE cap,
             0, dedupe(ids))

-----------------------------------------------------------------------------
(***************************************************************************)
(* A request asks [model, field, alt]: the model, "" for none, and the     *)
(* values of the two fields that may bound its output, 0 for one that is   *)
(* missing or not a positive number.                                       *)
(***************************************************************************)

usedField(ask) == IF ask.field = 0 THEN "alt" ELSE "field"

requested(ask) == ask[usedField(ask)]

\* The model of the request, or the default, and the three model tiers.
ActiveModels(ask, cfg) ==
    <<IF ask.model = "" THEN cfg.defaultModel ELSE ask.model>> \o cfg.tiers

Passed(ask) == [verdict |-> "passed", tokens |-> ask]

\* What applyBudgetPolicy returns once it has a catalogue.
budgetPolicy(ask, cfg, catalog) ==
    LET ids == ActiveModels(ask, cfg)
        cap == maxOutput(catalog, ids)
    IN  CASE Incomplete(catalog, ids) -> [Passed(ask) EXCEPT !.verdict = "incomplete"]
          [] ~ Incomplete(catalog, ids) /\ requested(ask) <= cap -> Passed(ask)
          [] ~ Incomplete(catalog, ids) /\ requested(ask) > cap ->
               IF cfg.clamp
                 THEN [verdict |-> "clamped", tokens |-> [ask EXCEPT ![usedField(ask)] = cap]]
                 ELSE [verdict |-> "rejected", tokens |-> ask]
=============================================================================
