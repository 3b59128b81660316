--------------------------- MODULE MCRuleWorkflow ---------------------------
(***************************************************************************)
(* One rule for TLC: key "status" must have the value d1, and the deadline *)
(* is Interval days after the date of key "notice".                        *)
(***************************************************************************)
EXTENDS RuleWorkflow, TLC

CONSTANTS r1, d1, d2, status, notice, Interval

MCConditions == [v \in RuleVersions |-> {[key |-> status, expected |-> d1]}]
MCAnchorKeys == [v \in RuleVersions |-> {notice}]
MCDays == [v \in RuleVersions |-> Interval]
MCDayOf == (d1 :> 1) @@ (d2 :> 2)
MCDerivations == 1..MaxEvaluations
Interchangeable == Permutations(Evaluators)
=============================================================================
