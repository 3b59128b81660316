--------------------------- MODULE MCRuleRegistry ---------------------------
(***************************************************************************)
(* Five rule versions for TLC: two of one rule, and of another rule one    *)
(* numbered zero, one with impossible dates and one without conditions.    *)
(* The deadline of the second version is after the end of the calendar.    *)
(***************************************************************************)
EXTENDS RuleRegistry, TLC

CONSTANTS first, second, zero, misdated, empty, d1, d2, status, Interval,
          ruleA, ruleB

MCConditions ==
    [v \in RuleVersions |->
        IF v = empty THEN {} ELSE {[key |-> status, expected |-> d1]}]
MCIdentityOf ==
    [v \in RuleVersions |-> IF v \in {first, second} THEN ruleA ELSE ruleB]
MCNumberOf ==
    [v \in RuleVersions |-> CASE v = second -> 2 [] v = zero -> 0 [] OTHER -> 1]
MCAnchorKeys == [v \in RuleVersions |-> {status}]
MCDays == [v \in RuleVersions |-> IF v = second THEN Interval + 1 ELSE Interval]
MCDayOf == (d1 :> 1) @@ (d2 :> 2)
MCDerivations == 1..MaxEvaluations
Interchangeable == Permutations(Evaluators)
=============================================================================
