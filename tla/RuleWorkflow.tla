---------------------------- MODULE RuleWorkflow ----------------------------
(***************************************************************************)
(* Rule evaluation over the claim tables, and the work it creates.         *)
(*                                                                         *)
(* evaluate takes the connection mutex three times: list_grounded_claims   *)
(* lists the claims under one lock and reads their current states under a  *)
(* second, and record_evaluation commits under a third.  Transactions on   *)
(* claims and other evaluators run in between.                             *)
(*                                                                         *)
(* A claim's subject, predicate, value and evidence never change, so the   *)
(* inputs of an evaluation (and their hash) are the set of their claim     *)
(* ids; the evidence of a claim from a source is one row, a human claim    *)
(* has none.  Obligation, deadline and task are inserted together or not   *)
(* at all and are one due day here; the audit event of an evaluation is    *)
(* inserted with its row, which stands for both.                           *)
(***************************************************************************)
EXTENDS ClaimStore

CONSTANTS
    Evaluators,     \* threads that evaluate a rule
    RuleVersions,   \* registered rule versions
    Conditions,     \* version -> set of [key, expected]
    AnchorKeys,     \* version -> keys whose predicate is the deadline anchor
    Days,           \* version -> days between the anchor and the deadline
    Dates,          \* the known values that are exact dates
    DayOf,          \* date -> day number
    LastDay,        \* day number of 9999-12-31
    NoWork,         \* an evaluation that creates no work
    MaxEvaluations  \* bound on the evaluations of a behaviour

ASSUME RuleAssumption ==
    /\ \A v \in RuleVersions :
          /\ Conditions[v] \subseteq [key : Keys, expected : KnowledgeValues]
          /\ AnchorKeys[v] \subseteq Keys
          /\ Days[v] \in Nat
    /\ Dates \subseteq Values
    /\ \A d \in Dates : DayOf[d] \in Nat
    /\ LastDay \in Nat /\ MaxEvaluations \in Nat
    /\ NoWork \notin Nat
    /\ Derivations = 1..MaxEvaluations

VARIABLES
    evaluations,  \* sequence of stored evaluations with the work they created
    evaluator     \* what each evaluator holds between its locks

ruleVars == <<tables, evaluations, evaluator>>

EvaluationIds == 1..Len(evaluations)

Resting == [stage |-> "idle"]

(***************************************************************************)
(* The pure part of evaluate: inputs and outcome from the verified claims. *)
(***************************************************************************)
OfKeys(S, keys) == {c \in S : claims[c].key \in keys}

ConditionKeys(v) == {cond.key : cond \in Conditions[v]}

\* Mutant: the deadline anchors are left out of the inputs.
Inputs_NoAnchor(v, S) == OfKeys(S, ConditionKeys(v))

Inputs(v, S) == OfKeys(S, ConditionKeys(v) \cup AnchorKeys[v])

Candidates(cond, S) == OfKeys(S, {cond.key})

Matching(cond, S) ==
    {c \in Candidates(cond, S) : claims[c].value = cond.expected}

Missing(cond, S) == Candidates(cond, S) = {}
Failed(cond, S) == ~Missing(cond, S) /\ Matching(cond, S) = {}
Disagreeing(cond, S) ==
    Matching(cond, S) # {} /\ Matching(cond, S) # Candidates(cond, S)

AnchorDates(v, S) ==
    {DayOf[claims[c].value] :
        c \in {a \in OfKeys(S, AnchorKeys[v]) : claims[a].value \in Dates}}

\* Mutant: disagreement among the candidates of a condition is not noticed.
Disagreement_Ignored(v, S) == Cardinality(AnchorDates(v, S)) > 1

Disagreement(v, S) ==
    \/ \E cond \in Conditions[v] : Disagreeing(cond, S)
    \/ Cardinality(AnchorDates(v, S)) > 1

SomeMissing(v, S) == \E cond \in Conditions[v] : Missing(cond, S)

SomeFailed(v, S) == \E cond \in Conditions[v] : Failed(cond, S)

Outcome(v, S) ==
    IF Disagreement(v, S) \/ SomeMissing(v, S) THEN "indeterminate"
    ELSE IF SomeFailed(v, S) THEN "not_satisfied"
    ELSE IF AnchorDates(v, S) = {} THEN "indeterminate"
    ELSE "satisfied"

Due(v, S) == (CHOOSE d \in AnchorDates(v, S) : TRUE) + Days[v]

(***************************************************************************)
(* The steps of evaluate.                                                  *)
(***************************************************************************)

\* get_rule_version, then list_claims: the first lock.
ListClaims(e, v) ==
    /\ evaluator[e] = Resting
    /\ evaluator' = [evaluator EXCEPT ![e] =
                        [stage |-> "listed", version |-> v,
                         listed |-> ClaimIds]]
    /\ UNCHANGED <<tables, evaluations>>

\* Mutant: every listed claim counts, whatever its state.
Verified_Any(S) == S

Verified(S) == {c \in S : StateIs(c, "verified")}

\* The second lock: the current states of the claims that were listed.
ReadStates(e) ==
    LET s == evaluator[e]
    IN  /\ s.stage = "listed"
        /\ evaluator' = [evaluator EXCEPT ![e] =
                            [stage |-> "read", version |-> s.version,
                             verified |-> Verified(s.listed)]]
        /\ UNCHANGED <<tables, evaluations>>

Computed(e) ==
    LET s == evaluator[e]
    IN  [version |-> s.version,
         inputs |-> Inputs(s.version, s.verified),
         result |-> Outcome(s.version, s.verified),
         due |-> IF Outcome(s.version, s.verified) = "satisfied"
                 THEN Due(s.version, s.verified) ELSE NoWork,
         after |-> Len(audit)]

\* Mutant: the sum is not compared with the end of the calendar.
OutOfCalendar_Never(item) == FALSE

\* checked_add_days leaves the calendar.
OutOfCalendar(item) == item.result = "satisfied" /\ item.due > LastDay

\* Mutant: the hash covers when the evaluation was made.
SameMaterial_Dated(item, other) ==
    /\ item.version = other.version /\ item.inputs = other.inputs
    /\ item.after = other.after

\* UNIQUE(case_id, rule_version_id, inputs_sha256)
SameMaterial(item, other) ==
    item.version = other.version /\ item.inputs = other.inputs

Existing(item) ==
    {i \in EvaluationIds : SameMaterial(item, evaluations[i])}

Rest(e) ==
    /\ evaluator' = [evaluator EXCEPT ![e] = Resting]
    /\ UNCHANGED tables

\* record_evaluation inserts the evaluation, its evidence and its work.
Materialize(e) ==
    /\ evaluator[e].stage = "read"
    /\ ~OutOfCalendar(Computed(e)) /\ Existing(Computed(e)) = {}
    /\ Len(evaluations) < MaxEvaluations
    /\ evaluations' = Append(evaluations, Computed(e))
    /\ Rest(e)

\* record_evaluation finds the stored evaluation and returns it.
ReturnExisting(e) ==
    /\ evaluator[e].stage = "read"
    /\ ~OutOfCalendar(Computed(e)) /\ Existing(Computed(e)) # {}
    /\ Rest(e) /\ UNCHANGED evaluations

\* The due date is not a date: evaluate fails and records nothing.
FailCalendar(e) ==
    /\ evaluator[e].stage = "read" /\ OutOfCalendar(Computed(e))
    /\ Rest(e) /\ UNCHANGED evaluations

\* A storage error or a crash at any point of evaluate.
AbortEvaluation(e) ==
    /\ evaluator[e] # Resting
    /\ Rest(e) /\ UNCHANGED evaluations

\* Mutant: the inputs are selected, not the evaluations that have them.
Affected_Inputs(c) ==
    UNION {evaluations[i].inputs :
              i \in {j \in EvaluationIds : c \in evaluations[j].inputs}}

\* Mutant: only evaluations that created work are looked for.
Affected_OnlyWork(c) ==
    IF claims[c].origin = "human" THEN {}
    ELSE {i \in EvaluationIds : c \in evaluations[i].inputs
                                /\ evaluations[i].due # NoWork}

\* affected_rule_evaluations: the evaluations whose evidence supports c.
Affected(c) ==
    IF claims[c].origin = "human" THEN {}
    ELSE {i \in EvaluationIds : c \in evaluations[i].inputs}

ClaimTransaction ==
    \/ \E k \in Keys, v \in KnowledgeValues, now \in Times :
          Record(k, v, now)
    \/ \E c \in ClaimIds, d \in Decisions, now \in Times :
          Review(c, d, now)
    \/ \E c \in ClaimIds, v \in KnowledgeValues, now \in Times :
          Correct(c, v, now, Affected(c))

RuleInit ==
    /\ StoreInit
    /\ evaluations = <<>>
    /\ evaluator = [e \in Evaluators |-> Resting]

Evaluate(e) ==
    \/ \E v \in RuleVersions : ListClaims(e, v)
    \/ ReadStates(e)
    \/ Materialize(e)
    \/ ReturnExisting(e)
    \/ FailCalendar(e)
    \/ AbortEvaluation(e)

RuleNext ==
    \/ ClaimTransaction /\ UNCHANGED <<evaluations, evaluator>>
    \/ \E e \in Evaluators : Evaluate(e)

RuleSpec == RuleInit /\ [][RuleNext]_ruleVars

(***************************************************************************)
(* Types                                                                   *)
(***************************************************************************)
Results == {"satisfied", "not_satisfied", "indeterminate"}

EvaluatorState ==
    {Resting}
    \cup [stage : {"listed"}, version : RuleVersions,
          listed : SUBSET ClaimIds]
    \cup [stage : {"read"}, version : RuleVersions,
          verified : SUBSET ClaimIds]

Evaluation ==
    [version : RuleVersions, inputs : SUBSET ClaimIds, result : Results,
     due : Nat \cup {NoWork}, after : 0..Len(audit)]

\* Evaluations and evaluators refer to claims that exist.
RuleTypeOK ==
    /\ TypeOK
    /\ evaluations \in Seq(Evaluation)
    /\ Len(evaluations) <= MaxEvaluations
    /\ evaluator \in [Evaluators -> EvaluatorState]

(***************************************************************************)
(* What an evaluation is worth                                             *)
(***************************************************************************)

\* The claims that were verified once the first t transactions had committed.
VerifiedAfter(t) ==
    {c \in ClaimIds : /\ claims[c].txn <= t
                      /\ StateAmong(c, RowsBefore(c, t + 1), {"verified"})}

\* However many evaluators race, retry or fail, the same rule version and
\* inputs have one evaluation and create work at most once
\* (record_evaluation looks before it inserts, under the lock).
OneEvaluationPerInputs ==
    \A i, j \in EvaluationIds :
        (/\ evaluations[i].version = evaluations[j].version
         /\ evaluations[i].inputs = evaluations[j].inputs) => i = j

\* A stored evaluation can be recomputed from its stored inputs alone: result
\* and due day follow from the recorded claims and the rule version, although
\* evaluate computed them from all the claims it read.
EvaluationReproducible ==
    \A i \in EvaluationIds :
        LET x == evaluations[i]
        IN  /\ x.result = Outcome(x.version, x.inputs)
            /\ x.due = IF x.result = "satisfied"
                       THEN Due(x.version, x.inputs) ELSE NoWork

\* Work exists only where every condition is met by every claim about its
\* key, of which there is at least one, and all anchors name one day; the due
\* day is that day plus the rule's interval and lies in the calendar.
WorkIsJustified ==
    \A i \in EvaluationIds :
        LET x == evaluations[i]
            About(keys) == {c \in x.inputs : claims[c].key \in keys}
        IN  x.due # NoWork =>
                /\ \A cond \in Conditions[x.version] :
                      /\ About({cond.key}) # {}
                      /\ \A c \in About({cond.key}) :
                            claims[c].value = cond.expected
                /\ \E d \in 0..LastDay :
                      /\ x.due = d + Days[x.version] /\ x.due <= LastDay
                      /\ \E c \in About(AnchorKeys[x.version]) :
                            claims[c].value \in Dates
                      /\ \A c \in About(AnchorKeys[x.version]) :
                            claims[c].value \in Dates
                                => DayOf[claims[c].value] = d

\* An input of an evaluation was verified at some instant before the
\* evaluation was stored; no claim counts that never was (evaluate filters on
\* the current state it reads under the second lock).  The inputs together
\* need not be the verified claims of one instant.
InputsHadBeenVerified ==
    \A i \in EvaluationIds : \A c \in evaluations[i].inputs :
        \E t \in 0..evaluations[i].after : c \in VerifiedAfter(t)

\* A correction of a claim from a source lists exactly the evaluations that
\* were stored before it and used that claim.
AffectedExact ==
    \A k \in corrections :
        claims[k.original].origin = "external" =>
            k.affected = {i \in EvaluationIds :
                             /\ evaluations[i].after < k.txn
                             /\ k.original \in evaluations[i].inputs}

(***************************************************************************)
(* What the documents say and the code does not do                         *)
(***************************************************************************)

\* CG-HLR-004 and CASEGRAPH_FOUNDATION_SPEC.md: a correction "identifies
\* affected derived state".  Evaluations are found through the evidence of the
\* corrected claim, and a human claim has none.
AffectedComplete ==
    \A k \in corrections : \A i \in EvaluationIds :
        (/\ evaluations[i].after < k.txn
         /\ k.original \in evaluations[i].inputs) => i \in k.affected
=============================================================================
