------------------------- MODULE RuleWorkflowProofs -------------------------
(***************************************************************************)
(* Theorems about rule evaluations, for any number of evaluators, rules    *)
(* and claims, with every interleaving of their locks and of the claim     *)
(* transactions.                                                           *)
(***************************************************************************)
EXTENDS RuleWorkflow, ClaimStoreProofs, FiniteSetTheorems

(***************************************************************************)
(* The claim tables change as the store changes them.                      *)
(***************************************************************************)

\* Evaluations are numbered within their bound, so a correction's affected
\* evaluations are ones the store may be given.
LEMMA TransactionIsStores ==
    ASSUME Len(evaluations) \in Nat, Len(evaluations) <= MaxEvaluations,
           ClaimTransaction
    PROVE  StoreNext
<1>1. \A c : Affected(c) \in SUBSET Derivations
  BY RuleAssumption DEF Affected, EvaluationIds
<1> QED
  BY <1>1 DEF ClaimTransaction, StoreNext

LEMMA TransactionCommits ==
    ASSUME TypeOK, ClaimTransaction
    PROVE  \E event : Commits(event)
<1>1. ASSUME NEW k \in Keys, NEW v \in KnowledgeValues, NEW now \in Times,
             Record(k, v, now)
      PROVE  \E event : Commits(event)
  BY <1>1, RecordCommits
<1>2. ASSUME NEW c \in ClaimIds, NEW d \in Decisions, NEW now \in Times,
             Review(c, d, now)
      PROVE  \E event : Commits(event)
  BY <1>2, ReviewCommits
<1>3. ASSUME NEW c \in ClaimIds, NEW v \in KnowledgeValues, NEW now \in Times,
             Correct(c, v, now, Affected(c))
      PROVE  \E event : Commits(event)
  <2>1. PICK affected : affected = Affected(c)
    OBVIOUS
  <2>2. Correct(c, v, now, affected)
    BY <1>3, <2>1
  <2> QED
    BY <2>2, CorrectCommits
<1> QED
  BY <1>1, <1>2, <1>3 DEF ClaimTransaction

\* What a transaction leaves to everything else: claims stay as they are, and
\* the log gets longer.
LEMMA CommitExtends ==
    ASSUME TypeOK, NEW event, Commits(event)
    PROVE  /\ Grows /\ ClaimIds \subseteq ClaimIds'
           /\ Len(audit) \in Nat /\ Len(audit') = Len(audit) + 1
<1>1. Len(audit) \in Nat /\ Len(audit') = NextTxn
  BY LogGrows
<1> QED
  BY <1>1 DEF Commits, Grows, NextTxn

(***************************************************************************)
(* Types                                                                   *)
(***************************************************************************)

\* What an evaluator computes from a rule version v and the claims S that it
\* found verified.
Item(v, S) ==
    [version |-> v,
     inputs |-> Inputs(v, S),
     result |-> Outcome(v, S),
     due |-> IF Outcome(v, S) = "satisfied" THEN Due(v, S) ELSE NoWork,
     after |-> Len(audit)]

LEMMA ReadStage ==
    ASSUME RuleTypeOK, NEW e \in Evaluators, evaluator[e].stage = "read"
    PROVE  \E v \in RuleVersions, S \in SUBSET ClaimIds :
              /\ evaluator[e].version = v /\ evaluator[e].verified = S
              /\ Computed(e) = Item(v, S)
<1>1. evaluator[e] \in [stage : {"read"}, version : RuleVersions,
                        verified : SUBSET ClaimIds]
  BY DEF RuleTypeOK, EvaluatorState, Resting
<1>2. /\ evaluator[e].version \in RuleVersions
      /\ evaluator[e].verified \in SUBSET ClaimIds
  BY <1>1
<1> QED
  BY <1>2 DEF Computed, Item

\* Anchors are days.
LEMMA AnchorsAreDays ==
    ASSUME NEW v, NEW S
    PROVE  AnchorDates(v, S) \subseteq Nat
  BY RuleAssumption DEF AnchorDates

LEMMA DueIsDay ==
    ASSUME NEW v \in RuleVersions, NEW S, Outcome(v, S) = "satisfied"
    PROVE  /\ AnchorDates(v, S) # {}
           /\ \E d \in AnchorDates(v, S) : Due(v, S) = d + Days[v]
           /\ Due(v, S) \in Nat
<1>1. AnchorDates(v, S) # {}
  BY DEF Outcome
<1>2. PICK d \in AnchorDates(v, S) : Due(v, S) = d + Days[v]
  BY <1>1 DEF Due
<1>3. d \in Nat /\ Days[v] \in Nat
  BY AnchorsAreDays, RuleAssumption
<1> QED
  BY <1>1, <1>2, <1>3

LEMMA ItemType ==
    ASSUME Len(audit) \in Nat, NEW v \in RuleVersions,
           NEW S \in SUBSET ClaimIds
    PROVE  Item(v, S) \in Evaluation
<1>1. Inputs(v, S) \in SUBSET ClaimIds
  BY DEF Inputs, OfKeys
<1>2. Outcome(v, S) \in Results
  BY DEF Outcome, Results
<1>3. (IF Outcome(v, S) = "satisfied" THEN Due(v, S) ELSE NoWork)
          \in Nat \cup {NoWork}
  BY DueIsDay
<1> QED
  BY <1>1, <1>2, <1>3 DEF Item, Evaluation

LEMMA TypesWiden ==
    ASSUME ClaimIds \subseteq ClaimIds', Len(audit) \in Nat,
           Len(audit') \in Nat, Len(audit) <= Len(audit')
    PROVE  Evaluation \subseteq Evaluation' /\ EvaluatorState \subseteq EvaluatorState'
<1>1. 0..Len(audit) \subseteq 0..Len(audit')
  OBVIOUS
<1> QED
  BY <1>1 DEF Evaluation, EvaluatorState, Resting, Results

LEMMA EvaluationsType ==
    ASSUME RuleTypeOK
    PROVE  /\ evaluations \in Seq(Evaluation) /\ Len(evaluations) \in Nat
           /\ Len(audit) \in Nat
           /\ \A i \in EvaluationIds : evaluations[i] \in Evaluation
  BY LenProperties, ElementOfSeq DEF RuleTypeOK, TypeOK, EvaluationIds

\* Materialize appends what was computed.
LEMMA MaterializeAppends ==
    ASSUME RuleTypeOK, NEW e \in Evaluators, Materialize(e)
    PROVE  \E v, S, item, n :
              /\ v \in RuleVersions /\ S \in SUBSET ClaimIds
              /\ evaluator[e].version = v /\ evaluator[e].verified = S
              /\ item = Item(v, S) /\ item \in Evaluation
              /\ n = Len(evaluations) + 1 /\ n \notin EvaluationIds
              /\ \A i \in EvaluationIds : i < n
              /\ EvaluationIds' = EvaluationIds \cup {n}
              /\ evaluations' \in Seq(Evaluation)
              /\ Len(evaluations') = n
              /\ \A i \in EvaluationIds : evaluations'[i] = evaluations[i]
              /\ evaluations'[n] = item
              /\ ~OutOfCalendar(item) /\ Existing(item) = {}
<1>1. PICK v \in RuleVersions, S \in SUBSET ClaimIds :
         /\ evaluator[e].version = v /\ evaluator[e].verified = S
         /\ Computed(e) = Item(v, S)
  BY ReadStage DEF Materialize
<1>2. PICK item, n : item = Item(v, S) /\ n = Len(evaluations) + 1
  OBVIOUS
<1>3. item \in Evaluation
  BY <1>2, EvaluationsType, ItemType
<1>4. evaluations' = Append(evaluations, item)
  BY <1>1, <1>2 DEF Materialize
<1>5. /\ evaluations' \in Seq(Evaluation) /\ Len(evaluations) \in Nat
      /\ Len(evaluations') = n /\ evaluations'[n] = item
      /\ \A i \in EvaluationIds : evaluations'[i] = evaluations[i]
  BY <1>2, <1>3, <1>4, EvaluationsType, AppendFacts DEF EvaluationIds
<1>6. /\ EvaluationIds' = EvaluationIds \cup {n} /\ n \notin EvaluationIds
      /\ \A i \in EvaluationIds : i < n
  BY <1>2, <1>5 DEF EvaluationIds
<1>7. ~OutOfCalendar(item) /\ Existing(item) = {}
  BY <1>1, <1>2 DEF Materialize
<1> QED
  BY <1>1, <1>2, <1>3, <1>5, <1>6, <1>7

\* The step of an evaluator other than Materialize changes only what it holds.
Prepares(e) ==
    \/ \E v \in RuleVersions : ListClaims(e, v)
    \/ ReadStates(e) \/ ReturnExisting(e) \/ FailCalendar(e)
    \/ AbortEvaluation(e)

LEMMA EvaluatorType ==
    ASSUME RuleTypeOK, NEW e \in Evaluators, Prepares(e) \/ Materialize(e)
    PROVE  evaluator' \in [Evaluators -> EvaluatorState] /\ UNCHANGED tables
<1>1. evaluator \in [Evaluators -> EvaluatorState]
  BY DEF RuleTypeOK
<1>2. ASSUME NEW held \in EvaluatorState,
             evaluator' = [evaluator EXCEPT ![e] = held]
      PROVE  evaluator' \in [Evaluators -> EvaluatorState]
  BY <1>1, <1>2
<1>3. ASSUME NEW v \in RuleVersions, ListClaims(e, v)
      PROVE  evaluator' \in [Evaluators -> EvaluatorState]
  <2>1. [stage |-> "listed", version |-> v, listed |-> ClaimIds]
            \in EvaluatorState
    BY DEF EvaluatorState
  <2> QED
    BY <1>2, <1>3, <2>1 DEF ListClaims
<1>4. ASSUME ReadStates(e)
      PROVE  evaluator' \in [Evaluators -> EvaluatorState]
  <2>1. evaluator[e] \in [stage : {"listed"}, version : RuleVersions,
                          listed : SUBSET ClaimIds]
    BY <1>1, <1>4 DEF ReadStates, EvaluatorState, Resting
  <2>2. [stage |-> "read", version |-> evaluator[e].version,
         verified |-> Verified(evaluator[e].listed)] \in EvaluatorState
    BY <2>1 DEF EvaluatorState, Verified
  <2> QED
    BY <1>2, <1>4, <2>2 DEF ReadStates
<1>5. ASSUME Rest(e)
      PROVE  evaluator' \in [Evaluators -> EvaluatorState]
  BY <1>2, <1>5 DEF Rest, EvaluatorState
<1>6. UNCHANGED tables
  BY DEF Prepares, ListClaims, ReadStates, ReturnExisting, FailCalendar,
         AbortEvaluation, Materialize, Rest
<1> QED
  BY <1>3, <1>4, <1>5, <1>6
  DEF Prepares, ReturnExisting, FailCalendar, AbortEvaluation, Materialize

LEMMA PrepareKeeps ==
    ASSUME NEW e, Prepares(e)
    PROVE  UNCHANGED <<tables, evaluations>>
  BY DEF Prepares, ListClaims, ReadStates, ReturnExisting, FailCalendar,
         AbortEvaluation, Rest

\* The steps of the system as this module's proofs split them.
LEMMA RuleCases ==
    ASSUME [RuleNext]_ruleVars
    PROVE  \/ ClaimTransaction /\ UNCHANGED <<evaluations, evaluator>>
           \/ \E e \in Evaluators : Prepares(e)
           \/ \E e \in Evaluators : Materialize(e)
           \/ UNCHANGED <<tables, evaluations, evaluator>>
  BY DEF RuleNext, Evaluate, Prepares, ruleVars

LEMMA SameTables ==
    ASSUME UNCHANGED tables
    PROVE  /\ ClaimIds' = ClaimIds /\ claims' = claims
           /\ audit' = audit /\ corrections' = corrections
           /\ Evaluation' = Evaluation /\ EvaluatorState' = EvaluatorState
  BY DEF tables, ClaimIds, Evaluation, EvaluatorState, Resting, Results

LEMMA RuleStepType ==
    ASSUME RuleTypeOK, [RuleNext]_ruleVars
    PROVE  RuleTypeOK'
<1>1. CASE ClaimTransaction /\ UNCHANGED <<evaluations, evaluator>>
  <2>1. TypeOK /\ Len(evaluations) \in Nat /\ Len(evaluations) <= MaxEvaluations
    BY EvaluationsType DEF RuleTypeOK
  <2>2. TypeOK'
    BY <1>1, <2>1, TransactionIsStores, StepType
  <2>3. PICK event : Commits(event)
    BY <1>1, <2>1, TransactionCommits
  <2>4. Evaluation \subseteq Evaluation' /\ EvaluatorState \subseteq EvaluatorState'
    BY <2>1, <2>3, CommitExtends, TypesWiden
  <2>5. evaluations' \in Seq(Evaluation')
    <3>1. evaluations \in Seq(Evaluation)
      BY DEF RuleTypeOK
    <3>2. Seq(Evaluation) \subseteq Seq(Evaluation')
      BY <2>4, SeqMonotonic
    <3> QED
      BY <1>1, <3>1, <3>2
  <2>6. evaluator' \in [Evaluators -> EvaluatorState']
    <3>1. evaluator \in [Evaluators -> EvaluatorState]
      BY DEF RuleTypeOK
    <3> QED
      BY <1>1, <2>4, <3>1
  <2> QED
    BY <1>1, <2>1, <2>2, <2>5, <2>6 DEF RuleTypeOK
<1>2. CASE \E e \in Evaluators : Prepares(e)
  <2>1. UNCHANGED <<tables, evaluations>>
    BY <1>2, PrepareKeeps
  <2>2. evaluator' \in [Evaluators -> EvaluatorState]
    BY <1>2, EvaluatorType
  <2>3. TypeOK'
    BY <2>1, StutterType DEF RuleTypeOK
  <2> QED
    BY <2>1, <2>2, <2>3, SameTables DEF RuleTypeOK
<1>3. CASE \E e \in Evaluators : Materialize(e)
  <2>1. PICK e \in Evaluators : Materialize(e)
    BY <1>3
  <2>2. evaluator' \in [Evaluators -> EvaluatorState] /\ UNCHANGED tables
    BY <2>1, EvaluatorType
  <2>3. TypeOK'
    BY <2>2, StutterType DEF RuleTypeOK
  <2>4. evaluations' \in Seq(Evaluation) /\ Len(evaluations') = Len(evaluations) + 1
    BY <2>1, MaterializeAppends
  <2>5. Len(evaluations') <= MaxEvaluations
    BY <2>1, <2>4, EvaluationsType, RuleAssumption DEF Materialize
  <2> QED
    BY <2>2, <2>3, <2>4, <2>5, SameTables DEF RuleTypeOK
<1>4. CASE UNCHANGED <<tables, evaluations, evaluator>>
  BY <1>4, StutterType, SameTables DEF RuleTypeOK
<1> QED
  BY <1>1, <1>2, <1>3, <1>4, RuleCases

LEMMA RuleInitType == RuleInit => RuleTypeOK
<1> SUFFICES ASSUME RuleInit PROVE RuleTypeOK
  OBVIOUS
<1>1. TypeOK
  BY InitType DEF RuleInit
<1>2. evaluations \in Seq(Evaluation) /\ Len(evaluations) = 0
  BY EmptySeq DEF RuleInit
<1>3. evaluator \in [Evaluators -> EvaluatorState]
  BY DEF RuleInit, EvaluatorState
<1> QED
  BY <1>1, <1>2, <1>3, RuleAssumption DEF RuleTypeOK

\* Whatever the evaluators and the claim transactions interleave, evaluations
\* and what the evaluators of evaluate hold refer to claims that exist, results
\* and due days are of their kinds, and record_evaluation stays in its bound.
THEOREM RuleTypeCorrect == RuleSpec => []RuleTypeOK
<1>1. RuleTypeOK /\ [RuleNext]_ruleVars => RuleTypeOK'
  BY RuleStepType
<1> QED
  BY <1>1, RuleInitType, PTL DEF RuleSpec

LEMMA RuleStepIsStores ==
    ASSUME RuleTypeOK, [RuleNext]_ruleVars
    PROVE  [StoreNext]_tables
<1>1. CASE ClaimTransaction
  BY <1>1, TransactionIsStores, EvaluationsType DEF RuleTypeOK
<1>2. CASE \E e \in Evaluators : Prepares(e) \/ Materialize(e)
  BY <1>2, EvaluatorType
<1>3. CASE UNCHANGED tables
  BY <1>3
<1> QED
  BY <1>1, <1>2, <1>3, RuleCases

\* Evaluating rules does nothing to the claim tables that the store's own
\* transactions do not: record_evaluation writes none of them, and a correction
\* is given only evaluations that exist.  Every theorem about StoreSpec holds
\* of the database while rules are evaluated.
THEOREM RulesImplementStore == RuleSpec => StoreSpec
<1>1. RuleInit => StoreInit
  BY DEF RuleInit
<1>2. RuleTypeOK /\ [RuleNext]_ruleVars => [StoreNext]_tables
  BY RuleStepIsStores
<1> QED
  BY <1>1, <1>2, RuleTypeCorrect, PTL DEF RuleSpec, StoreSpec

(***************************************************************************)
(* Evaluations are not repeated.                                           *)
(***************************************************************************)
LEMMA MaterializeIsNew ==
    ASSUME RuleTypeOK, OneEvaluationPerInputs, NEW e \in Evaluators,
           Materialize(e)
    PROVE  OneEvaluationPerInputs'
<1>1. PICK item, n :
         /\ n \notin EvaluationIds /\ EvaluationIds' = EvaluationIds \cup {n}
         /\ \A i \in EvaluationIds : evaluations'[i] = evaluations[i]
         /\ evaluations'[n] = item /\ Existing(item) = {}
  BY MaterializeAppends
<1>2. ASSUME NEW i \in EvaluationIds
      PROVE  ~(/\ evaluations[i].version = item.version
               /\ evaluations[i].inputs = item.inputs)
  BY <1>1, <1>2 DEF Existing, SameMaterial
<1>3. ASSUME NEW i \in EvaluationIds', NEW j \in EvaluationIds',
             /\ evaluations'[i].version = evaluations'[j].version
             /\ evaluations'[i].inputs = evaluations'[j].inputs
      PROVE  i = j
  <2>1. CASE i \in EvaluationIds /\ j \in EvaluationIds
    BY <1>1, <1>3, <2>1 DEF OneEvaluationPerInputs
  <2>2. CASE i = n /\ j = n
    BY <2>2
  <2>3. CASE i \in EvaluationIds /\ j = n
    BY <1>1, <1>2, <1>3, <2>3
  <2>4. CASE i = n /\ j \in EvaluationIds
    BY <1>1, <1>2, <1>3, <2>4
  <2> QED
    BY <1>1, <2>1, <2>2, <2>3, <2>4
<1> QED
  BY <1>3 DEF OneEvaluationPerInputs

\* The same rule version and inputs are evaluated once, however many evaluators
\* computed the same item between their locks: record_evaluation looks for the
\* material under the lock under which it inserts.
THEOREM EvaluationsAreUnique == RuleSpec => []OneEvaluationPerInputs
<1>1. RuleInit => OneEvaluationPerInputs
  BY DEF RuleInit, OneEvaluationPerInputs, EvaluationIds
<1>2. RuleTypeOK /\ OneEvaluationPerInputs /\ [RuleNext]_ruleVars
          => OneEvaluationPerInputs'
  <2> SUFFICES ASSUME RuleTypeOK, OneEvaluationPerInputs, [RuleNext]_ruleVars
               PROVE  OneEvaluationPerInputs'
    OBVIOUS
  <2>1. CASE evaluations' = evaluations
    BY <2>1 DEF OneEvaluationPerInputs, EvaluationIds
  <2>2. CASE \E e \in Evaluators : Materialize(e)
    BY <2>2, MaterializeIsNew
  <2> QED
    BY <2>1, <2>2, RuleCases, PrepareKeeps
<1> QED
  BY <1>1, <1>2, RuleTypeCorrect, PTL DEF RuleSpec

(***************************************************************************)
(* Corrections list the evaluations they affect.                           *)
(***************************************************************************)

\* What a correction k has to list.
Uses(k) ==
    {i \in EvaluationIds : /\ evaluations[i].after < k.txn
                           /\ k.original \in evaluations[i].inputs}

LEMMA CorrectionIsExact ==
    ASSUME RuleTypeOK, AffectedExact, UNCHANGED evaluations,
           NEW c \in ClaimIds, NEW v \in KnowledgeValues, NEW now \in Times,
           Correct(c, v, now, Affected(c))
    PROVE  AffectedExact'
<1>1. PICK affected, new, t :
         /\ affected = Affected(c) /\ new = Len(claims) + 1 /\ t = NextTxn
  OBVIOUS
<1>2. PICK added : added = [original |-> c, corrected |-> new,
                            affected |-> affected, txn |-> t]
  OBVIOUS
<1>3. Correct(c, v, now, affected) /\ corrections' = corrections \cup {added}
  BY <1>1, <1>2 DEF Correct
<1>4. Grows
  BY <1>1, <1>3, CorrectGrows DEF RuleTypeOK
<1>5. \A k \in corrections : k.original \in ClaimIds
  BY DEF RuleTypeOK, TypeOK
<1>6. EvaluationIds' = EvaluationIds /\ \A k : Uses(k)' = Uses(k)
  BY DEF EvaluationIds, Uses
<1>7. claims[c].origin = "external" => added.affected = Uses(added)
  <2>1. \A i \in EvaluationIds : evaluations[i].after < t
    BY <1>1, EvaluationsType DEF Evaluation, NextTxn
  <2> QED
    BY <1>1, <1>2, <2>1 DEF Affected, Uses
<1>8. ASSUME NEW k \in corrections', claims'[k.original].origin = "external"
      PROVE  k.affected = Uses(k)
  <2>1. CASE k \in corrections
    BY <1>4, <1>5, <1>8, <2>1 DEF AffectedExact, Uses, Grows
  <2>2. CASE k = added
    BY <1>2, <1>4, <1>7, <1>8, <2>2 DEF Grows
  <2> QED
    BY <1>3, <2>1, <2>2
<1>9. \A k \in corrections' :
         claims'[k.original].origin = "external" => k.affected = Uses(k)'
  BY <1>6, <1>8
<1> QED
  BY <1>9 DEF AffectedExact, Uses

LEMMA ExactStays ==
    ASSUME RuleTypeOK, AffectedExact, Grows, corrections' = corrections,
           EvaluationIds \subseteq EvaluationIds',
           \A i \in EvaluationIds : evaluations'[i] = evaluations[i],
           \A i \in EvaluationIds' \ EvaluationIds :
              \A k \in corrections : ~(evaluations'[i].after < k.txn)
    PROVE  AffectedExact'
<1>1. \A k \in corrections : claims'[k.original] = claims[k.original]
  BY DEF RuleTypeOK, TypeOK, Grows
<1>2. \A k \in corrections : Uses(k)' = Uses(k)
  BY DEF Uses
<1> QED
  BY <1>1, <1>2 DEF AffectedExact, Uses

\* correct_claim lists exactly the evaluations stored before it that used the
\* corrected claim, if that came from a source: it queries for them under the
\* lock under which it commits, and evaluations keep their inputs.
THEOREM AffectedIsExact == RuleSpec => []AffectedExact
<1>1. RuleInit => AffectedExact
  BY DEF RuleInit, StoreInit, AffectedExact
<1>2. RuleTypeOK /\ AffectedExact /\ [RuleNext]_ruleVars => AffectedExact'
  <2> SUFFICES ASSUME RuleTypeOK, AffectedExact, [RuleNext]_ruleVars
               PROVE  AffectedExact'
    OBVIOUS
  <2>1. CASE UNCHANGED <<tables, evaluations>>
    BY <2>1, SameTables DEF AffectedExact, EvaluationIds
  <2>2. CASE ClaimTransaction /\ UNCHANGED <<evaluations, evaluator>>
    <3>1. CASE \E c \in ClaimIds, v \in KnowledgeValues, now \in Times :
                  Correct(c, v, now, Affected(c))
      BY <2>2, <3>1, CorrectionIsExact
    <3>2. CASE \/ \E k \in Keys, v \in KnowledgeValues, now \in Times :
                     Record(k, v, now)
               \/ \E c \in ClaimIds, d \in Decisions, now \in Times :
                     Review(c, d, now)
      <4>1. Grows
        BY <2>2, TransactionCommits DEF Commits, RuleTypeOK
      <4>2. corrections' = corrections
        BY <3>2 DEF Record, Review
      <4>3. EvaluationIds' = EvaluationIds
        BY <2>2 DEF EvaluationIds
      <4> QED
        BY <2>2, <4>1, <4>2, <4>3, ExactStays
    <3> QED
      BY <2>2, <3>1, <3>2 DEF ClaimTransaction
  <2>3. CASE \E e \in Evaluators : Materialize(e)
    <3>1. PICK e \in Evaluators : Materialize(e)
      BY <2>3
    <3>2. PICK n : /\ EvaluationIds' = EvaluationIds \cup {n}
                   /\ \A i \in EvaluationIds : evaluations'[i] = evaluations[i]
                   /\ evaluations'[n].after = Len(audit)
      BY <3>1, MaterializeAppends DEF Item
    <3>3. UNCHANGED tables
      BY <3>1, EvaluatorType
    <3>4. Grows
      BY <3>3 DEF Grows, ClaimIds, tables
    <3>5. \A k \in corrections : ~(Len(audit) < k.txn)
      BY EvaluationsType DEF RuleTypeOK, TypeOK, Txns
    <3> QED
      BY <3>2, <3>3, <3>4, <3>5, ExactStays DEF tables
  <2> QED
    BY <2>1, <2>2, <2>3, RuleCases, PrepareKeeps
<1> QED
  BY <1>1, <1>2, RuleTypeCorrect, PTL DEF RuleSpec

(***************************************************************************)
(* What an evaluation says follows from its inputs.                        *)
(***************************************************************************)

\* The claims of the condition and anchor keys decide; the inputs are those.
LEMMA InputsSuffice ==
    ASSUME NEW v, NEW S
    PROVE  /\ Outcome(v, Inputs(v, S)) = Outcome(v, S)
           /\ Due(v, Inputs(v, S)) = Due(v, S)
<1> DEFINE I == Inputs(v, S)
<1>1. \A cond \in Conditions[v] : Candidates(cond, I) = Candidates(cond, S)
  BY DEF Candidates, OfKeys, Inputs, ConditionKeys
<1>2. OfKeys(I, AnchorKeys[v]) = OfKeys(S, AnchorKeys[v])
  BY DEF OfKeys, Inputs
<1> HIDE DEF I
<1>3. AnchorDates(v, I) = AnchorDates(v, S)
  BY <1>2 DEF AnchorDates
<1>4. \A cond \in Conditions[v] : Matching(cond, I) = Matching(cond, S)
  BY <1>1 DEF Matching
<1>5. /\ SomeMissing(v, I) <=> SomeMissing(v, S)
      /\ SomeFailed(v, I) <=> SomeFailed(v, S)
  BY <1>1, <1>4 DEF SomeMissing, SomeFailed, Missing, Failed
<1>6. Disagreement(v, I) <=> Disagreement(v, S)
  BY <1>1, <1>3, <1>4 DEF Disagreement, Disagreeing
<1>7. Outcome(v, I) = Outcome(v, S)
  BY <1>3, <1>5, <1>6 DEF Outcome
<1>8. Due(v, I) = Due(v, S)
  BY <1>3 DEF Due
<1> QED
  BY <1>7, <1>8 DEF I

\* Claims keep their keys and values, so what was concluded from some of them
\* is concluded from them ever after.
LEMMA ConclusionStays ==
    ASSUME \A c \in ClaimIds : claims'[c] = claims[c],
           NEW v, NEW S \in SUBSET ClaimIds
    PROVE  Outcome(v, S)' = Outcome(v, S) /\ Due(v, S)' = Due(v, S)
<1>1. \A keys : OfKeys(S, keys)' = OfKeys(S, keys)
  BY DEF OfKeys
<1>2. \A cond : Candidates(cond, S)' = Candidates(cond, S)
  BY <1>1 DEF Candidates
<1>3. \A cond : Candidates(cond, S) \subseteq ClaimIds
  BY DEF Candidates, OfKeys
<1>4. \A cond : Matching(cond, S)' = Matching(cond, S)
  BY <1>2, <1>3 DEF Matching
<1>5. AnchorDates(v, S)' = AnchorDates(v, S)
  <2>1. OfKeys(S, AnchorKeys[v]) \subseteq ClaimIds
    BY DEF OfKeys
  <2> QED
    BY <1>1, <2>1 DEF AnchorDates
<1>6. /\ SomeMissing(v, S)' <=> SomeMissing(v, S)
      /\ SomeFailed(v, S)' <=> SomeFailed(v, S)
  BY <1>2, <1>4 DEF SomeMissing, SomeFailed, Missing, Failed
<1>7. Disagreement(v, S)' <=> Disagreement(v, S)
  BY <1>2, <1>4, <1>5 DEF Disagreement, Disagreeing
<1>8. Outcome(v, S)' = Outcome(v, S)
  BY <1>5, <1>6, <1>7 DEF Outcome
<1>9. Due(v, S)' = Due(v, S)
  BY <1>5 DEF Due
<1> QED
  BY <1>8, <1>9

\* The evaluation i, of a rule version v and with inputs S, says what follows
\* from them, and its work is due on a day of the calendar.
Concludes(i, v, S) ==
    /\ evaluations[i].result = Outcome(v, S)
    /\ evaluations[i].due = IF Outcome(v, S) = "satisfied"
                            THEN Due(v, S) ELSE NoWork
    /\ Outcome(v, S) = "satisfied" => Due(v, S) <= LastDay

AllConclude ==
    \A i \in EvaluationIds : \A v, S :
        (v = evaluations[i].version /\ S = evaluations[i].inputs)
            => Concludes(i, v, S)

LEMMA ConcludeStays ==
    ASSUME RuleTypeOK, AllConclude, NEW i \in EvaluationIds,
           \A c \in ClaimIds : claims'[c] = claims[c],
           evaluations'[i] = evaluations[i],
           NEW v, NEW S, v = evaluations[i].version, S = evaluations[i].inputs
    PROVE  Concludes(i, v, S)'
<1>1. S \in SUBSET ClaimIds
  BY EvaluationsType DEF Evaluation
<1> QED
  BY <1>1, ConclusionStays DEF AllConclude, Concludes

LEMMA MaterializeConcludes ==
    ASSUME RuleTypeOK, AllConclude, NEW e \in Evaluators, Materialize(e)
    PROVE  AllConclude'
<1>1. PICK v, S, item, n :
         /\ v \in RuleVersions /\ S \in SUBSET ClaimIds
         /\ item = Item(v, S) /\ ~OutOfCalendar(item)
         /\ EvaluationIds' = EvaluationIds \cup {n}
         /\ \A i \in EvaluationIds : evaluations'[i] = evaluations[i]
         /\ evaluations'[n] = item
  BY MaterializeAppends
<1>2. claims' = claims /\ ClaimIds' = ClaimIds
  BY EvaluatorType, SameTables
<1>3. PICK I : I = Inputs(v, S)
  OBVIOUS
<1>4. I \in SUBSET ClaimIds
  BY <1>1, <1>3 DEF Inputs, OfKeys
<1>5. Outcome(v, I)' = Outcome(v, S) /\ Due(v, I)' = Due(v, S)
  BY <1>2, <1>3, <1>4, InputsSuffice, ConclusionStays
<1>6. item.version = v /\ item.inputs = I
  BY <1>1, <1>3 DEF Item
<1>7. Concludes(n, v, I)'
  <2>1. /\ item.result = Outcome(v, S)
        /\ item.due = IF Outcome(v, S) = "satisfied"
                      THEN Due(v, S) ELSE NoWork
    BY <1>1 DEF Item
  <2>2. Outcome(v, S) = "satisfied" => Due(v, S) <= LastDay
    BY <1>1, <2>1, DueIsDay, RuleAssumption DEF OutOfCalendar
  <2> QED
    BY <1>1, <1>5, <2>1, <2>2 DEF Concludes
<1>8. ASSUME NEW i \in EvaluationIds', NEW w, NEW T,
             w = evaluations'[i].version, T = evaluations'[i].inputs
      PROVE  Concludes(i, w, T)'
  <2>1. CASE i \in EvaluationIds
    BY <1>1, <1>2, <1>8, <2>1, ConcludeStays
  <2>2. CASE i = n
    BY <1>1, <1>6, <1>7, <1>8, <2>2
  <2> QED
    BY <1>1, <2>1, <2>2
<1> QED
  BY <1>8 DEF AllConclude

LEMMA EvaluationsConclude == RuleSpec => []AllConclude
<1>1. RuleInit => AllConclude
  BY DEF RuleInit, AllConclude, EvaluationIds
<1>2. RuleTypeOK /\ AllConclude /\ [RuleNext]_ruleVars => AllConclude'
  <2> SUFFICES ASSUME RuleTypeOK, AllConclude, [RuleNext]_ruleVars
               PROVE  AllConclude'
    OBVIOUS
  <2>1. CASE evaluations' = evaluations /\ \A c \in ClaimIds : claims'[c] = claims[c]
    <3>1. EvaluationIds' = EvaluationIds
      BY <2>1 DEF EvaluationIds
    <3>2. ASSUME NEW i \in EvaluationIds, NEW v, NEW S,
                 v = evaluations'[i].version, S = evaluations'[i].inputs
          PROVE  Concludes(i, v, S)'
      BY <2>1, <3>2, ConcludeStays
    <3> QED
      BY <3>1, <3>2 DEF AllConclude
  <2>2. CASE ClaimTransaction /\ UNCHANGED <<evaluations, evaluator>>
    BY <2>1, <2>2, TransactionCommits DEF RuleTypeOK, Commits, Grows
  <2>3. CASE UNCHANGED <<tables, evaluations>>
    BY <2>1, <2>3, SameTables
  <2>4. CASE \E e \in Evaluators : Materialize(e)
    BY <2>4, MaterializeConcludes
  <2> QED
    BY <2>2, <2>3, <2>4, RuleCases, PrepareKeeps
<1> QED
  BY <1>1, <1>2, RuleTypeCorrect, PTL DEF RuleSpec

\* Result and due day of a stored evaluation follow from the inputs that were
\* stored and hashed with it: what evaluate read besides them does not count,
\* and nothing that is recorded, reviewed or corrected later changes it.
THEOREM EvaluationsAreReproducible == RuleSpec => []EvaluationReproducible
<1>1. AllConclude => EvaluationReproducible
  BY DEF AllConclude, Concludes, EvaluationReproducible
<1> QED
  BY <1>1, EvaluationsConclude, PTL

(***************************************************************************)
(* Work is created only where the rule is met.                             *)
(***************************************************************************)
LEMMA AnchorsAreFinite ==
    ASSUME RuleTypeOK, NEW v, NEW S \in SUBSET ClaimIds
    PROVE  IsFiniteSet(AnchorDates(v, S))
<1> DEFINE Anchored == {c \in OfKeys(S, AnchorKeys[v]) :
                           claims[c].value \in Dates}
           day == [c \in Anchored |-> DayOf[claims[c].value]]
<1>1. IsFiniteSet(ClaimIds)
  <2>1. Len(claims) \in Int
    BY LenProperties DEF RuleTypeOK, TypeOK
  <2> QED
    BY <2>1, FS_Interval DEF ClaimIds
<1>2. Anchored \subseteq ClaimIds
  BY DEF OfKeys
<1>3. IsFiniteSet(Anchored)
  <2> HIDE DEF Anchored
  <2> QED
    BY <1>1, <1>2, FS_Subset
<1>4. day \in Surjection(Anchored, AnchorDates(v, S))
  <2>1. day \in [Anchored -> AnchorDates(v, S)]
    BY DEF AnchorDates
  <2>2. \A d \in AnchorDates(v, S) : \E c \in Anchored : day[c] = d
    BY DEF AnchorDates
  <2> HIDE DEF Anchored, day
  <2> QED
    BY <2>1, <2>2 DEF Surjection
<1> HIDE DEF Anchored, day
<1> QED
  BY <1>3, <1>4, FS_Surjection

\* A finite set with two elements has more than one.
LEMMA TwoAreMoreThanOne ==
    ASSUME NEW T, IsFiniteSet(T), NEW x \in T, NEW y \in T, x # y
    PROVE  Cardinality(T) > 1
<1>1. IsFiniteSet({x}) /\ Cardinality({x}) = 1
  BY FS_Singleton
<1>2. Cardinality({x} \cup {y}) = 2
  BY <1>1, FS_AddElement
<1>3. Cardinality({x} \cup {y}) <= Cardinality(T)
  BY FS_Subset
<1>4. Cardinality(T) \in Nat
  BY FS_CardinalityType
<1> QED
  BY <1>2, <1>3, <1>4

LEMMA SatisfiedIsMet ==
    ASSUME RuleTypeOK, NEW v, NEW S \in SUBSET ClaimIds,
           Outcome(v, S) = "satisfied"
    PROVE  /\ \A cond \in Conditions[v] :
                 /\ OfKeys(S, {cond.key}) # {}
                 /\ \A c \in OfKeys(S, {cond.key}) :
                       claims[c].value = cond.expected
           /\ \A d, f \in AnchorDates(v, S) : d = f
<1>1. ~Disagreement(v, S) /\ ~SomeMissing(v, S) /\ ~SomeFailed(v, S)
  BY DEF Outcome
<1>2. ASSUME NEW cond \in Conditions[v]
      PROVE  /\ Candidates(cond, S) # {}
             /\ Matching(cond, S) = Candidates(cond, S)
  BY <1>1 DEF SomeMissing, Missing, SomeFailed, Failed, Disagreement,
              Disagreeing
<1>3. ~(Cardinality(AnchorDates(v, S)) > 1)
  BY <1>1 DEF Disagreement
<1>4. \A d, f \in AnchorDates(v, S) : d = f
  BY <1>3, AnchorsAreFinite, TwoAreMoreThanOne
<1> QED
  BY <1>2, <1>4 DEF Candidates, Matching

\* Work exists only for evaluations whose conditions every candidate claim
\* meets and whose anchors name one day, from which the due day is counted:
\* evaluate turns each other case into "not_satisfied", "indeterminate" or an
\* error, and stores no work with it.
THEOREM WorkIsAlwaysJustified == RuleSpec => []WorkIsJustified
<1>1. RuleTypeOK /\ AllConclude => WorkIsJustified
  <2> SUFFICES ASSUME RuleTypeOK, AllConclude, NEW i \in EvaluationIds,
                      evaluations[i].due # NoWork
               PROVE  LET x == evaluations[i]
                          About(keys) == {c \in x.inputs : claims[c].key \in keys}
                      IN  /\ \A cond \in Conditions[x.version] :
                                /\ About({cond.key}) # {}
                                /\ \A c \in About({cond.key}) :
                                      claims[c].value = cond.expected
                          /\ \E d \in 0..LastDay :
                                /\ x.due = d + Days[x.version]
                                /\ x.due <= LastDay
                                /\ \E c \in About(AnchorKeys[x.version]) :
                                      claims[c].value \in Dates
                                /\ \A c \in About(AnchorKeys[x.version]) :
                                      claims[c].value \in Dates
                                          => DayOf[claims[c].value] = d
    BY DEF WorkIsJustified
  <2>1. PICK v \in RuleVersions, S \in SUBSET ClaimIds :
           v = evaluations[i].version /\ S = evaluations[i].inputs
    BY EvaluationsType DEF Evaluation
  <2>2. /\ Outcome(v, S) = "satisfied"
        /\ evaluations[i].due = Due(v, S) /\ Due(v, S) <= LastDay
    BY <2>1 DEF AllConclude, Concludes
  <2>3. \A keys : {c \in evaluations[i].inputs : claims[c].key \in keys}
                      = OfKeys(S, keys)
    BY <2>1 DEF OfKeys
  <2>4. \A cond \in Conditions[v] :
           /\ OfKeys(S, {cond.key}) # {}
           /\ \A c \in OfKeys(S, {cond.key}) : claims[c].value = cond.expected
    BY <2>2, SatisfiedIsMet
  <2>5. PICK d \in AnchorDates(v, S) : Due(v, S) = d + Days[v]
    BY <2>2, DueIsDay
  <2>6. d \in Nat /\ Days[v] \in Nat /\ LastDay \in Nat
    BY AnchorsAreDays, RuleAssumption
  <2>7. d \in 0..LastDay
    BY <2>2, <2>5, <2>6
  <2>8. \E c \in OfKeys(S, AnchorKeys[v]) : claims[c].value \in Dates
    BY <2>5 DEF AnchorDates
  <2>9. \A c \in OfKeys(S, AnchorKeys[v]) :
           claims[c].value \in Dates => DayOf[claims[c].value] = d
    <3>1. \A c \in OfKeys(S, AnchorKeys[v]) : claims[c].value \in Dates
              => DayOf[claims[c].value] \in AnchorDates(v, S)
      BY DEF AnchorDates
    <3> QED
      BY <2>2, <3>1, SatisfiedIsMet
  <2> QED
    BY <2>1, <2>2, <2>3, <2>4, <2>5, <2>7, <2>8, <2>9
<1> QED
  BY <1>1, RuleTypeCorrect, EvaluationsConclude, PTL

(***************************************************************************)
(* Inputs had been verified.                                               *)
(***************************************************************************)

\* By the time t transactions had committed, c was verified at some instant.
WasVerifiedBy(c, t) == \E u \in 0..t : c \in VerifiedAfter(u)

\* Later transactions write under later numbers and change nothing of that.
LEMMA WasVerifiedStays ==
    ASSUME TypeOK, Grows, NEW c, NEW t \in 0..Len(audit), WasVerifiedBy(c, t)
    PROVE  WasVerifiedBy(c, t)'
<1>1. Len(audit) \in Nat
  BY LenProperties DEF TypeOK
<1>2. PICK u \in 0..t : c \in VerifiedAfter(u)
  BY DEF WasVerifiedBy
<1>3. PICK w : w = u + 1
  OBVIOUS
<1>4. w \in Nat /\ w <= NextTxn
  BY <1>1, <1>2, <1>3 DEF NextTxn
<1>5. c \in ClaimIds /\ c \in ClaimIds' /\ claims'[c] = claims[c]
  BY <1>2 DEF VerifiedAfter, Grows
<1>6. RowsBefore(c, w)' = RowsBefore(c, w)
  BY <1>4, <1>5, PastIsFixed
<1>7. PICK rows : rows = RowsBefore(c, w)
  OBVIOUS
<1>8. claims[c].txn <= u /\ StateAmong(c, rows, {"verified"})
  BY <1>2, <1>3, <1>7 DEF VerifiedAfter
<1>9. StateAmong(c, rows, {"verified"})'
  BY <1>5, <1>8 DEF StateAmong, InitialState, Latest, SortsBefore
<1>10. c \in VerifiedAfter(u)'
  <2>1. RowsBefore(c, u + 1)' = rows
    BY <1>3, <1>6, <1>7
  <2>2. StateAmong(c, RowsBefore(c, u + 1), {"verified"})'
    BY <1>9, <2>1 DEF StateAmong
  <2> QED
    BY <1>5, <1>8, <2>2 DEF VerifiedAfter
<1> QED
  BY <1>2, <1>10 DEF WasVerifiedBy

\* A claim that is verified now was verified at some instant until now.
LEMMA VerifiedNow ==
    ASSUME TypeOK, NEW c \in ClaimIds, StateIs(c, "verified")
    PROVE  WasVerifiedBy(c, Len(audit))
<1>1. Len(audit) \in Nat
  BY LenProperties DEF TypeOK
<1>2. claims[c].txn <= Len(audit)
  BY <1>1 DEF TypeOK, Txns
<1>3. StateAmong(c, RowsBefore(c, Len(audit) + 1), {"verified"})
  BY PastIsPresent DEF NextTxn, StateIs, StateIn
<1>4. c \in VerifiedAfter(Len(audit))
  BY <1>2, <1>3 DEF VerifiedAfter
<1> QED
  BY <1>1, <1>4 DEF WasVerifiedBy

\* What evaluators hold after the second lock and what they stored.
InputsWereVerified ==
    /\ \A i \in EvaluationIds : \A c \in evaluations[i].inputs :
          \A t : t = evaluations[i].after => WasVerifiedBy(c, t)
    /\ \A e \in Evaluators : evaluator[e].stage = "read" =>
          \A c \in evaluator[e].verified :
             \E t \in 0..Len(audit) : WasVerifiedBy(c, t)

LEMMA TransactionKeepsVerified ==
    ASSUME RuleTypeOK, InputsWereVerified, NEW event, Commits(event),
           UNCHANGED <<evaluations, evaluator>>
    PROVE  InputsWereVerified'
<1>1. TypeOK /\ Grows /\ EvaluationIds' = EvaluationIds
  BY DEF RuleTypeOK, Commits, EvaluationIds
<1>2. 0..Len(audit) \subseteq 0..Len(audit')
  BY <1>1, CommitExtends
<1>3. ASSUME NEW i \in EvaluationIds, NEW c \in evaluations[i].inputs,
             NEW t, t = evaluations[i].after
      PROVE  WasVerifiedBy(c, t)'
  <2>1. t \in 0..Len(audit)
    BY <1>3, EvaluationsType DEF Evaluation
  <2> QED
    BY <1>1, <1>3, <2>1, WasVerifiedStays DEF InputsWereVerified
<1>4. ASSUME NEW e \in Evaluators, evaluator[e].stage = "read",
             NEW c \in evaluator[e].verified
      PROVE  \E t \in 0..Len(audit') : WasVerifiedBy(c, t)'
  <2>1. PICK t \in 0..Len(audit) : WasVerifiedBy(c, t)
    BY <1>4 DEF InputsWereVerified
  <2> QED
    BY <1>1, <1>2, <2>1, WasVerifiedStays
<1> QED
  BY <1>1, <1>3, <1>4 DEF InputsWereVerified

LEMMA SameVerified ==
    ASSUME UNCHANGED tables
    PROVE  \A c, t : WasVerifiedBy(c, t)' = WasVerifiedBy(c, t)
  BY DEF tables, WasVerifiedBy, VerifiedAfter, ClaimIds, StateAmong,
         RowsBefore, RowsOf, InitialState, Latest, SortsBefore

LEMMA ReadingKeepsVerified ==
    ASSUME RuleTypeOK, InputsWereVerified, NEW e \in Evaluators, ReadStates(e)
    PROVE  InputsWereVerified'
<1>1. /\ evaluator[e].stage = "listed" /\ UNCHANGED <<tables, evaluations>>
      /\ evaluator' = [evaluator EXCEPT ![e] =
            [stage |-> "read", version |-> evaluator[e].version,
             verified |-> Verified(evaluator[e].listed)]]
  BY DEF ReadStates
<1>2. evaluator[e] \in [stage : {"listed"}, version : RuleVersions,
                        listed : SUBSET ClaimIds]
  BY <1>1 DEF RuleTypeOK, EvaluatorState, Resting
<1>3. /\ evaluator'[e].verified = Verified(evaluator[e].listed)
      /\ \A f \in Evaluators \ {e} : evaluator'[f] = evaluator[f]
  BY <1>1 DEF RuleTypeOK
<1>4. Len(audit) \in 0..Len(audit)
  BY EvaluationsType
<1>5. \A c \in evaluator'[e].verified : WasVerifiedBy(c, Len(audit))
  BY <1>2, <1>3, VerifiedNow DEF Verified, RuleTypeOK
<1>6. EvaluationIds' = EvaluationIds /\ audit' = audit
  BY <1>1, SameTables DEF EvaluationIds
<1> QED
  BY <1>1, <1>3, <1>4, <1>5, <1>6, SameVerified DEF InputsWereVerified

LEMMA RestingKeepsVerified ==
    ASSUME RuleTypeOK, InputsWereVerified, UNCHANGED <<tables, evaluations>>,
           NEW e \in Evaluators, NEW held, held.stage # "read",
           evaluator' = [evaluator EXCEPT ![e] = held]
    PROVE  InputsWereVerified'
<1>1. EvaluationIds' = EvaluationIds /\ audit' = audit
  BY SameTables DEF EvaluationIds
<1>2. /\ evaluator'[e] = held
      /\ \A f \in Evaluators \ {e} : evaluator'[f] = evaluator[f]
  BY DEF RuleTypeOK
<1> QED
  BY <1>1, <1>2, SameVerified DEF InputsWereVerified

LEMMA MaterializeKeepsVerified ==
    ASSUME RuleTypeOK, InputsWereVerified, NEW e \in Evaluators, Materialize(e)
    PROVE  InputsWereVerified'
<1>1. PICK v, S, item, n :
         /\ v \in RuleVersions /\ S \in SUBSET ClaimIds
         /\ evaluator[e].verified = S /\ item = Item(v, S)
         /\ EvaluationIds' = EvaluationIds \cup {n}
         /\ \A i \in EvaluationIds : evaluations'[i] = evaluations[i]
         /\ evaluations'[n] = item
  BY MaterializeAppends
<1>2. /\ UNCHANGED tables /\ evaluator[e].stage = "read"
      /\ evaluator' = [evaluator EXCEPT ![e] = Resting]
  BY DEF Materialize, Rest
<1>3. item.inputs \subseteq S /\ item.after = Len(audit)
  BY <1>1 DEF Item, Inputs, OfKeys
<1>4. ASSUME NEW c \in item.inputs PROVE WasVerifiedBy(c, item.after)
  <2>1. PICK t \in 0..Len(audit) : WasVerifiedBy(c, t)
    BY <1>1, <1>2, <1>3 DEF InputsWereVerified
  <2>2. 0..t \subseteq 0..Len(audit)
    BY EvaluationsType
  <2> QED
    BY <1>3, <2>1, <2>2 DEF WasVerifiedBy
<1>5. \A f \in Evaluators : evaluator'[f] = evaluator[f] \/ evaluator'[f] = Resting
  BY <1>2 DEF RuleTypeOK
<1>6. Resting.stage # "read"
  BY DEF Resting
<1>7. audit' = audit
  BY <1>2, SameTables
<1> QED
  BY <1>1, <1>2, <1>4, <1>5, <1>6, <1>7, SameVerified DEF InputsWereVerified

\* An input of an evaluation was verified at some instant before the evaluation
\* was stored: evaluate filters on the states it reads under its second lock,
\* and neither a transaction between its locks nor one after them takes back
\* that the claim was verified then.
THEOREM InputsWereOnceVerified == RuleSpec => []InputsHadBeenVerified
<1>1. RuleInit => InputsWereVerified
  BY DEF RuleInit, InputsWereVerified, EvaluationIds, Resting
<1>2. RuleTypeOK /\ InputsWereVerified /\ [RuleNext]_ruleVars
          => InputsWereVerified'
  <2> SUFFICES ASSUME RuleTypeOK, InputsWereVerified, [RuleNext]_ruleVars
               PROVE  InputsWereVerified'
    OBVIOUS
  <2>1. CASE ClaimTransaction /\ UNCHANGED <<evaluations, evaluator>>
    BY <2>1, TransactionCommits, TransactionKeepsVerified DEF RuleTypeOK
  <2>2. CASE \E e \in Evaluators : Prepares(e)
    <3>1. PICK e \in Evaluators : Prepares(e)
      BY <2>2
    <3>2. CASE \E v \in RuleVersions : ListClaims(e, v)
      <4>1. PICK v \in RuleVersions : ListClaims(e, v)
        BY <3>2
      <4>2. [stage |-> "listed", version |-> v, listed |-> ClaimIds].stage # "read"
        OBVIOUS
      <4> QED
        BY <4>1, <4>2, RestingKeepsVerified DEF ListClaims
    <3>3. CASE ReadStates(e)
      BY <3>3, ReadingKeepsVerified
    <3>4. CASE Rest(e) /\ UNCHANGED evaluations
      <4>1. Resting.stage # "read"
        BY DEF Resting
      <4> QED
        BY <3>4, <4>1, RestingKeepsVerified DEF Rest
    <3> QED
      BY <3>1, <3>2, <3>3, <3>4
      DEF Prepares, ReturnExisting, FailCalendar, AbortEvaluation
  <2>3. CASE \E e \in Evaluators : Materialize(e)
    BY <2>3, MaterializeKeepsVerified
  <2>4. CASE UNCHANGED <<tables, evaluations, evaluator>>
    BY <2>4, SameVerified, SameTables DEF InputsWereVerified, EvaluationIds
  <2> QED
    BY <2>1, <2>2, <2>3, <2>4, RuleCases
<1>3. InputsWereVerified => InputsHadBeenVerified
  BY DEF InputsWereVerified, InputsHadBeenVerified, WasVerifiedBy
<1> QED
  BY <1>1, <1>2, <1>3, RuleTypeCorrect, PTL DEF RuleSpec
=============================================================================
