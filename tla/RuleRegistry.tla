---------------------------- MODULE RuleRegistry ----------------------------
(***************************************************************************)
(* The registration of rule versions before they are evaluated, and the    *)
(* questions about deadlines that stored evaluations answer.               *)
(*                                                                         *)
(* register_rule inserts a row in rules for the rule's identity (package   *)
(* and stable key, UNIQUE together) and a row in rule_versions, in one     *)
(* transaction, whatever the version number is.  A deadline question reads *)
(* all evaluations of the case under one lock and is a function of the     *)
(* state here.  The evaluations are listed by their timestamps and then by *)
(* the hashes in their ids; timestamps are read before the lock is taken   *)
(* and may step back, so a new evaluation may be listed anywhere.          *)
(***************************************************************************)
EXTENDS RuleWorkflow, SequencesExt

CONSTANTS
    Identities,     \* (package_id, stable_key) pairs
    IdentityOf,     \* version -> its identity
    NumberOf,       \* version -> its version number
    Misdated,       \* versions whose effective dates are no calendar dates
    MaxConditions   \* 32 in the program

ASSUME RegistryAssumption ==
    /\ IdentityOf \in [RuleVersions -> Identities]
    /\ NumberOf \in [RuleVersions -> Nat]
    /\ Misdated \subseteq RuleVersions /\ MaxConditions \in Nat

VARIABLES
    rules,       \* identities with a row in rules
    registered,  \* versions with a row in rule_versions
    listing      \* the evaluations in the order list_workflow reads them

registryVars == <<ruleVars, rules, registered, listing>>

(***************************************************************************)
(* register_rule                                                           *)
(***************************************************************************)

\* RuleDefinition::validate
WellFormed(v) == Cardinality(Conditions[v]) \in 1..MaxConditions

\* UNIQUE(package_id, stable_key) of rules and CHECK (version > 0) of
\* rule_versions, which is met after the row of rules was inserted.
Storable(v) == IdentityOf[v] \notin rules /\ NumberOf[v] > 0

RegisterRule(v) ==
    /\ WellFormed(v) /\ Storable(v)
    /\ rules' = rules \cup {IdentityOf[v]}
    /\ registered' = registered \cup {v}
    /\ UNCHANGED <<ruleVars, listing>>

\* Mutant: the rules row of a refused version stays.
RefuseRule_Partial(v) ==
    /\ WellFormed(v) /\ ~Storable(v)
    /\ rules' = rules \cup {IdentityOf[v]}
    /\ UNCHANGED <<ruleVars, registered, listing>>

\* The definition is invalid, or a constraint rolls the transaction back.
RefuseRule(v) ==
    /\ ~(WellFormed(v) /\ Storable(v))
    /\ UNCHANGED registryVars

(***************************************************************************)
(* evaluate reads the version it is asked for.                             *)
(***************************************************************************)

\* load_rule_version parses the effective dates that register_rule wrote, and
\* evaluate looks at neither.
Readable(v) == v \in registered /\ v \notin Misdated

EvaluateRule(e) ==
    /\ \/ \E v \in RuleVersions : Readable(v) /\ ListClaims(e, v)
       \/ ReadStates(e)
       \/ ReturnExisting(e)
       \/ FailCalendar(e)
       \/ AbortEvaluation(e)
    /\ UNCHANGED listing

StoreEvaluation(e) ==
    /\ Materialize(e)
    /\ \E place \in 1..Len(listing) + 1 :
           listing' = InsertAt(listing, place, Len(evaluations'))

(***************************************************************************)
(* query, for questions about deadlines                                    *)
(***************************************************************************)

\* load_workflow: the evaluation with its obligation, deadline and task.
HasTask(i) == evaluations[i].due # NoWork

\* Mutant: the last evaluation is looked at, whether it made work or not.
Current_Last ==
    {listing[n] : n \in {m \in DOMAIN listing :
                            m = Len(listing) /\ HasTask(listing[m])}}

\* The last one listed that has a task; none if there is no such evaluation.
Current ==
    {listing[n] : n \in {m \in DOMAIN listing :
                            /\ HasTask(listing[m])
                            /\ \A l \in DOMAIN listing :
                                  l > m => ~HasTask(listing[l])}}

DeadlineAnswer ==
    IF Current = {} THEN [mode |-> "unknown"]
    ELSE LET i == CHOOSE j \in Current : TRUE
         IN  [mode |-> "established", evaluation |-> i,
              due |-> evaluations[i].due, cited |-> evaluations[i].inputs]

RegistryInit ==
    /\ RuleInit
    /\ rules = {} /\ registered = {} /\ listing = <<>>

RegistryNext ==
    \/ \E v \in RuleVersions : RegisterRule(v) \/ RefuseRule(v)
    \/ /\ \E e \in Evaluators : EvaluateRule(e) \/ StoreEvaluation(e)
       /\ UNCHANGED <<rules, registered>>
    \/ /\ ClaimTransaction
       /\ UNCHANGED <<evaluations, evaluator, rules, registered, listing>>

RegistrySpec == RegistryInit /\ [][RegistryNext]_registryVars

(***************************************************************************)
(* Properties                                                              *)
(***************************************************************************)

\* A rule has a row exactly if one version of it is registered, and never two:
\* a version that is refused, for a constraint that only its second insert
\* meets, does not use up the identity (register_rule).  What was evaluated is
\* a registered version whose definition is valid.
RegistryIsWhole ==
    /\ \A r \in Identities :
          LET versions == {v \in registered : IdentityOf[v] = r}
          IN  IF r \in rules THEN \E v \in versions : versions = {v}
                             ELSE versions = {}
    /\ \A i \in EvaluationIds : /\ evaluations[i].version \in registered
                                /\ Conditions[evaluations[i].version] # {}

\* A deadline is answered as soon as one evaluation of the case has made work
\* and from then on, whatever later evaluations find.  The claims it cites had
\* been verified before the evaluation was stored, and a correction of one of
\* them, if it came from a source and was corrected later, lists the
\* evaluation as affected: the answer stays "established", so this list is
\* all that tells that it is stale (query reads no claim states).
DeadlineAnswersAreTraceable ==
    LET answer == DeadlineAnswer
    IN  IF \A i \in EvaluationIds : evaluations[i].due = NoWork
        THEN answer.mode = "unknown"
        ELSE /\ answer.mode = "established" /\ answer.due \in Nat
             /\ LET stored == evaluations[answer.evaluation].after
                IN  \A c \in answer.cited :
                       /\ \E t \in 0..stored : c \in VerifiedAfter(t)
                       /\ \A k \in corrections :
                             (/\ k.original = c /\ k.txn > stored
                              /\ claims[c].origin = "external")
                                 => answer.evaluation \in k.affected
=============================================================================
