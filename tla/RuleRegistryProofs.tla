------------------------- MODULE RuleRegistryProofs -------------------------
(***************************************************************************)
(* Theorems about the registration of rules and the answers to questions   *)
(* about deadlines, for any rules, evaluators and order of the listing.    *)
(***************************************************************************)
EXTENDS RuleRegistry, RuleWorkflowProofs, WellFoundedInduction

(***************************************************************************)
(* Registration leaves evaluations and claims to the rule workflow.        *)
(***************************************************************************)
RegistryKept == UNCHANGED <<rules, registered>>

\* The steps as this module's proofs split them.
LEMMA RegistryCases ==
    ASSUME [RegistryNext]_registryVars
    PROVE  \/ \E v \in RuleVersions : RegisterRule(v)
           \/ /\ \E e \in Evaluators, v \in RuleVersions :
                    Readable(v) /\ ListClaims(e, v)
              /\ RegistryKept /\ UNCHANGED listing
           \/ /\ \E e \in Evaluators : ReadStates(e)
              /\ RegistryKept /\ UNCHANGED listing
           \/ /\ \E e \in Evaluators : Rest(e)
              /\ RegistryKept /\ UNCHANGED <<evaluations, listing>>
           \/ /\ \E e \in Evaluators : StoreEvaluation(e)
              /\ RegistryKept
           \/ /\ ClaimTransaction
              /\ RegistryKept /\ UNCHANGED <<evaluations, evaluator, listing>>
           \/ UNCHANGED registryVars
  BY DEF RegistryNext, EvaluateRule, RefuseRule, ReturnExisting, FailCalendar,
         AbortEvaluation, RegistryKept

\* Evaluating registered rules is evaluating rules: register_rule and the
\* questions touch neither evaluations nor claims, so every theorem about
\* RuleSpec holds with registration in between.
THEOREM RegistryImplementsRules == RegistrySpec => RuleSpec
<1>1. RegistryInit => RuleInit
  BY DEF RegistryInit
<1>2. [RegistryNext]_registryVars => [RuleNext]_ruleVars
  BY DEF RegistryNext, RegisterRule, RefuseRule, EvaluateRule,
         StoreEvaluation, RuleNext, Evaluate, registryVars, ruleVars
<1> QED
  BY <1>1, <1>2, PTL DEF RegistrySpec, RuleSpec

(***************************************************************************)
(* Only registered versions are evaluated.                                 *)
(***************************************************************************)
OneVersionEach ==
    \A r \in Identities :
        LET versions == {v \in registered : IdentityOf[v] = r}
        IN  IF r \in rules THEN \E v \in versions : versions = {v}
                           ELSE versions = {}

\* An evaluator names the version it read until it rests.
OnlyRegistered ==
    /\ registered \subseteq RuleVersions
    /\ \A v \in registered : Conditions[v] # {}
    /\ \A e \in Evaluators : evaluator[e] # Resting
                                 => evaluator[e].version \in registered
    /\ \A i \in EvaluationIds : evaluations[i].version \in registered

LEMMA WellFormedHasConditions ==
    ASSUME NEW v, WellFormed(v)
    PROVE  Conditions[v] # {}
  BY FS_EmptySet DEF WellFormed

LEMMA RegisterKeepsOne ==
    ASSUME registered \subseteq RuleVersions, OneVersionEach,
           NEW v \in RuleVersions, RegisterRule(v)
    PROVE  OneVersionEach'
<1>1. /\ IdentityOf[v] \notin rules
      /\ rules' = rules \cup {IdentityOf[v]}
      /\ registered' = registered \cup {v}
  BY DEF RegisterRule, Storable
<1>2. ASSUME NEW r \in Identities
      PROVE  LET versions == {w \in registered' : IdentityOf[w] = r}
             IN  IF r \in rules' THEN \E w \in versions : versions = {w}
                                 ELSE versions = {}
  <2>1. CASE r = IdentityOf[v]
    <3>1. {w \in registered : IdentityOf[w] = r} = {}
      BY <1>1, <2>1 DEF OneVersionEach
    <3>2. {w \in registered' : IdentityOf[w] = r} = {v}
      BY <1>1, <2>1, <3>1
    <3> QED
      BY <1>1, <2>1, <3>2
  <2>2. CASE r # IdentityOf[v]
    <3>1. {w \in registered' : IdentityOf[w] = r}
              = {w \in registered : IdentityOf[w] = r}
      BY <1>1, <2>2
    <3> QED
      BY <1>1, <2>2, <3>1 DEF OneVersionEach
  <2> QED
    BY <2>1, <2>2
<1> QED
  BY <1>2 DEF OneVersionEach

LEMMA StepOnlyRegistered ==
    ASSUME RuleTypeOK, OnlyRegistered, [RegistryNext]_registryVars
    PROVE  OnlyRegistered'
<1>1. evaluator \in [Evaluators -> EvaluatorState]
  BY DEF RuleTypeOK
<1>2. CASE \E v \in RuleVersions : RegisterRule(v)
  <2>1. PICK v \in RuleVersions : RegisterRule(v)
    BY <1>2
  <2>2. Conditions[v] # {}
    BY <2>1, WellFormedHasConditions DEF RegisterRule
  <2> QED
    BY <2>1, <2>2
    DEF RegisterRule, OnlyRegistered, EvaluationIds, ruleVars
<1>3. CASE /\ \E e \in Evaluators, v \in RuleVersions :
                 Readable(v) /\ ListClaims(e, v)
           /\ RegistryKept
  <2>1. PICK e \in Evaluators, v \in RuleVersions :
           Readable(v) /\ ListClaims(e, v)
    BY <1>3
  <2>2. PICK held : held = [stage |-> "listed", version |-> v,
                            listed |-> ClaimIds]
    OBVIOUS
  <2>3. /\ evaluator' = [evaluator EXCEPT ![e] = held]
        /\ held.version \in registered
    BY <2>1, <2>2 DEF ListClaims, Readable
  <2>4. /\ evaluator'[e] = held
        /\ \A f \in Evaluators \ {e} : evaluator'[f] = evaluator[f]
    BY <1>1, <2>3
  <2>5. EvaluationIds' = EvaluationIds /\ evaluations' = evaluations
    BY <2>1 DEF ListClaims, EvaluationIds
  <2> QED
    BY <1>3, <2>3, <2>4, <2>5 DEF OnlyRegistered, RegistryKept
<1>4. CASE (\E e \in Evaluators : ReadStates(e)) /\ RegistryKept
  <2>1. PICK e \in Evaluators : ReadStates(e)
    BY <1>4
  <2>2. evaluator[e] # Resting
    BY <2>1 DEF ReadStates, Resting
  <2>3. PICK held : held = [stage |-> "read", version |-> evaluator[e].version,
                            verified |-> Verified(evaluator[e].listed)]
    OBVIOUS
  <2>4. /\ evaluator' = [evaluator EXCEPT ![e] = held]
        /\ held.version \in registered
    BY <2>1, <2>2, <2>3 DEF ReadStates, OnlyRegistered
  <2>5. /\ evaluator'[e] = held
        /\ \A f \in Evaluators \ {e} : evaluator'[f] = evaluator[f]
    BY <1>1, <2>4
  <2>6. EvaluationIds' = EvaluationIds /\ evaluations' = evaluations
    BY <2>1 DEF ReadStates, EvaluationIds
  <2> QED
    BY <1>4, <2>4, <2>5, <2>6 DEF OnlyRegistered, RegistryKept
<1>5. ASSUME NEW e \in Evaluators, Rest(e)
      PROVE  \A f \in Evaluators :
                evaluator'[f] = evaluator[f] \/ evaluator'[f] = Resting
  BY <1>1, <1>5 DEF Rest
<1>6. CASE /\ \E e \in Evaluators : Rest(e)
           /\ RegistryKept /\ UNCHANGED evaluations
  BY <1>5, <1>6 DEF OnlyRegistered, RegistryKept, EvaluationIds
<1>7. CASE (\E e \in Evaluators : StoreEvaluation(e)) /\ RegistryKept
  <2>1. PICK e \in Evaluators : Materialize(e)
    BY <1>7 DEF StoreEvaluation
  <2>2. PICK v, n :
           /\ v \in RuleVersions
           /\ evaluator[e].version = v
           /\ EvaluationIds' = EvaluationIds \cup {n}
           /\ \A i \in EvaluationIds : evaluations'[i] = evaluations[i]
           /\ evaluations'[n].version = v
    BY <2>1, MaterializeAppends DEF Item
  <2>3. Rest(e) /\ evaluator[e] # Resting
    BY <2>1 DEF Materialize, Resting
  <2> QED
    BY <1>5, <1>7, <2>2, <2>3 DEF OnlyRegistered, RegistryKept
<1>8. CASE ClaimTransaction /\ RegistryKept /\ UNCHANGED <<evaluations, evaluator>>
  BY <1>8 DEF OnlyRegistered, RegistryKept, EvaluationIds
<1>9. CASE UNCHANGED registryVars
  BY <1>9 DEF OnlyRegistered, registryVars, ruleVars, EvaluationIds
<1> QED
  BY <1>2, <1>3, <1>4, <1>6, <1>7, <1>8, <1>9, RegistryCases

\* A rule has a row exactly if one version of it is registered: register_rule
\* inserts both rows or, whichever constraint is met, none.  What evaluate
\* stores is a version it read, which is registered and has conditions.
THEOREM RegistryStaysWhole == RegistrySpec => []RegistryIsWhole
<1>1. RegistryInit => OneVersionEach /\ OnlyRegistered
  BY DEF RegistryInit, RuleInit, OneVersionEach, OnlyRegistered, EvaluationIds
<1>2. RuleTypeOK /\ OneVersionEach /\ OnlyRegistered
          /\ [RegistryNext]_registryVars => OneVersionEach' /\ OnlyRegistered'
  <2> SUFFICES ASSUME RuleTypeOK, OneVersionEach, OnlyRegistered,
                      [RegistryNext]_registryVars
               PROVE  OneVersionEach' /\ OnlyRegistered'
    OBVIOUS
  <2>1. CASE \E v \in RuleVersions : RegisterRule(v)
    BY <2>1, RegisterKeepsOne, StepOnlyRegistered DEF OnlyRegistered
  <2>2. CASE RegistryKept
    BY <2>2, StepOnlyRegistered DEF OneVersionEach, RegistryKept
  <2>3. CASE UNCHANGED registryVars
    BY <2>2, <2>3 DEF registryVars, RegistryKept
  <2> QED
    BY <2>1, <2>2, <2>3, RegistryCases
<1>3. OneVersionEach /\ OnlyRegistered => RegistryIsWhole
  BY DEF OneVersionEach, OnlyRegistered, RegistryIsWhole
<1> QED
  BY <1>1, <1>2, <1>3, RegistryImplementsRules, RuleTypeCorrect,
     PTL DEF RegistrySpec

(***************************************************************************)
(* The listing holds each evaluation.                                      *)
(***************************************************************************)

\* t is s with e inserted at position p.
Inserted(s, p, e, t) ==
    /\ Len(t) = Len(s) + 1
    /\ \A i \in 1..Len(s) + 1 :
          t[i] = IF i < p THEN s[i] ELSE IF i = p THEN e ELSE s[i - 1]

LEMMA InsertAtFacts ==
    ASSUME NEW S, NEW s \in Seq(S), NEW e \in S, NEW p \in 1..Len(s) + 1,
           NEW t, t = InsertAt(s, p, e)
    PROVE  t \in Seq(S) /\ Inserted(s, p, e, t)
<1> DEFINE before == SubSeq(s, 1, p - 1)
           after == SubSeq(s, p, Len(s))
<1>1. Len(s) \in Nat /\ \A i \in 1..Len(s) : s[i] \in S
  BY LenProperties, ElementOfSeq
<1>2. /\ before \in Seq(S) /\ Len(before) = p - 1
      /\ \A i \in 1..p - 1 : before[i] = s[i]
  <2>1. \A i \in 1..p - 1 : s[i] \in S
    BY <1>1
  <2>2. 1 \in Int /\ p - 1 \in Int
    BY <1>1
  <2> QED
    BY <1>1, <2>1, <2>2, SubSeqProperties
<1>3. /\ after \in Seq(S) /\ Len(after) = Len(s) - p + 1
      /\ \A i \in 1..Len(s) - p + 1 : after[i] = s[p + i - 1]
  <2>1. \A i \in p..Len(s) : s[i] \in S
    BY <1>1
  <2>2. p \in Int /\ Len(s) \in Int
    BY <1>1
  <2> QED
    BY <1>1, <2>1, <2>2, SubSeqProperties
<1> HIDE DEF before, after
<1>4. <<e>> \in Seq(S) /\ Len(<<e>>) = 1 /\ <<e>>[1] = e
  OBVIOUS
<1>5. /\ before \o <<e>> \in Seq(S) /\ Len(before \o <<e>>) = p
      /\ \A i \in 1..p : (before \o <<e>>)[i] = IF i < p THEN s[i] ELSE e
  BY <1>1, <1>2, <1>4, ConcatProperties
<1>6. PICK front : front = before \o <<e>>
  OBVIOUS
<1>7. InsertAt(s, p, e) = front \o after
  BY <1>6 DEF InsertAt, before, after
<1>8. /\ front \o after \in Seq(S)
      /\ Len(front \o after) = Len(s) + 1
      /\ \A i \in 1..Len(s) + 1 :
            (front \o after)[i] = IF i <= p THEN front[i] ELSE after[i - p]
  <2>1. /\ front \in Seq(S) /\ Len(front) = p
        /\ Len(front) + Len(after) = Len(s) + 1
    <3>1. front \in Seq(S) /\ Len(front) = p
      BY <1>5, <1>6
    <3>2. Len(after) = Len(s) - p + 1
      BY <1>3
    <3>3. Len(s) \in Int /\ p \in Int
      BY <1>1
    <3> QED
      BY <3>1, <3>2, <3>3
  <2>2. /\ front \o after \in Seq(S)
        /\ Len(front \o after) = Len(front) + Len(after)
        /\ \A i \in 1..Len(front) + Len(after) :
              (front \o after)[i] = IF i <= Len(front) THEN front[i]
                                    ELSE after[i - Len(front)]
    BY <1>3, <2>1, ConcatProperties
  <2> QED
    BY <2>1, <2>2
<1>9. \A i \in 1..Len(s) + 1 :
         (front \o after)[i] = IF i < p THEN s[i]
                               ELSE IF i = p THEN e ELSE s[i - 1]
  BY <1>1, <1>3, <1>5, <1>6, <1>8
<1> QED
  BY <1>7, <1>8, <1>9 DEF Inserted

ListsAll ==
    /\ listing \in Seq(Nat)
    /\ \A n \in 1..Len(listing) : listing[n] \in EvaluationIds
    /\ \A i \in EvaluationIds : \E n \in 1..Len(listing) : listing[n] = i

LEMMA StoreLists ==
    ASSUME RuleTypeOK, ListsAll, NEW e \in Evaluators, StoreEvaluation(e)
    PROVE  ListsAll'
<1>1. Materialize(e)
  BY DEF StoreEvaluation
<1>2. PICK n : /\ EvaluationIds' = EvaluationIds \cup {n}
               /\ n = Len(evaluations) + 1 /\ Len(evaluations') = n
  BY <1>1, MaterializeAppends
<1>3. PICK place \in 1..Len(listing) + 1 :
         listing' = InsertAt(listing, place, n)
  BY <1>2 DEF StoreEvaluation
<1>4. n \in Nat
  BY <1>2, EvaluationsType
<1>5. listing \in Seq(Nat) /\ Len(listing) \in Nat
  BY LenProperties DEF ListsAll
<1>6. /\ listing' \in Seq(Nat) /\ Len(listing') = Len(listing) + 1
      /\ \A i \in 1..Len(listing) + 1 :
            listing'[i] = IF i < place THEN listing[i]
                          ELSE IF i = place THEN n ELSE listing[i - 1]
  <2>1. place \in 1..Len(listing) + 1
    BY <1>3
  <2>2. listing' \in Seq(Nat) /\ Inserted(listing, place, n, listing')
    BY <1>3, <1>4, <1>5, <2>1, InsertAtFacts
  <2> QED
    BY <2>2 DEF Inserted
<1>7. /\ place \in Int /\ 1 <= place /\ place <= Len(listing) + 1
      /\ \A m \in 1..Len(listing) : listing[m] \in EvaluationIds
      /\ \A i \in EvaluationIds : \E m \in 1..Len(listing) : listing[m] = i
  <2>1. place \in Int /\ 1 <= place /\ place <= Len(listing) + 1
    BY <1>3, <1>5
  <2> QED
    BY <2>1 DEF ListsAll
<1>8. ASSUME NEW m \in 1..Len(listing') PROVE listing'[m] \in EvaluationIds'
  <2>1. /\ m \in Int /\ m \in 1..Len(listing) + 1
        /\ m < place => m \in 1..Len(listing)
        /\ m > place => m - 1 \in 1..Len(listing)
    BY <1>5, <1>6, <1>7
  <2>2. CASE m < place
    <3>1. listing'[m] = listing[m]
      BY <1>6, <2>1, <2>2
    <3> QED
      BY <1>2, <1>7, <2>1, <2>2, <3>1
  <2>3. CASE m = place
    BY <1>2, <1>6, <1>7, <2>1, <2>3
  <2>4. CASE m > place
    <3>1. ~(m < place) /\ m # place
      BY <1>7, <2>1, <2>4
    <3>2. listing'[m] = listing[m - 1]
      BY <1>6, <2>1, <3>1
    <3> QED
      BY <1>2, <1>7, <2>1, <2>4, <3>2
  <2> QED
    BY <1>7, <2>1, <2>2, <2>3, <2>4
<1>9. ASSUME NEW i \in EvaluationIds'
      PROVE  \E m \in 1..Len(listing') : listing'[m] = i
  <2>1. CASE i = n
    <3>1. place \in 1..Len(listing) + 1
      BY <1>3
    <3>2. listing'[place] = n
      BY <1>6, <1>7, <3>1
    <3> QED
      BY <1>6, <2>1, <3>1, <3>2
  <2>2. CASE i \in EvaluationIds
    <3>1. PICK m \in 1..Len(listing) : listing[m] = i
      BY <1>7, <2>2
    <3>2. /\ m \in Int /\ m \in 1..Len(listing) + 1
          /\ m + 1 \in 1..Len(listing) + 1 /\ m + 1 - 1 = m
      BY <1>5, <3>1
    <3>3. CASE m < place
      <4>1. listing'[m] = i
        BY <1>6, <3>1, <3>2, <3>3
      <4> QED
        BY <1>6, <3>2, <4>1
    <3>4. CASE ~(m < place)
      <4>1. ~(m + 1 < place) /\ m + 1 # place
        BY <1>7, <3>2, <3>4
      <4>2. listing'[m + 1] = i
        BY <1>6, <3>1, <3>2, <4>1
      <4> QED
        BY <1>6, <3>2, <4>2
    <3> QED
      BY <3>3, <3>4
  <2> QED
    BY <1>2, <2>1, <2>2
<1> QED
  BY <1>6, <1>8, <1>9 DEF ListsAll

LEMMA AllAreListed == RegistrySpec => []ListsAll
<1>1. RegistryInit => ListsAll
  BY EmptySeq DEF RegistryInit, RuleInit, ListsAll, EvaluationIds
<1>2. RuleTypeOK /\ ListsAll /\ [RegistryNext]_registryVars => ListsAll'
  <2> SUFFICES ASSUME RuleTypeOK, ListsAll, [RegistryNext]_registryVars
               PROVE  ListsAll'
    OBVIOUS
  <2>1. CASE \E e \in Evaluators : StoreEvaluation(e)
    BY <2>1, StoreLists
  <2>2. CASE UNCHANGED <<evaluations, listing>>
    BY <2>2 DEF ListsAll, EvaluationIds
  <2> QED
    BY <2>1, <2>2, RegistryCases
    DEF RegisterRule, ListClaims, ReadStates, registryVars, ruleVars
<1> QED
  BY <1>1, <1>2, RegistryImplementsRules, RuleTypeCorrect,
     PTL DEF RegistrySpec

(***************************************************************************)
(* Deadline answers                                                        *)
(***************************************************************************)

\* A set of positions that is not empty has a last one.
LEMMA LastExists ==
    ASSUME NEW n \in Nat, NEW P, P \subseteq 1..n, P # {}
    PROVE  \E m \in P : \A l \in P : l <= m
<1> DEFINE fromEnd == {n - m : m \in P}
           R == OpToRel(<, Nat)
<1>1. IsWellFoundedOn(R, Nat)
  BY NatLessThanWellFounded
<1>2. \A x, y \in Nat : y < x => <<y, x>> \in R
  BY DEF OpToRel
<1> HIDE DEF R
<1>3. fromEnd \subseteq Nat /\ fromEnd # {}
  <2>1. \A m \in P : n - m \in Nat
    OBVIOUS
  <2> QED
    BY <2>1
<1>4. PICK x \in fromEnd : \A y \in fromEnd : ~(<<y, x>> \in R)
  BY <1>1, <1>3, WFMin
<1>5. PICK m \in P : x = n - m
  OBVIOUS
<1>6. \A l \in P : n - l \in fromEnd /\ n - l \in Nat
  BY <1>3
<1>7. ASSUME NEW l \in P PROVE l <= m
  <2>1. ~(n - l < n - m)
    BY <1>2, <1>3, <1>4, <1>5, <1>6
  <2> QED
    BY <2>1
<1> QED
  BY <1>7

LEMMA CurrentHasTask ==
    ASSUME ListsAll
    PROVE  /\ \A i \in Current : i \in EvaluationIds /\ HasTask(i)
           /\ (\E i \in EvaluationIds : HasTask(i)) => Current # {}
<1>1. Len(listing) \in Nat /\ DOMAIN listing = 1..Len(listing)
  BY LenProperties DEF ListsAll
<1>2. \A i \in Current : i \in EvaluationIds /\ HasTask(i)
  BY <1>1 DEF Current, ListsAll
<1>3. ASSUME NEW i \in EvaluationIds, HasTask(i) PROVE Current # {}
  <2> DEFINE P == {m \in 1..Len(listing) : HasTask(listing[m])}
  <2>1. P # {}
    BY <1>3 DEF ListsAll
  <2>2. P \subseteq 1..Len(listing)
    OBVIOUS
  <2> HIDE DEF P
  <2>3. PICK m \in P : \A l \in P : l <= m
    BY <1>1, <2>1, <2>2, LastExists
  <2>4. /\ m \in DOMAIN listing /\ HasTask(listing[m])
        /\ \A l \in DOMAIN listing : l > m => ~HasTask(listing[l])
    BY <1>1, <2>3 DEF P
  <2> QED
    BY <2>4 DEF Current
<1> QED
  BY <1>2, <1>3

\* A deadline is answered if and only if some evaluation made work, from the
\* last such evaluation listed; what it cites had been verified, and later
\* corrections of what it cites name that evaluation (query, together with
\* evaluate and correct_claim).
THEOREM DeadlineAnswersTrace == RegistrySpec => []DeadlineAnswersAreTraceable
<1>1. RuleTypeOK /\ ListsAll /\ InputsHadBeenVerified /\ AffectedExact
          => DeadlineAnswersAreTraceable
  <2> SUFFICES ASSUME RuleTypeOK, ListsAll, InputsHadBeenVerified,
                      AffectedExact
               PROVE  DeadlineAnswersAreTraceable
    OBVIOUS
  <2>1. CASE \A i \in EvaluationIds : evaluations[i].due = NoWork
    <3>1. Current = {}
      BY <2>1, CurrentHasTask DEF HasTask
    <3> QED
      BY <2>1, <3>1 DEF DeadlineAnswersAreTraceable, DeadlineAnswer
  <2>2. CASE ~\A i \in EvaluationIds : evaluations[i].due = NoWork
    <3>1. Current # {}
      BY <2>2, CurrentHasTask DEF HasTask
    <3>2. PICK i \in Current :
             DeadlineAnswer = [mode |-> "established", evaluation |-> i,
                               due |-> evaluations[i].due,
                               cited |-> evaluations[i].inputs]
      BY <3>1 DEF DeadlineAnswer
    <3>3. i \in EvaluationIds /\ evaluations[i].due # NoWork
      BY CurrentHasTask DEF HasTask
    <3>4. PICK stored : stored = evaluations[i].after
      OBVIOUS
    <3>5. evaluations[i].due \in Nat
      BY <3>3, EvaluationsType DEF Evaluation
    <3>6. ASSUME NEW c \in evaluations[i].inputs
          PROVE  /\ \E t \in 0..stored : c \in VerifiedAfter(t)
                 /\ \A k \in corrections :
                       (/\ k.original = c /\ k.txn > stored
                        /\ claims[c].origin = "external") => i \in k.affected
      <4>1. \E t \in 0..stored : c \in VerifiedAfter(t)
        BY <3>3, <3>4 DEF InputsHadBeenVerified
      <4>2. ASSUME NEW k \in corrections, k.original = c, k.txn > stored,
                   claims[c].origin = "external"
            PROVE  i \in k.affected
        <5>1. stored \in Int /\ k.txn \in Int
          BY <3>3, <3>4, EvaluationsType DEF Evaluation, RuleTypeOK, TypeOK, Txns
        <5> QED
          BY <3>3, <3>4, <3>6, <4>2, <5>1 DEF AffectedExact
      <4> QED
        BY <4>1, <4>2
    <3> QED
      BY <2>2, <3>2, <3>4, <3>5, <3>6 DEF DeadlineAnswersAreTraceable
  <2> QED
    BY <2>1, <2>2
<1> QED
  BY <1>1, AllAreListed, RegistryImplementsRules, RuleTypeCorrect,
     InputsWereOnceVerified, AffectedIsExact, PTL
=============================================================================
