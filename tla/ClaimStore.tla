----------------------------- MODULE ClaimStore -----------------------------
(***************************************************************************)
(* The claim tables of one CaseGraph database and the repository           *)
(* transactions that write them: claims, the append-only table             *)
(* claim_state_changes from which a claim's current state is read, human   *)
(* reviews and facts, contradictions, corrections, edges and audit events. *)
(*                                                                         *)
(* A transaction is one action.  Its timestamp is the caller's: the        *)
(* service reads the wall clock before it asks for the connection mutex,   *)
(* so any time may come with any transaction (ClaimService shows how).     *)
(*                                                                         *)
(* Claims are numbered in the order in which their transactions commit;    *)
(* a row of claim_state_changes names the transaction that wrote it.  Row  *)
(* ids are hashes: all that the program uses of them is which of two rows  *)
(* with equal timestamps sorts last, so a row's "rank" is above or below   *)
(* every earlier one.  The rows that one transaction writes for one claim  *)
(* have the same state and time and are one row here.                      *)
(***************************************************************************)
EXTENDS Integers, Sequences, FiniteSets

CONSTANTS
    Keys,        \* (case, subject_key, predicate) triples
    Values,      \* normalized values that are known
    Unknown,     \* a KnowledgeValue that is not Known
    Derivations, \* ids of rule evaluations; none where rules are left out
    MaxClaims,   \* bound on the claims of a behaviour
    MaxCommits,  \* bound on the transactions of a behaviour
    MaxTime      \* bound on the timestamps, in milliseconds

ASSUME StoreAssumption ==
    /\ Unknown \notin Values
    /\ MaxClaims \in Nat /\ MaxCommits \in Nat /\ MaxTime \in Nat

Known == Values
KnowledgeValues == Values \cup {Unknown}
Times == 0..MaxTime

States == {"extracted", "contradicted", "verified", "rejected",
           "unresolved", "superseded"}
Origins == {"external", "human"}

\* The decisions review_claim accepts; "corrected" is refused there.
Decisions == {"verified", "rejected", "needs_more_evidence"}

\* Mutant: the decision is written where the state belongs.
StateOf_Raw == [verified |-> "verified", rejected |-> "rejected",
                needs_more_evidence |-> "needs_more_evidence"]

StateOf == [verified |-> "verified", rejected |-> "rejected",
            needs_more_evidence |-> "unresolved"]

VARIABLES
    claims,          \* sequence of claims, in commit order; never updated
    changes,         \* rows of claim_state_changes
    reviews,         \* rows of human_reviews
    facts,           \* claims with a row in facts (claim_id is UNIQUE)
    contradictions,  \* unordered pairs of claims
    corrections,     \* rows of corrections
    edges,           \* rows of evidence_edges
    audit            \* audit events in commit order

tables == <<claims, changes, reviews, facts, contradictions, corrections,
            edges, audit>>

ClaimIds == 1..Len(claims)
Txns == 1..Len(audit)

(***************************************************************************)
(* Reading the current state: ORDER BY changed_at_ms DESC, id DESC LIMIT 1 *)
(***************************************************************************)
InitialState(c) ==
    IF claims[c].origin = "external" THEN "extracted" ELSE "verified"

RowsOf(c) == {r \in changes : r.claim = c}

SortsBefore(r, s) == r.at < s.at \/ (r.at = s.at /\ r.rank <= s.rank)

Latest(rows) == {r \in rows : \A s \in rows : SortsBefore(s, r)}

StateAmong(c, rows, S) ==
    IF rows = {} THEN InitialState(c) \in S
                 ELSE \E r \in Latest(rows) : r.state \in S

StateIn(c, S) == StateAmong(c, RowsOf(c), S)

StateIs(c, s) == StateIn(c, {s})

WithdrawnStates == {"rejected", "superseded"}

\* Claims that contradiction detection no longer looks at.
Withdrawn(c) == StateIn(c, WithdrawnStates)

(***************************************************************************)
(* Writing a row.  txn is the number of the transaction that commits.      *)
(***************************************************************************)
NextTxn == Len(audit) + 1

\* Where the hash of a new row falls among the rows it ties with.
Ranks(c, at) ==
    IF \E r \in RowsOf(c) : r.at = at THEN {NextTxn, -NextTxn} ELSE {NextTxn}

Row(c, s, at, rank) ==
    [claim |-> c, state |-> s, at |-> at, rank |-> rank, txn |-> NextTxn]

Edge(from, relation, to) == [from |-> from, relation |-> relation, to |-> to]

(***************************************************************************)
(* record_claim: the claim with its evidence, then contradiction           *)
(* detection against every claim that is not withdrawn.                    *)
(***************************************************************************)
\* Mutant: the NOT IN ('rejected', 'superseded') clause is lost.
Priors_AnyState(k) == {p \in ClaimIds : claims[p].key = k}

Priors(k) == {p \in ClaimIds : claims[p].key = k /\ ~Withdrawn(p)}

Comparable(v, p) == v \in Known /\ claims[p].value \in Known

Conflicting(k, v) ==
    {p \in Priors(k) : Comparable(v, p) /\ claims[p].value # v}

\* Mutant: only claims that are established are corroborated.
Agreeing_Facts(k, v) ==
    {p \in Priors(k) : p \in facts /\ Comparable(v, p) /\ claims[p].value = v}

Agreeing(k, v) ==
    {p \in Priors(k) : Comparable(v, p) /\ claims[p].value = v}

\* Mutant: only the claim being recorded is marked.
Detect_OneSided(new, against, at) ==
    changes' = changes \cup (IF against = {} THEN {}
                             ELSE {Row(new, "contradicted", at, NextTxn)})

Detect(new, against, at) ==
    \E rank \in [against -> {NextTxn, -NextTxn}] :
        /\ \A p \in against : rank[p] \in Ranks(p, at)
        /\ changes' = changes
               \cup {Row(p, "contradicted", at, rank[p]) : p \in against}
               \cup (IF against = {} THEN {}
                     ELSE {Row(new, "contradicted", at, NextTxn)})

Record(k, v, now) ==
    LET new == Len(claims) + 1
        against == Conflicting(k, v)
    IN  /\ Len(claims) < MaxClaims /\ Len(audit) < MaxCommits
        /\ claims' = Append(claims, [key |-> k, value |-> v,
                                     origin |-> "external", txn |-> NextTxn])
        /\ contradictions' = contradictions \cup {{p, new} : p \in against}
        /\ Detect(new, against, now)
        /\ edges' = edges
               \cup {Edge(new, "supported_by", new)}
               \cup {Edge(new, "corroborates", p) : p \in Agreeing(k, v)}
               \cup {Edge(p, "contradicts", new) : p \in against}
               \cup {Edge(new, "contradicts", p) : p \in against}
        /\ audit' = Append(audit, [op |-> "claim.record", target |-> new])
        /\ UNCHANGED <<reviews, facts, corrections>>

(***************************************************************************)
(* review_claim: review, state change and, when verified, a fact.  No      *)
(* guard looks at the state the claim is in.                               *)
(***************************************************************************)
\* Mutant: INSERT OR IGNORE in insert_fact, so no constraint is ever met.
FactExists_Ignored(c, d) == FALSE

FactExists(c, d) == d = "verified" /\ c \in facts

\* Mutant: the bundle never carries a fact.
FactsAfter_None(c, d) == facts

FactsAfter(c, d) == IF d = "verified" THEN facts \cup {c} ELSE facts

Review(c, d, now) ==
    /\ ~FactExists(c, d) /\ Len(audit) < MaxCommits
    /\ reviews' = reviews \cup {[claim |-> c, decision |-> d,
                                 txn |-> NextTxn]}
    /\ \E rank \in Ranks(c, now) :
           changes' = changes \cup {Row(c, StateOf[d], now, rank)}
    /\ facts' = FactsAfter(c, d)
    /\ audit' = Append(audit, [op |-> "claim.review", target |-> c])
    /\ UNCHANGED <<claims, contradictions, corrections, edges>>

\* Mutant: the statements before the failing one are kept.
RefuseReview_Partial(c, d) ==
    /\ FactExists(c, d)
    /\ reviews' = reviews \cup {[claim |-> c, decision |-> d,
                                 txn |-> Len(audit)]}
    /\ UNCHANGED <<claims, changes, facts, contradictions, corrections,
                   edges, audit>>

\* insert_fact meets the UNIQUE constraint on claim_id: the transaction is
\* rolled back and the caller gets a Conflict.
RefuseReview(c, d) ==
    /\ FactExists(c, d)
    /\ UNCHANGED tables

(***************************************************************************)
(* correct_claim: a human claim supersedes the original.  The evaluations  *)
(* that used the original are read in the same transaction; they are an    *)
(* argument here, and RuleWorkflow supplies what the query returns.        *)
(***************************************************************************)
\* Mutant: the original keeps its state.
CorrectionRows_OnlyNew(c, new, now, rank) ==
    {Row(new, "verified", now, NextTxn)}

CorrectionRows(c, new, now, rank) ==
    {Row(c, "superseded", now, rank), Row(new, "verified", now, NextTxn)}

\* Mutant: the edge is written the wrong way round.
SupersedesEdge_Reversed(original, new) == Edge(original, "supersedes", new)

SupersedesEdge(original, new) == Edge(new, "supersedes", original)

Correct(c, v, now, affected) ==
    LET new == Len(claims) + 1
    IN  /\ Len(claims) < MaxClaims /\ Len(audit) < MaxCommits
        /\ claims' = Append(claims, [key |-> claims[c].key, value |-> v,
                                     origin |-> "human", txn |-> NextTxn])
        /\ reviews' = reviews \cup {[claim |-> c, decision |-> "corrected",
                                     txn |-> NextTxn]}
        /\ corrections' = corrections \cup {[original |-> c,
                                             corrected |-> new,
                                             affected |-> affected,
                                             txn |-> NextTxn]}
        /\ \E rank \in Ranks(c, now) :
               changes' = changes \cup CorrectionRows(c, new, now, rank)
        /\ edges' = edges \cup {SupersedesEdge(c, new)}
        /\ audit' = Append(audit, [op |-> "claim.correct", target |-> c])
        /\ UNCHANGED <<facts, contradictions>>

StoreInit ==
    /\ claims = <<>> /\ audit = <<>>
    /\ changes = {} /\ reviews = {} /\ facts = {}
    /\ contradictions = {} /\ corrections = {} /\ edges = {}

StoreNext ==
    \/ \E k \in Keys, v \in KnowledgeValues, now \in Times :
          Record(k, v, now)
    \/ \E c \in ClaimIds, d \in Decisions, now \in Times :
          Review(c, d, now)
    \/ \E c \in ClaimIds, d \in Decisions : RefuseReview(c, d)
    \/ \E c \in ClaimIds, v \in KnowledgeValues, now \in Times,
          affected \in SUBSET Derivations : Correct(c, v, now, affected)

StoreSpec == StoreInit /\ [][StoreNext]_tables

(***************************************************************************)
(* Types                                                                   *)
(***************************************************************************)
Claim == [key : Keys, value : KnowledgeValues, origin : Origins, txn : Nat]

Operations == {"claim.record", "claim.review", "claim.correct"}
Relations == {"supported_by", "corroborates", "contradicts", "supersedes"}

\* Every row refers to a claim, and to a transaction, that exists: the
\* foreign keys of the schema, for the tables that have them and for the
\* kind/id references that have none.
TypeOK ==
    /\ claims \in Seq(Claim)
    /\ \A c \in ClaimIds : claims[c].txn \in Txns
    /\ changes \subseteq [claim : ClaimIds, state : States, at : Times,
                          rank : Int, txn : Txns]
    /\ reviews \subseteq [claim : ClaimIds, txn : Txns,
                          decision : Decisions \cup {"corrected"}]
    /\ facts \subseteq ClaimIds
    /\ \A pair \in contradictions :
           \E a, b \in ClaimIds : a < b /\ pair = {a, b}
    /\ corrections \subseteq [original : ClaimIds, corrected : ClaimIds,
                              affected : SUBSET Derivations, txn : Txns]
    /\ edges \subseteq [from : ClaimIds, relation : Relations, to : ClaimIds]
    /\ audit \in Seq([op : Operations, target : ClaimIds])

(***************************************************************************)
(* Contradictions                                                          *)
(***************************************************************************)
RowsBefore(c, t) == {r \in RowsOf(c) : r.txn < t}

WithdrawnBefore(c, t) == StateAmong(c, RowsBefore(c, t), WithdrawnStates)

Incompatible(a, b) ==
    /\ claims[a].key = claims[b].key
    /\ claims[a].value \in Known /\ claims[b].value \in Known
    /\ claims[a].value # claims[b].value

\* The contradictions table is exactly what the history calls for: a pair is
\* there if and only if the later claim came from a source and the earlier,
\* incompatible one was not withdrawn when it arrived, whatever reviews and
\* corrections have happened since (the loop of record_claim).
DetectionExact ==
    \A a, b \in ClaimIds : a < b =>
        ({a, b} \in contradictions
            <=> /\ claims[b].origin = "external"
                /\ Incompatible(a, b)
                /\ ~WithdrawnBefore(a, claims[b].txn))

\* A contradiction is visible from both of its claims: each has the edge to
\* the other and a "contradicted" row written by the transaction that
\* recorded the later one (record_claim writes five rows for a pair).
ContradictionVisible ==
    \A a, b \in ClaimIds : (a < b /\ {a, b} \in contradictions) =>
        /\ {Edge(a, "contradicts", b), Edge(b, "contradicts", a)} \subseteq edges
        /\ \A c \in {a, b} : \E r \in RowsOf(c) :
               r.state = "contradicted" /\ r.txn = claims[b].txn

(***************************************************************************)
(* Reviews and facts                                                       *)
(***************************************************************************)
VerifiedReviews(c) ==
    {v \in reviews : v.claim = c /\ v.decision = "verified"}

\* A fact stands for exactly one verifying review of its claim: there is no
\* fact without one, and no claim is verified by two (review_claim and the
\* UNIQUE constraint of facts).
FactsMatchVerifications ==
    \A c \in ClaimIds :
        /\ c \in facts <=> VerifiedReviews(c) # {}
        /\ \A u, v \in VerifiedReviews(c) : u = v

\* A claim from a source is currently verified only if it has a fact, in
\* whatever order the timestamps of its reviews, contradictions and
\* corrections fall (docs/provenance.md: "established" needs both).  A human
\* claim is verified by the correction that creates it, without a fact.
EstablishedHasFact ==
    \A c \in ClaimIds :
        (claims[c].origin = "external" /\ StateIs(c, "verified"))
            => c \in facts

\* Once a claim with a fact has lost the state "verified" (a contradiction, a
\* rejection, a correction), nothing makes it verified again: a second
\* verifying review meets the UNIQUE constraint of facts and is refused.
VerificationIsNotRegained ==
    [][\A c \in facts : ~StateIs(c, "verified")
                            => ~StateIs(c, "verified")']_tables

\* A claim that is withdrawn comes back only by a human review of that claim;
\* a new conflicting claim in particular leaves it alone (the NOT IN clause
\* of record_claim).
WithdrawalUndoneOnlyByReview ==
    [][\A c \in ClaimIds : (Withdrawn(c) /\ ~Withdrawn(c)') =>
          \E v \in reviews' \ reviews :
             v.claim = c /\ v.decision # "corrected"]_tables

(***************************************************************************)
(* Corrections and history                                                 *)
(***************************************************************************)

\* Following corrections back from a human claim ends at a claim that has
\* evidence: each human claim replaces exactly one earlier claim of the same
\* subject and predicate, and only claims from a source start a chain
\* (correct_claim allows chains and several corrections of one original).
CorrectionsTraceToEvidence ==
    \A c \in ClaimIds :
        IF claims[c].origin = "external"
        THEN /\ Edge(c, "supported_by", c) \in edges
             /\ \A k \in corrections : k.corrected # c
        ELSE \E k \in corrections :
                /\ k.corrected = c
                /\ k.original < c /\ claims[k.original].key = claims[c].key
                /\ Edge(c, "supersedes", k.original) \in edges
                /\ \A l \in corrections : l.corrected = c => l = k

RowExplained(r) ==
    LET event == audit[r.txn]
    IN  \/ /\ event.op = "claim.record" /\ r.state = "contradicted"
           /\ \E p \in ClaimIds : {event.target, p} \in contradictions
                                 /\ r.claim \in {event.target, p}
        \/ /\ event.op = "claim.review" /\ r.claim = event.target
           /\ \E v \in reviews : v.txn = r.txn /\ v.claim = r.claim
                                /\ v.decision # "corrected"
                                /\ r.state = StateOf[v.decision]
        \/ /\ event.op = "claim.correct"
           /\ \E k \in corrections :
                 /\ k.txn = r.txn /\ k.original = event.target
                 /\ \/ r.claim = k.original /\ r.state = "superseded"
                    \/ r.claim = k.corrected /\ r.state = "verified"

EventHasEffect(t) ==
    LET event == audit[t]
    IN  IF event.op = "claim.record"
        THEN claims[event.target].txn = t
        ELSE \E r \in changes : r.txn = t /\ r.claim = event.target

\* The audit log and the state history tell the same story: every row of the
\* history is explained by the audit event of its transaction together with
\* that transaction's review, contradiction or correction, and every audit
\* event has its effect (each mutation is one transaction with its audit).
HistoryAccountable ==
    /\ \A r \in changes : RowExplained(r)
    /\ \A t \in Txns : EventHasEffect(t)

\* A step either leaves the tables alone or adds exactly one audit event and
\* loses no row of any table; a refused or aborted request leaves nothing
\* (docs/domain-model.md: append-only; one transaction per operation).
AuditedGrowth ==
    [][\/ UNCHANGED tables
       \/ /\ Len(audit') = Len(audit) + 1
          /\ \A t \in Txns : audit'[t] = audit[t]
          /\ Len(claims') >= Len(claims)
          /\ \A c \in ClaimIds : claims'[c] = claims[c]
          /\ changes \subseteq changes' /\ reviews \subseteq reviews'
          /\ facts \subseteq facts' /\ edges \subseteq edges'
          /\ contradictions \subseteq contradictions'
          /\ corrections \subseteq corrections']_tables

(***************************************************************************)
(* What the documents say and the code does not do                         *)
(***************************************************************************)

\* CASEGRAPH_FOUNDATION_SPEC.md: "Conflicting claims coexist and produce an
\* inspectable contradiction".  Neither a correction nor the review that
\* brings a withdrawn claim back looks for conflicting claims.
ConflictsAreInspectable ==
    \A a, b \in ClaimIds :
        (a < b /\ Incompatible(a, b) /\ ~Withdrawn(a) /\ ~Withdrawn(b))
            => {a, b} \in contradictions
=============================================================================
