---------------------------- MODULE ClaimService ----------------------------
(***************************************************************************)
(* The claim operations of CaseGraphService over the claim tables.  A      *)
(* request has two steps: the service checks that the claim exists, reads  *)
(* the wall clock and builds the rows; then the repository commits them in *)
(* one transaction under the connection mutex.  Requests of different      *)
(* workers, the threads of one service instance, interleave between the    *)
(* two, so that transactions need not commit in the order of their         *)
(* timestamps.                                                             *)
(***************************************************************************)
EXTENDS ClaimStore

CONSTANTS
    Workers,  \* threads that serve one request at a time
    Idle      \* a worker with no request

Requests ==
    [op : {"record"}, key : Keys, value : KnowledgeValues, now : Times]
    \cup [op : {"review"}, claim : 1..MaxClaims, decision : Decisions,
          now : Times]
    \cup [op : {"correct"}, claim : 1..MaxClaims, value : KnowledgeValues,
          now : Times]

ASSUME ServiceAssumption == Idle \notin Requests

VARIABLES
    req,   \* the request each worker has in flight
    clock  \* the wall clock

serviceVars == <<tables, req, clock>>

(***************************************************************************)
(* The service builds a request and reads the clock.                       *)
(***************************************************************************)
Submit(w, request) ==
    /\ req[w] = Idle
    /\ req' = [req EXCEPT ![w] = request]
    /\ UNCHANGED <<tables, clock>>

BeginRecord(w, k, v) ==
    Submit(w, [op |-> "record", key |-> k, value |-> v, now |-> clock])

\* Mutant: get_claim is not asked.
Existing_Any == 1..MaxClaims

\* get_claim answers NotFound for any other claim.
Existing == ClaimIds

BeginReview(w, c, d) ==
    Submit(w, [op |-> "review", claim |-> c, decision |-> d, now |-> clock])

BeginCorrect(w, c, v) ==
    Submit(w, [op |-> "correct", claim |-> c, value |-> v, now |-> clock])

(***************************************************************************)
(* The repository's transaction ends the request.                          *)
(***************************************************************************)
Serving(w, op) == req[w] # Idle /\ req[w].op = op

Done(w) ==
    /\ req' = [req EXCEPT ![w] = Idle]
    /\ UNCHANGED clock

CommitRecord(w) ==
    /\ Serving(w, "record")
    /\ Record(req[w].key, req[w].value, req[w].now)
    /\ Done(w)

CommitReview(w) ==
    /\ Serving(w, "review")
    /\ Review(req[w].claim, req[w].decision, req[w].now)
    /\ Done(w)

ConflictReview(w) ==
    /\ Serving(w, "review")
    /\ RefuseReview(req[w].claim, req[w].decision)
    /\ Done(w)

CommitCorrect(w) ==
    /\ Serving(w, "correct")
    /\ \E affected \in SUBSET Derivations :
          Correct(req[w].claim, req[w].value, req[w].now, affected)
    /\ Done(w)

\* Mutant: the statements of a failed transaction before the claim are kept.
Abort_Partial(w) ==
    /\ req[w] # Idle /\ Done(w)
    /\ facts' = facts \cup ClaimIds
    /\ UNCHANGED <<claims, changes, reviews, contradictions, corrections,
                   edges, audit>>

\* A storage error, a busy database or a crash: SQLite rolls back.
Abort(w) ==
    /\ req[w] # Idle
    /\ Done(w)
    /\ UNCHANGED tables

\* The wall clock advances; an adjustment may also set it back.
SetClock(t) ==
    /\ t # clock
    /\ clock' = t
    /\ UNCHANGED <<tables, req>>

ServiceInit ==
    /\ StoreInit
    /\ req = [w \in Workers |-> Idle]
    /\ clock = 0

Begin(w) ==
    \/ \E k \in Keys, v \in KnowledgeValues : BeginRecord(w, k, v)
    \/ \E c \in Existing, d \in Decisions : BeginReview(w, c, d)
    \/ \E c \in Existing, v \in KnowledgeValues : BeginCorrect(w, c, v)

ServiceNext ==
    \/ \E w \in Workers :
          \/ Begin(w)
          \/ CommitRecord(w)
          \/ CommitReview(w)
          \/ ConflictReview(w)
          \/ CommitCorrect(w)
          \/ Abort(w)
    \/ \E t \in Times : SetClock(t)

ServiceSpec == ServiceInit /\ [][ServiceNext]_serviceVars

(***************************************************************************)
(* Properties                                                              *)
(***************************************************************************)

\* A request in flight names a claim that exists and keeps existing until the
\* transaction runs, so ensure_claim_exists never fails after get_claim.
ServiceTypeOK ==
    /\ TypeOK
    /\ req \in [Workers -> Requests \cup {Idle}]
    /\ \A w \in Workers : (req[w] # Idle /\ req[w].op # "record")
                              => req[w].claim \in ClaimIds
    /\ clock \in Times
=============================================================================
