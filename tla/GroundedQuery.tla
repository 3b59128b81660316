---------------------------- MODULE GroundedQuery ----------------------------
(***************************************************************************)
(* Grounded queries beside the claim requests of ClaimService.  A question *)
(* names predicates; it is answered from the claims that have them, of any *)
(* subject and in any state.  The claims are listed under one lock and     *)
(* their current states read under another (list_grounded_claims), and     *)
(* claim transactions run in between.                                      *)
(*                                                                         *)
(* Questions about deadlines are answered from stored evaluations; see     *)
(* RuleRegistry.  No state change writes "inferred" or "corroborated", so  *)
(* the mode "suggested" does not arise.                                    *)
(***************************************************************************)
EXTENDS ClaimService

CONSTANT Questions  \* sets of keys: those whose predicate a question contains

ASSUME QueryAssumption == Questions \subseteq SUBSET Keys

VARIABLE asked  \* the question each worker is answering

queryVars == <<serviceVars, asked>>

NoQuestion == [step |-> "none"]

\* The claims of the question, of those that were listed.
Matched(question, listed) == {c \in listed : claims[c].key \in question}

\* Mutant: the values of claims that were withdrawn do not count.
KnownValues_Live(cited) ==
    {claims[c].value : c \in {d \in cited : claims[d].value \in Known
                                            /\ ~Withdrawn(d)}}

KnownValues(cited) ==
    {claims[c].value : c \in {d \in cited : claims[d].value \in Known}}

\* Mutant: one verified claim is enough.
AllVerified_Any(cited) == \E c \in cited : StateIs(c, "verified")

AllVerified(cited) == \A c \in cited : StateIs(c, "verified")

Mode(cited) ==
    IF cited = {} THEN "unknown"
    ELSE IF \E u, v \in KnownValues(cited) : u # v THEN "conflicting"
    ELSE IF AllVerified(cited) THEN "established"
    ELSE "claimed"

(***************************************************************************)
(* query                                                                   *)
(***************************************************************************)

\* list_claims: the first lock.
Ask(w, question) ==
    /\ req[w] = Idle /\ asked[w] = NoQuestion
    /\ asked' = [asked EXCEPT ![w] =
                    [step |-> "listed", cited |-> Matched(question, ClaimIds)]]
    /\ UNCHANGED serviceVars

\* The second lock: the states, and the answer.
Answer(w) ==
    /\ asked[w].step = "listed"
    /\ asked' = [asked EXCEPT ![w] =
                    [step |-> "answered", cited |-> asked[w].cited,
                     mode |-> Mode(asked[w].cited)]]
    /\ UNCHANGED serviceVars

\* The answer is delivered, or the request fails.
EndQuestion(w) ==
    /\ asked[w] # NoQuestion
    /\ asked' = [asked EXCEPT ![w] = NoQuestion]
    /\ UNCHANGED serviceVars

QueryInit == ServiceInit /\ asked = [w \in Workers |-> NoQuestion]

(***************************************************************************)
(* Properties                                                              *)
(***************************************************************************)
Answered(w) == asked[w].step = "answered"

Contradicting(cited) == \E pair \in contradictions : pair \subseteq cited

\* An answer that something is established cites claims, each of which has a
\* fact or is a human correction, and no two of which contradict each other;
\* conversely a contradiction among the cited claims is always told, although
\* claims are recorded, reviewed and corrected while the answer is made.
EstablishedIsGrounded ==
    \A w \in Workers : Answered(w) =>
        LET cited == asked[w].cited
        IN  /\ asked[w].mode = "established" =>
                  /\ cited # {}
                  /\ \A c \in cited : c \in facts \/ claims[c].origin = "human"
            /\ Contradicting(cited) => asked[w].mode = "conflicting"

\* A conflict is never settled: once a question finds different values, no
\* review, correction or new claim gives it another answer, because claims
\* that were rejected or superseded keep counting (query filters on nothing).
ConflictIsNeverSettled ==
    [][\A question \in Questions :
          Mode(Matched(question, ClaimIds)) = "conflicting"
              => Mode(Matched(question, ClaimIds))' = "conflicting"]_queryVars
=============================================================================
