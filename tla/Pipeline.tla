------------------------------- MODULE Pipeline -------------------------------
(***************************************************************************)
(* Extraction beside the reviews, corrections and questions of             *)
(* GroundedQuery.  An extraction classifies an ingested document, reads    *)
(* it, extracts its fields and records one claim per field, each in a      *)
(* transaction of its own; requests of other workers commit in between,    *)
(* and nothing remembers what an extraction that failed has recorded.      *)
(*                                                                         *)
(* What the extractor makes of a document is a constant here; Extractors   *)
(* defines it, and MCPipeline puts the two together.  The program records  *)
(* claims in no other way.                                                 *)
(***************************************************************************)
EXTENDS GroundedQuery

CONSTANTS
    Documents,  \* artifact versions
    FieldsOf,   \* document -> sequence of [key, value, accepted]
    RefusalOf   \* document -> why it yields no fields, or "none"

Refusals == {"unsupported_format", "unreadable_artifact", "malformed_input",
             "no_observations", "validation_rejected"}

ASSUME PipelineAssumption ==
    \A d \in Documents :
        /\ RefusalOf[d] \in Refusals \cup {"none"}
        /\ FieldsOf[d] \in Seq([key : Keys, value : KnowledgeValues,
                                accepted : BOOLEAN])
        /\ RefusalOf[d] = "none" => FieldsOf[d] # <<>>

VARIABLES
    extraction,  \* the extraction each worker runs
    provenance   \* rows of provenance_records: claim, document and field

pipelineVars == <<queryVars, extraction, provenance>>

NoExtraction == [step |-> "none"]

Running(w) == extraction[w].step = "running"
Fields(w) == FieldsOf[extraction[w].document]
Position(w) == Len(extraction[w].claims) + 1

(***************************************************************************)
(* The reply: the HTTP route answers 200 or, whatever went wrong, 400; the *)
(* command line reports a document of an unsupported format as ingested.   *)
(***************************************************************************)
Faces == {"http", "cli"}

Status(face, outcome) ==
    IF outcome = "complete" THEN "claims"
    ELSE IF face = "cli" /\ outcome = "unsupported_format" THEN "ingested"
    ELSE "error"

Reply(w, outcome) ==
    /\ \E face \in Faces :
          extraction' = [extraction EXCEPT ![w] =
                            [step |-> "replied",
                             document |-> extraction[w].document,
                             claims |-> extraction[w].claims,
                             status |-> Status(face, outcome)]]
    /\ UNCHANGED <<asked, provenance>>

(***************************************************************************)
(* extract                                                                 *)
(***************************************************************************)
BeginExtraction(w, d) ==
    /\ req[w] = Idle /\ asked[w] = NoQuestion
    /\ extraction[w] = NoExtraction
    /\ extraction' = [extraction EXCEPT ![w] =
                         [step |-> "running", document |-> d, claims |-> <<>>]]
    /\ UNCHANGED <<queryVars, provenance>>

\* classify, the extractor, or finding no field ends it before any claim.
RefuseDocument(w) ==
    /\ Running(w) /\ RefusalOf[extraction[w].document] # "none"
    /\ Reply(w, RefusalOf[extraction[w].document])
    /\ UNCHANGED serviceVars

HasField(w) ==
    /\ Running(w) /\ RefusalOf[extraction[w].document] = "none"
    /\ Position(w) <= Len(Fields(w)) /\ req[w] = Idle

\* record_external_claim: validate_text on the key and the original value.
Acceptable(w) == Fields(w)[Position(w)].accepted

SubmitField(w) ==
    /\ HasField(w) /\ Acceptable(w)
    /\ BeginRecord(w, Fields(w)[Position(w)].key, Fields(w)[Position(w)].value)
    /\ UNCHANGED <<asked, extraction, provenance>>

RejectField(w) ==
    /\ HasField(w) /\ ~Acceptable(w)
    /\ Reply(w, "validation_rejected")
    /\ UNCHANGED serviceVars

CommitField(w) ==
    /\ Running(w) /\ CommitRecord(w)
    /\ provenance' = provenance
          \cup {[claim |-> Len(claims'), document |-> extraction[w].document,
                 field |-> Position(w)]}
    /\ extraction' = [extraction EXCEPT ![w].claims = Append(@, Len(claims'))]
    /\ UNCHANGED asked

\* Mutant: an error while claims are recorded ends the loop, not the request.
OutcomeOfError_Lost == "complete"

\* PipelineError::from(AppError) for any kind but InvalidInput.
OutcomeOfError == "internal"

Readable(d) == RefusalOf[d] # "unsupported_format"

\* The document or its version cannot be read, or the transaction fails.
FailExtraction(w) ==
    /\ Running(w)
    /\ \/ Abort(w)
       \/ /\ Readable(extraction[w].document) /\ req[w] = Idle
          /\ Position(w) <= Len(Fields(w)) \/ Fields(w) = <<>>
          /\ UNCHANGED serviceVars
    /\ Reply(w, OutcomeOfError)

Complete(w) ==
    /\ Running(w) /\ RefusalOf[extraction[w].document] = "none"
    /\ Position(w) > Len(Fields(w))
    /\ Reply(w, "complete")
    /\ UNCHANGED serviceVars

\* The reply is delivered, or the process dies while nothing is in flight.
EndExtraction(w) ==
    /\ extraction[w] # NoExtraction /\ req[w] = Idle
    /\ extraction' = [extraction EXCEPT ![w] = NoExtraction]
    /\ UNCHANGED <<queryVars, provenance>>

Extract(w) ==
    \/ \E d \in Documents : BeginExtraction(w, d)
    \/ RefuseDocument(w)
    \/ SubmitField(w)
    \/ RejectField(w)
    \/ CommitField(w)
    \/ FailExtraction(w)
    \/ Complete(w)
    \/ EndExtraction(w)

(***************************************************************************)
(* The other requests: reviews, corrections and questions.                 *)
(***************************************************************************)
Curate(w) ==
    /\ \/ /\ asked[w] = NoQuestion
          /\ \/ \E c \in Existing, d \in Decisions : BeginReview(w, c, d)
             \/ \E c \in Existing, v \in KnowledgeValues : BeginCorrect(w, c, v)
       \/ CommitReview(w)
       \/ ConflictReview(w)
       \/ CommitCorrect(w)
       \/ Abort(w)
    /\ UNCHANGED asked

Inquire(w) ==
    \/ \E question \in Questions : Ask(w, question)
    \/ Answer(w)
    \/ EndQuestion(w)

PipelineInit ==
    /\ QueryInit
    /\ extraction = [w \in Workers |-> NoExtraction]
    /\ provenance = {}

PipelineNext ==
    \/ \E w \in Workers : Extract(w)
    \/ /\ \E w \in Workers : /\ extraction[w] = NoExtraction
                             /\ Curate(w) \/ Inquire(w)
       /\ UNCHANGED <<extraction, provenance>>
    \/ /\ \E t \in Times : SetClock(t)
       /\ UNCHANGED <<asked, extraction, provenance>>

PipelineSpec == PipelineInit /\ [][PipelineNext]_pipelineVars

(***************************************************************************)
(* Properties                                                              *)
(***************************************************************************)

\* A caller who is told the claims of a document is told one for each of its
\* fields, in order and with its key and value; a caller who is told anything
\* else has no complete set of claims, although some may have been recorded
\* (extract stops at the first field that cannot be recorded and keeps the
\* claims of those before it).
RepliesAreWhole ==
    \A w \in Workers : extraction[w].step = "replied" =>
        LET fields == FieldsOf[extraction[w].document]
            told == extraction[w].claims
        IN  /\ Len(told) <= Len(fields)
            /\ \A i \in DOMAIN told :
                  /\ claims[told[i]].key = fields[i].key
                  /\ claims[told[i]].value = fields[i].value
            /\ extraction[w].status = "claims" => Len(told) = Len(fields)
            /\ Len(told) = Len(fields) /\ fields # <<>>
                   => extraction[w].status = "claims"

\* Every claim from a source leads back to one field of one document that says
\* what it says; claims of the same field, recorded by extractions that were
\* repeated, corroborate each other unless the earlier one was withdrawn when
\* the later arrived, and never contradict each other.
RepeatedClaimsCorroborate ==
    /\ \A c \in ClaimIds : claims[c].origin = "external" =>
          \E p \in provenance :
              /\ p.claim = c /\ \A q \in provenance : q.claim = c => q = p
              /\ FieldsOf[p.document][p.field].value = claims[c].value
    /\ \A p, q \in provenance :
          (/\ p.claim < q.claim
           /\ p.document = q.document /\ p.field = q.field) =>
              /\ {p.claim, q.claim} \notin contradictions
              /\ claims[p.claim].value \in Known =>
                    \/ Edge(q.claim, "corroborates", p.claim) \in edges
                    \/ WithdrawnBefore(p.claim, claims[q.claim].txn)

(***************************************************************************)
(* What the documents say and the code does not do                         *)
(***************************************************************************)

\* CASEGRAPH_FOUNDATION_SPEC.md: "Retry operations must be idempotent or
\* explicitly guarded against duplicate evidence".  An extraction that is
\* repeated records its claims again, and they contradict what a person made
\* of the first ones.
RetriesAreHarmless ==
    \A k \in corrections : \A p, q \in provenance :
        (/\ p.claim = k.original
         /\ q.document = p.document /\ q.field = p.field)
            => {q.claim, k.corrected} \notin contradictions
=============================================================================
