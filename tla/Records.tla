------------------------------- MODULE Records -------------------------------
(***************************************************************************)
(* The rows of a claim and of its provenance.  Three places decide what a  *)
(* row may be: the validation of the domain types before it is written,    *)
(* the column types and CHECKs of the schema, and the conversions and the  *)
(* validation when it is read.  A row that was accepted and cannot be read *)
(* fails every listing of its case, and rows are never changed.            *)
(*                                                                         *)
(* An optional value is a sequence of at most one value.  A text is known  *)
(* by its length without the white space around it, and by what is around  *)
(* it: white space that is no blank, and control characters.               *)
(***************************************************************************)
EXTENDS Integers, Sequences

CONSTANTS
    MaxSigned,  \* the greatest integer of a column, 2^63 - 1 in the program
    MaxLength,  \* the longest text, 300 characters for a predicate
    Bundles     \* claims with their provenance that are submitted

\* The fields of ProvenanceRecord and Claim that are told apart.
Fields ==
    {"text", "start", "end", "page", "column", "region", "provider", "model",
     "configuration", "provenance", "temporal", "origin", "state", "verification"}

ASSUME BundleAssumption ==
    \A b \in Bundles :
        /\ b = [f \in Fields |-> b[f]]
        /\ b.temporal # <<>> => b.temporal = <<b.temporal[1]>>
        /\ b.origin \in 1..4 /\ b.state \in 1..10 /\ b.verification \in 1..4

VARIABLES
    submitted,  \* the bundle of the last request
    stored,     \* its row, or none
    outcome     \* what the request was answered

records == <<submitted, stored, outcome>>

None == <<>>
Some(v) == <<v>>
In(option) == {option[i] : i \in DOMAIN option}

(***************************************************************************)
(* Enumerations: a variant is known by its place, and has a text in the    *)
(* database.                                                               *)
(***************************************************************************)

\* assertion_origin, claim_state, ...: the text of each variant.
TextOf ==
    [origin |-> <<"external", "human", "rule", "system">>,
     state |-> <<"observed", "extracted", "inferred", "corroborated", "disputed",
                 "contradicted", "superseded", "verified", "rejected", "unresolved">>,
     verification |-> <<"not_reviewed", "verified", "rejected", "corrected">>]

\* Mutant: a variant that was added is written and not parsed.
VariantOf_NotAll ==
    [origin |-> [external |-> 1, human |-> 2, rule |-> 3, system |-> 4],
     state |-> [observed |-> 1, extracted |-> 2, inferred |-> 3, corroborated |-> 4,
                disputed |-> 5, contradicted |-> 6, superseded |-> 7, verified |-> 8,
                rejected |-> 9, unresolved |-> 10],
     verification |-> [not_reviewed |-> 1, verified |-> 2, rejected |-> 3]]

\* parse_assertion_origin, parse_claim_state, ...: the variant of each text.
VariantOf ==
    [origin |-> [external |-> 1, human |-> 2, rule |-> 3, system |-> 4],
     state |-> [observed |-> 1, extracted |-> 2, inferred |-> 3, corroborated |-> 4,
                disputed |-> 5, contradicted |-> 6, superseded |-> 7, verified |-> 8,
                rejected |-> 9, unresolved |-> 10],
     verification |-> [not_reviewed |-> 1, verified |-> 2, rejected |-> 3,
                       corrected |-> 4]]

\* CHECK (... IN (...))
Listed ==
    [origin |-> {"external", "human", "rule", "system"},
     state |-> {"observed", "extracted", "inferred", "corroborated", "disputed",
                "contradicted", "superseded", "verified", "rejected", "unresolved"},
     verification |-> {"not_reviewed", "verified", "rejected", "corrected"}]

Enumerations == DOMAIN TextOf

External == 1

(***************************************************************************)
(* The domain: ProvenanceRecord::validate, Claim::validate                 *)
(***************************************************************************)
ValidText(text) == text.length \in 1..MaxLength /\ ~text.control

Ordered(b) == \A first \in In(b.start), last \in In(b.end) : first <= last

\* Model metadata names the model's provider.
Attributed(b) ==
    b.provider = None => b.model = None /\ b.configuration = None

TemporalValid(time) ==
    CASE time.kind = "month" -> time.year \in 1..9999 /\ time.month \in 1..12
      [] time.kind = "year"  -> time.year \in 1..9999
      [] time.kind = "range" -> time.earliest <= time.latest
      [] OTHER               -> TRUE

Valid(b) ==
    /\ ValidText(b.text) /\ Ordered(b) /\ Attributed(b)
    /\ b.origin = External => b.provenance # None
    /\ \A time \in In(b.temporal) : TemporalValid(time)

(***************************************************************************)
(* The schema                                                              *)
(***************************************************************************)
ColumnHolds(option) == \A n \in In(option) : n <= MaxSigned

\* SQLite trims blanks only.
TrimmedLength(text) == text.length + text.white

Checked(row) ==
    /\ TrimmedLength(row.text) \in 1..MaxLength
    /\ \A n \in In(row.page) : n > 0
    /\ \A n \in In(row.column) : n >= 0
    /\ \A n \in In(row.start) \cup In(row.end) : n >= 0
    /\ \A first \in In(row.start), last \in In(row.end) : first <= last
    /\ \A json \in In(row.region) \cup In(row.configuration) : json # "malformed"
    /\ row.provider = None => row.model = None
    /\ row.origin = "external" => row.provenance # None
    /\ \A e \in Enumerations : row[e] \in Listed[e]

\* params!: enumerations become text, a temporal value becomes JSON.
RowOf(b) ==
    [f \in Fields |->
        CASE f \in Enumerations -> TextOf[f][b[f]]
          [] f = "temporal" -> [i \in DOMAIN b.temporal |-> [json |-> b.temporal[i]]]
          [] OTHER -> b[f]]

(***************************************************************************)
(* record_claim, correct_claim: the checks in their order; the transaction *)
(* stores the row or nothing.                                              *)
(***************************************************************************)
Answer(b) ==
    IF ~Valid(b) THEN "invalid_input"
    ELSE IF ~ColumnHolds(b.start) \/ ~ColumnHolds(b.end) THEN "invalid_input"
    ELSE IF ~Checked(RowOf(b)) THEN "conflict" ELSE "stored"

Submit(b) ==
    /\ outcome = "none"
    /\ submitted' = Some(b)
    /\ outcome' = Answer(b)
    /\ stored' = IF Answer(b) = "stored" THEN Some(RowOf(b)) ELSE None

RecordsInit == submitted = None /\ stored = None /\ outcome = "none"

RecordsNext == \E b \in Bundles : Submit(b)

(***************************************************************************)
(* load_claim, load_provenance                                             *)
(***************************************************************************)
Parsed(row) ==
    [f \in Fields |->
        CASE f \in Enumerations -> VariantOf[f][row[f]]
          [] f = "temporal" -> [i \in DOMAIN row.temporal |-> row.temporal[i].json]
          [] OTHER -> row[f]]

\* Unknown texts and negative positions are refused, and so is what does not
\* validate.
Readable(row) ==
    /\ \A e \in Enumerations : row[e] \in DOMAIN VariantOf[e]
    /\ \A n \in In(row.start) \cup In(row.end) : n >= 0
    /\ Valid(Parsed(row))

(***************************************************************************)
(* Properties                                                              *)
(***************************************************************************)

\* What was accepted can be read, and is read as it was submitted: the domain,
\* the schema and the readers agree on every row that gets past the first two,
\* and one row never makes the listings of its case fail for ever.
RecordedIsReadBack ==
    \A row \in In(stored) :
        Readable(row) /\ Parsed(row) = submitted[1]
=============================================================================
