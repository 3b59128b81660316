---------------------------- MODULE RecordsProofs ----------------------------
(***************************************************************************)
(* Whatever claims are submitted, with whatever bounds on integers and     *)
(* texts: an accepted row is readable, and reads as what was submitted.    *)
(***************************************************************************)
EXTENDS Records, TLAPS

RecordsSpec == RecordsInit /\ [][RecordsNext]_records

\* A stored row is the row of the bundle that was submitted and accepted.
StoredIsAccepted ==
    \A row \in In(stored) :
        \E b \in Bundles :
            /\ submitted = Some(b) /\ row = RowOf(b)
            /\ Valid(b) /\ Checked(row)

\* Every variant has a text that is parsed back to it: the tables of the
\* writers and of the readers are inverse.
LEMMA VariantsAreParsed ==
    /\ \A v \in 1..4 : /\ TextOf.origin[v] \in DOMAIN VariantOf.origin
                       /\ VariantOf.origin[TextOf.origin[v]] = v
    /\ \A v \in 1..10 : /\ TextOf.state[v] \in DOMAIN VariantOf.state
                        /\ VariantOf.state[TextOf.state[v]] = v
    /\ \A v \in 1..4 : /\ TextOf.verification[v] \in DOMAIN VariantOf.verification
                       /\ VariantOf.verification[TextOf.verification[v]] = v
<1>1. \A v \in 1..4 : /\ TextOf.origin[v] \in DOMAIN VariantOf.origin
                      /\ VariantOf.origin[TextOf.origin[v]] = v
  <2> SUFFICES ASSUME NEW v \in 1..4
               PROVE  /\ TextOf.origin[v] \in DOMAIN VariantOf.origin
                      /\ VariantOf.origin[TextOf.origin[v]] = v
    OBVIOUS
  <2>1. v = 1 \/ v = 2 \/ v = 3 \/ v = 4
    OBVIOUS
  <2> QED
    BY <2>1 DEF TextOf, VariantOf
<1>2. \A v \in 1..10 : /\ TextOf.state[v] \in DOMAIN VariantOf.state
                       /\ VariantOf.state[TextOf.state[v]] = v
  <2> SUFFICES ASSUME NEW v \in 1..10
               PROVE  /\ TextOf.state[v] \in DOMAIN VariantOf.state
                      /\ VariantOf.state[TextOf.state[v]] = v
    OBVIOUS
  <2>1. \/ v = 1 \/ v = 2 \/ v = 3 \/ v = 4 \/ v = 5
        \/ v = 6 \/ v = 7 \/ v = 8 \/ v = 9 \/ v = 10
    OBVIOUS
  <2> QED
    BY <2>1 DEF TextOf, VariantOf
<1>3. \A v \in 1..4 : /\ TextOf.verification[v] \in DOMAIN VariantOf.verification
                      /\ VariantOf.verification[TextOf.verification[v]] = v
  <2> SUFFICES ASSUME NEW v \in 1..4
               PROVE  /\ TextOf.verification[v] \in DOMAIN VariantOf.verification
                      /\ VariantOf.verification[TextOf.verification[v]] = v
    OBVIOUS
  <2>1. v = 1 \/ v = 2 \/ v = 3 \/ v = 4
    OBVIOUS
  <2> QED
    BY <2>1 DEF TextOf, VariantOf
<1> QED
  BY <1>1, <1>2, <1>3

\* Reading undoes writing, for every bundle.
LEMMA ParsedRow ==
    ASSUME NEW b \in Bundles
    PROVE  /\ Parsed(RowOf(b)) = b
           /\ \A e \in Enumerations : RowOf(b)[e] \in DOMAIN VariantOf[e]
           /\ RowOf(b).start = b.start /\ RowOf(b).end = b.end
<1>1. /\ b = [f \in Fields |-> b[f]]
      /\ b.temporal # <<>> => b.temporal = <<b.temporal[1]>>
      /\ b.origin \in 1..4 /\ b.state \in 1..10 /\ b.verification \in 1..4
  BY BundleAssumption
<1> DEFINE row == RowOf(b)
           written == [i \in DOMAIN b.temporal |-> [json |-> b.temporal[i]]]
<1>2. Enumerations = {"origin", "state", "verification"}
  BY DEF Enumerations, TextOf
<1>3. /\ row.origin = TextOf.origin[b.origin]
      /\ row.state = TextOf.state[b.state]
      /\ row.verification = TextOf.verification[b.verification]
      /\ row.temporal = written
      /\ row.start = b.start /\ row.end = b.end
      /\ \A f \in Fields : f \notin Enumerations \cup {"temporal"} => row[f] = b[f]
  BY <1>2 DEF Fields, RowOf
<1>4. [i \in DOMAIN written |-> written[i].json] = b.temporal
  <2>1. CASE b.temporal = <<>>
    BY <2>1
  <2>2. CASE b.temporal # <<>>
    <3> DEFINE time == b.temporal[1]
    <3>1. b.temporal = <<time>>
      BY <1>1, <2>2
    <3> HIDE DEF time
    <3>2. written = [i \in DOMAIN <<time>> |-> [json |-> <<time>>[i]]]
      BY <3>1
    <3>3. DOMAIN <<time>> = {1} /\ <<time>>[1] = time
      OBVIOUS
    <3>4. <<time>> = [i \in {1} |-> time]
      OBVIOUS
    <3>5. [i \in DOMAIN written |-> written[i].json] = [i \in {1} |-> time]
      BY <3>2, <3>3
    <3> QED
      BY <3>1, <3>4, <3>5
  <2> QED
    BY <2>1, <2>2
<1>5. /\ VariantOf.origin[row.origin] = b.origin
      /\ VariantOf.state[row.state] = b.state
      /\ VariantOf.verification[row.verification] = b.verification
  BY <1>1, <1>3, VariantsAreParsed
<1>6. ASSUME NEW f \in Fields
      PROVE  Parsed(row)[f] = b[f]
  <2>1. CASE f \in Enumerations
    BY <1>2, <1>5, <2>1 DEF Parsed
  <2>2. CASE f = "temporal"
    <3>1. Parsed(row)[f] = [i \in DOMAIN row.temporal |-> row.temporal[i].json]
      BY <1>2, <2>2 DEF Parsed
    <3> QED
      BY <1>3, <1>4, <2>2, <3>1
  <2>3. CASE f \notin Enumerations \cup {"temporal"}
    BY <1>3, <2>3 DEF Parsed
  <2> QED
    BY <2>1, <2>2, <2>3
<1>7. Parsed(row) = b
  <2>1. Parsed(row) = [f \in Fields |-> Parsed(row)[f]]
    BY DEF Parsed
  <2> QED
    BY <1>1, <1>6, <2>1
<1>8. \A e \in Enumerations : row[e] \in DOMAIN VariantOf[e]
  <2>1. /\ row.origin \in DOMAIN VariantOf.origin
        /\ row.state \in DOMAIN VariantOf.state
        /\ row.verification \in DOMAIN VariantOf.verification
    BY <1>1, <1>3, VariantsAreParsed
  <2> QED
    BY <1>2, <2>1
<1> QED
  BY <1>1, <1>3, <1>7, <1>8

\* A bundle that passed the domain and the schema is readable as a row, and reads
\* as it was: load_provenance and load_claim refuse nothing more.
LEMMA AcceptedIsReadable ==
    ASSUME NEW b \in Bundles, Valid(b), Checked(RowOf(b))
    PROVE  Readable(RowOf(b)) /\ Parsed(RowOf(b)) = b
<1>1. \A n \in In(RowOf(b).start) \cup In(RowOf(b).end) : n >= 0
  BY DEF Checked
<1> QED
  BY <1>1, ParsedRow DEF Readable

\* record_claim stores only rows of bundles that its checks accepted.
LEMMA SubmitStoresAccepted ==
    ASSUME NEW b \in Bundles, Submit(b)
    PROVE  StoredIsAccepted'
<1>1. CASE Answer(b) = "stored"
  <2>1. Valid(b) /\ Checked(RowOf(b))
    BY <1>1 DEF Answer
  <2>2. submitted' = Some(b) /\ stored' = Some(RowOf(b))
    BY <1>1 DEF Submit
  <2>3. In(stored') = {RowOf(b)}
    BY <2>2 DEF In, Some
  <2> QED
    BY <2>1, <2>2, <2>3 DEF StoredIsAccepted, In
<1>2. CASE Answer(b) # "stored"
  <2>1. In(stored') = {}
    BY <1>2 DEF Submit, In, None
  <2> QED
    BY <2>1 DEF StoredIsAccepted, In
<1> QED
  BY <1>1, <1>2

\* What was accepted is readable and reads as submitted, for every set of
\* bundles and every width of integers and texts: the schema's checks and the
\* readers' conversions never refuse or change a row that was stored.
THEOREM RowsAreReadBack == RecordsSpec => []RecordedIsReadBack
<1>1. RecordsInit => StoredIsAccepted
  BY DEF RecordsInit, StoredIsAccepted, In, None
<1>2. StoredIsAccepted /\ [RecordsNext]_records => StoredIsAccepted'
  <2> SUFFICES ASSUME StoredIsAccepted, [RecordsNext]_records
               PROVE  StoredIsAccepted'
    OBVIOUS
  <2>1. ASSUME NEW b \in Bundles, Submit(b) PROVE StoredIsAccepted'
    BY <2>1, SubmitStoresAccepted
  <2>2. CASE UNCHANGED records
    BY <2>2 DEF records, StoredIsAccepted, In
  <2> QED
    BY <2>1, <2>2 DEF RecordsNext
<1>3. StoredIsAccepted => RecordedIsReadBack
  <2> SUFFICES ASSUME StoredIsAccepted, NEW row \in In(stored)
               PROVE  Readable(row) /\ Parsed(row) = submitted[1]
    BY DEF RecordedIsReadBack
  <2>1. PICK b \in Bundles : /\ submitted = Some(b) /\ row = RowOf(b)
                             /\ Valid(b) /\ Checked(row)
    BY DEF StoredIsAccepted
  <2>2. submitted[1] = b
    BY <2>1 DEF Some
  <2> QED
    BY <2>1, <2>2, AcceptedIsReadable
<1> QED
  BY <1>1, <1>2, <1>3, PTL DEF RecordsSpec
=============================================================================
