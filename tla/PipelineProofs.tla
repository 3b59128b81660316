--------------------------- MODULE PipelineProofs ---------------------------
(***************************************************************************)
(* Theorems about the service, for any number of workers and every         *)
(* interleaving of their requests, with a clock that may go back: it       *)
(* implements the serial store.  And about extraction, questions, reviews  *)
(* and corrections side by side, whatever documents hold.                  *)
(***************************************************************************)
EXTENDS Pipeline, ClaimStoreProofs

\* What a request in flight refers to, and the bound on the claims, from
\* which the claim of a request is within its type.
RequestsOK ==
    /\ req \in [Workers -> Requests \cup {Idle}]
    /\ \A w \in Workers : (req[w] # Idle /\ req[w].op # "record")
                              => req[w].claim \in ClaimIds
    /\ clock \in Times
    /\ Len(claims) <= MaxClaims

(***************************************************************************)
(* Each step is a transaction of the store, or leaves the tables alone.    *)
(***************************************************************************)
LEMMA CommitRecordIsRecord ==
    ASSUME RequestsOK, NEW w \in Workers, CommitRecord(w)
    PROVE  StoreNext
<1>1. req[w] \in Requests /\ req[w].op = "record"
  BY DEF RequestsOK, CommitRecord, Serving
<1>2. /\ req[w].key \in Keys /\ req[w].value \in KnowledgeValues
      /\ req[w].now \in Times
  BY <1>1 DEF Requests
<1> QED
  BY <1>2 DEF CommitRecord, StoreNext

LEMMA CommitReviewIsReview ==
    ASSUME RequestsOK, NEW w \in Workers, CommitReview(w) \/ ConflictReview(w)
    PROVE  StoreNext
<1>1. req[w] \in Requests /\ req[w].op = "review" /\ req[w].claim \in ClaimIds
  BY DEF RequestsOK, CommitReview, ConflictReview, Serving
<1>2. req[w].decision \in Decisions /\ req[w].now \in Times
  BY <1>1 DEF Requests
<1> QED
  BY <1>1, <1>2 DEF CommitReview, ConflictReview, StoreNext

LEMMA CommitCorrectIsCorrect ==
    ASSUME RequestsOK, NEW w \in Workers, CommitCorrect(w)
    PROVE  StoreNext
<1>1. req[w] \in Requests /\ req[w].op = "correct" /\ req[w].claim \in ClaimIds
  BY DEF RequestsOK, CommitCorrect, Serving
<1>2. req[w].value \in KnowledgeValues /\ req[w].now \in Times
  BY <1>1 DEF Requests
<1> QED
  BY <1>1, <1>2 DEF CommitCorrect, StoreNext

LEMMA StepImplements ==
    ASSUME RequestsOK, [ServiceNext]_serviceVars
    PROVE  [StoreNext]_tables
<1>1. CASE UNCHANGED serviceVars
  BY <1>1 DEF serviceVars, tables
<1>2. ASSUME NEW w \in Workers, Begin(w)
      PROVE  UNCHANGED tables
  BY <1>2 DEF Begin, BeginRecord, BeginReview, BeginCorrect, Submit
<1>3. ASSUME NEW w \in Workers,
             CommitRecord(w) \/ CommitReview(w) \/ ConflictReview(w)
                 \/ CommitCorrect(w)
      PROVE  StoreNext
  BY <1>3, CommitRecordIsRecord, CommitReviewIsReview, CommitCorrectIsCorrect
<1>4. ASSUME NEW w \in Workers, Abort(w)
      PROVE  UNCHANGED tables
  BY <1>4 DEF Abort
<1>5. ASSUME NEW t \in Times, SetClock(t)
      PROVE  UNCHANGED tables
  BY <1>5 DEF SetClock
<1> QED
  BY <1>1, <1>2, <1>3, <1>4, <1>5 DEF ServiceNext

(***************************************************************************)
(* Requests keep referring to claims that exist.                           *)
(***************************************************************************)
LEMMA ClaimsStay ==
    ASSUME TypeOK, Len(claims) <= MaxClaims, [StoreNext]_tables
    PROVE  ClaimIds \subseteq ClaimIds' /\ Len(claims') <= MaxClaims
<1>1. Len(claims) \in Nat /\ MaxClaims \in Nat
  BY LenProperties, StoreAssumption DEF TypeOK
<1>2. CASE UNCHANGED tables
  BY <1>2 DEF tables, ClaimIds
<1>3. ASSUME NEW k \in Keys, NEW v \in KnowledgeValues, NEW now \in Times,
             Record(k, v, now)
      PROVE  ClaimIds \subseteq ClaimIds' /\ Len(claims') <= MaxClaims
  <2>1. Len(claims) < MaxClaims
    BY <1>3 DEF Record
  <2>2. ClaimIds \subseteq ClaimIds' /\ Len(claims') = Len(claims) + 1
    BY <1>3, RecordGrows DEF Grows
  <2> QED
    BY <1>1, <2>1, <2>2
<1>4. ASSUME NEW c \in ClaimIds, NEW d \in Decisions, NEW now \in Times,
             Review(c, d, now)
      PROVE  ClaimIds \subseteq ClaimIds' /\ Len(claims') <= MaxClaims
  BY <1>4 DEF Review, ClaimIds
<1>5. ASSUME NEW c \in ClaimIds, NEW d \in Decisions, RefuseReview(c, d)
      PROVE  ClaimIds \subseteq ClaimIds' /\ Len(claims') <= MaxClaims
  BY <1>2, <1>5 DEF RefuseReview
<1>6. ASSUME NEW c \in ClaimIds, NEW v \in KnowledgeValues,
             NEW now \in Times, NEW affected \in SUBSET Derivations,
             Correct(c, v, now, affected)
      PROVE  ClaimIds \subseteq ClaimIds' /\ Len(claims') <= MaxClaims
  <2>1. Len(claims) < MaxClaims
    BY <1>6 DEF Correct
  <2>2. ClaimIds \subseteq ClaimIds' /\ Len(claims') = Len(claims) + 1
    BY <1>6, CorrectGrows DEF Grows
  <2> QED
    BY <1>1, <2>1, <2>2
<1> QED
  BY <1>2, <1>3, <1>4, <1>5, <1>6 DEF StoreNext

LEMMA StepKeepsRequests ==
    ASSUME TypeOK, RequestsOK, [ServiceNext]_serviceVars
    PROVE  RequestsOK'
<1>1. ClaimIds \subseteq ClaimIds' /\ Len(claims') <= MaxClaims
  BY StepImplements, ClaimsStay DEF RequestsOK
<1>2. ASSUME NEW w \in Workers, NEW request \in Requests, Submit(w, request),
             request.op # "record" => request.claim \in ClaimIds
      PROVE  RequestsOK'
  BY <1>1, <1>2 DEF Submit, RequestsOK
<1>3. ASSUME NEW w \in Workers, Begin(w)
      PROVE  RequestsOK'
  <2>1. clock \in Times
    BY DEF RequestsOK
  <2>2. ASSUME NEW k \in Keys, NEW v \in KnowledgeValues, BeginRecord(w, k, v)
        PROVE  RequestsOK'
    BY <1>2, <2>1, <2>2 DEF BeginRecord, Requests
  <2>3. ClaimIds \subseteq 1..MaxClaims
    BY LenProperties, StoreAssumption DEF RequestsOK, TypeOK, ClaimIds
  <2>4. ASSUME NEW c \in ClaimIds, NEW d \in Decisions, BeginReview(w, c, d)
        PROVE  RequestsOK'
    BY <1>2, <2>1, <2>3, <2>4 DEF BeginReview, Requests
  <2>5. ASSUME NEW c \in ClaimIds, NEW v \in KnowledgeValues,
               BeginCorrect(w, c, v)
        PROVE  RequestsOK'
    BY <1>2, <2>1, <2>3, <2>5 DEF BeginCorrect, Requests
  <2> QED
    BY <1>3, <2>2, <2>4, <2>5 DEF Begin, Existing
<1>4. ASSUME NEW w \in Workers, Done(w)
      PROVE  RequestsOK'
  BY <1>1, <1>4 DEF Done, RequestsOK
<1>5. ASSUME NEW t \in Times, SetClock(t)
      PROVE  RequestsOK'
  BY <1>1, <1>5 DEF SetClock, RequestsOK
<1>6. CASE UNCHANGED serviceVars
  BY <1>1, <1>6 DEF serviceVars, RequestsOK
<1> QED
  BY <1>3, <1>4, <1>5, <1>6
  DEF ServiceNext, CommitRecord, CommitReview, ConflictReview, CommitCorrect,
      Abort

LEMMA ServiceInitOK ==
    ASSUME ServiceInit
    PROVE  StoreInit /\ TypeOK /\ RequestsOK
<1>1. StoreInit /\ TypeOK
  BY InitType DEF ServiceInit
<1>2. Len(claims) = 0 /\ 0 \in Times /\ 0 <= MaxClaims
  BY StoreAssumption DEF ServiceInit, StoreInit, Times
<1> QED
  BY <1>1, <1>2 DEF ServiceInit, RequestsOK

\* Whatever the interleaving of the workers and however the clock is set, the
\* tables change only as one transaction of the store at a time changes them.
THEOREM ServiceImplementsStore == ServiceSpec => StoreSpec
<1>1. ServiceInit => StoreInit /\ TypeOK /\ RequestsOK
  BY ServiceInitOK
<1>2. TypeOK /\ RequestsOK /\ [ServiceNext]_serviceVars
          => TypeOK' /\ RequestsOK' /\ [StoreNext]_tables
  BY StepImplements, StepType, StepKeepsRequests
<1> QED
  BY <1>1, <1>2, PTL DEF ServiceSpec, StoreSpec

\* A request in flight names a claim that exists, until its transaction runs:
\* ensure_claim_exists does not fail after get_claim has succeeded.
THEOREM ServiceTypeCorrect == ServiceSpec => []ServiceTypeOK
<1>1. ServiceInit => TypeOK /\ RequestsOK
  BY ServiceInitOK
<1>2. TypeOK /\ RequestsOK /\ [ServiceNext]_serviceVars
          => TypeOK' /\ RequestsOK'
  BY StepImplements, StepType, StepKeepsRequests
<1>3. TypeOK /\ RequestsOK => ServiceTypeOK
  BY DEF RequestsOK, ServiceTypeOK
<1> QED
  BY <1>1, <1>2, <1>3, PTL DEF ServiceSpec

\* So every invariant of the store holds of the service; of its facts:
COROLLARY ServiceKeepsFacts ==
    ServiceSpec => [](FactsMatchVerifications /\ EstablishedHasFact)
  BY ServiceImplementsStore, FactsAreVerifications, EstablishedHasFactAlways,
     PTL

(***************************************************************************)
(* What is written about a claim stays: the tables a transaction leaves.   *)
(***************************************************************************)
LEMMA StepGrows ==
    ASSUME TypeOK, [StoreNext]_tables
    PROVE  Grows /\ facts \subseteq facts' /\ edges \subseteq edges'
<1>1. CASE UNCHANGED tables
  BY <1>1 DEF tables, Grows, ClaimIds
<1>2. CASE \E k \in Keys, v \in KnowledgeValues, now \in Times :
              Record(k, v, now)
  <2>1. PICK k \in Keys, v \in KnowledgeValues, now \in Times : Record(k, v, now)
    BY <1>2
  <2>2. Grows
    BY <2>1, RecordGrows
  <2> QED
    BY <2>1, <2>2 DEF Record
<1>3. CASE \E c \in ClaimIds, d \in Decisions, now \in Times : Review(c, d, now)
  BY <1>3, ReviewGrows DEF Review, FactsAfter
<1>4. CASE \E c \in ClaimIds, d \in Decisions : RefuseReview(c, d)
  BY <1>1, <1>4 DEF RefuseReview
<1>5. CASE \E c \in ClaimIds, v \in KnowledgeValues, now \in Times,
              affected \in SUBSET Derivations : Correct(c, v, now, affected)
  BY <1>5, CorrectGrows DEF Correct
<1> QED
  BY <1>1, <1>2, <1>3, <1>4, <1>5 DEF StoreNext

LEMMA ClaimFacts ==
    ASSUME TypeOK, NEW c \in ClaimIds
    PROVE  /\ claims[c].key \in Keys /\ claims[c].value \in KnowledgeValues
           /\ claims[c].origin \in Origins
<1>1. claims[c] \in Claim
  BY ElementOfSeq DEF TypeOK, ClaimIds
<1> QED
  BY <1>1 DEF Claim

(***************************************************************************)
(* A claim that arrives corroborates every earlier one of its key and its  *)
(* value that is not withdrawn.                                            *)
(***************************************************************************)
Alike(a, b) ==
    /\ claims[a].key = claims[b].key /\ claims[a].value = claims[b].value
    /\ claims[b].value \in Known

Corroborated(a, b) ==
    \/ Edge(b, "corroborates", a) \in edges
    \/ WithdrawnBefore(a, claims[b].txn)

ArrivalsCorroborate ==
    \A a, b \in ClaimIds :
        (a < b /\ claims[b].origin = "external" /\ Alike(a, b))
            => Corroborated(a, b)

LEMMA CorroboratedStays ==
    ASSUME TypeOK, Grows, edges \subseteq edges', NEW a \in ClaimIds,
           NEW b \in ClaimIds, Corroborated(a, b)
    PROVE  Corroborated(a, b)'
<1>1. PICK t : t = claims[b].txn
  OBVIOUS
<1>2. t \in Nat /\ t <= NextTxn /\ claims'[b] = claims[b]
  BY <1>1, LenProperties DEF TypeOK, Txns, NextTxn, Grows
<1>3. WithdrawnBefore(a, t)' = WithdrawnBefore(a, t)
  BY <1>2, PastIsFixed
<1>4. /\ WithdrawnBefore(a, claims[b].txn) = WithdrawnBefore(a, t)
      /\ WithdrawnBefore(a, claims[b].txn)' = WithdrawnBefore(a, t)'
  BY <1>1, <1>2 DEF WithdrawnBefore, RowsBefore
<1> QED
  BY <1>3, <1>4 DEF Corroborated, Edge

LEMMA RecordCorroborates ==
    ASSUME TypeOK, ArrivalsCorroborate, NEW k \in Keys,
           NEW v \in KnowledgeValues, NEW now \in Times, Record(k, v, now)
    PROVE  ArrivalsCorroborate'
<1>1. PICK new, t : new = Len(claims) + 1 /\ t = NextTxn
  OBVIOUS
<1>2. /\ Grows /\ ClaimIds' = ClaimIds \cup {new} /\ new \notin ClaimIds
      /\ claims'[new] = [key |-> k, value |-> v, origin |-> "external",
                         txn |-> t]
      /\ \A a, b \in ClaimIds' : a < b => a \in ClaimIds
  BY <1>1, RecordGrows
<1>3. edges \subseteq edges'
      /\ \A p \in Agreeing(k, v) : Edge(new, "corroborates", p) \in edges'
  BY <1>1 DEF Record
<1>4. ASSUME NEW a \in ClaimIds, NEW b \in ClaimIds, a < b,
             claims'[b].origin = "external", Alike(a, b)'
      PROVE  Corroborated(a, b)'
  <2>1. claims[b].origin = "external" /\ Alike(a, b)
    BY <1>2, <1>4 DEF Grows, Alike
  <2>2. Corroborated(a, b)
    BY <1>4, <2>1 DEF ArrivalsCorroborate
  <2> QED
    BY <1>2, <1>3, <2>2, CorroboratedStays
<1>5. ASSUME NEW a \in ClaimIds, Alike(a, new)'
      PROVE  Corroborated(a, new)'
  <2>1. claims[a].key = k /\ claims[a].value = v /\ v \in Known
    BY <1>2, <1>5 DEF Alike, Grows
  <2>2. CASE Withdrawn(a)
    <3>1. t \in Nat /\ t <= NextTxn
      BY <1>1, LenProperties DEF TypeOK, NextTxn
    <3>2. WithdrawnBefore(a, t)' = WithdrawnBefore(a, t)
      BY <1>2, <3>1, PastIsFixed
    <3>3. WithdrawnBefore(a, t)'
      BY <1>1, <2>2, <3>2, PastIsPresent
    <3>4. WithdrawnBefore(a, claims[new].txn)' = WithdrawnBefore(a, t)'
      BY <1>2 DEF WithdrawnBefore, RowsBefore
    <3> QED
      BY <3>3, <3>4 DEF Corroborated
  <2>3. CASE ~Withdrawn(a)
    <3>1. a \in Agreeing(k, v)
      BY <2>1, <2>3 DEF Agreeing, Priors, Comparable
    <3> QED
      BY <1>3, <3>1 DEF Corroborated, Edge
  <2> QED
    BY <2>2, <2>3
<1> QED
  BY <1>2, <1>4, <1>5 DEF ArrivalsCorroborate

LEMMA StoreCorroborates ==
    ASSUME TypeOK, ArrivalsCorroborate, [StoreNext]_tables
    PROVE  ArrivalsCorroborate'
<1>1. Grows /\ edges \subseteq edges'
  BY StepGrows
<1>2. ASSUME NEW a \in ClaimIds, NEW b \in ClaimIds, a < b,
             claims'[b].origin = "external", Alike(a, b)'
      PROVE  Corroborated(a, b)'
  <2>1. claims[b].origin = "external" /\ Alike(a, b)
    BY <1>1, <1>2 DEF Grows, Alike
  <2>2. Corroborated(a, b)
    BY <1>2, <2>1 DEF ArrivalsCorroborate
  <2> QED
    BY <1>1, <2>2, CorroboratedStays
<1>3. CASE ClaimIds' = ClaimIds
  BY <1>2, <1>3 DEF ArrivalsCorroborate
<1>4. ASSUME NEW k \in Keys, NEW v \in KnowledgeValues, NEW now \in Times,
             Record(k, v, now)
      PROVE  ArrivalsCorroborate'
  BY <1>4, RecordCorroborates
<1>5. ASSUME NEW c \in ClaimIds, NEW v \in KnowledgeValues, NEW now \in Times,
             NEW affected \in SUBSET Derivations, Correct(c, v, now, affected)
      PROVE  ArrivalsCorroborate'
  <2>1. PICK new : new = Len(claims) + 1
    OBVIOUS
  <2>2. /\ ClaimIds' = ClaimIds \cup {new}
        /\ claims'[new].origin = "human"
        /\ \A a, b \in ClaimIds' : a < b => a \in ClaimIds
    <3>1. claims'[Len(claims) + 1] =
              [key |-> claims[c].key, value |-> v, origin |-> "human",
               txn |-> NextTxn]
      BY <1>5, CorrectGrows
    <3> QED
      BY <1>5, <2>1, <3>1, CorrectGrows
  <2> QED
    BY <1>2, <2>2 DEF ArrivalsCorroborate
<1>6. ASSUME NEW c \in ClaimIds, NEW d \in Decisions,
             RefuseReview(c, d) \/ \E now \in Times : Review(c, d, now)
      PROVE  ArrivalsCorroborate'
  BY <1>3, <1>6 DEF RefuseReview, Review, tables, ClaimIds
<1>7. CASE UNCHANGED tables
  BY <1>3, <1>7 DEF tables, ClaimIds
<1> QED
  BY <1>4, <1>5, <1>6, <1>7 DEF StoreNext

(***************************************************************************)
(* What a worker's extraction has recorded and is about to record.         *)
(***************************************************************************)
Statuses == {"claims", "ingested", "error"}

Extracting == [step : {"running"}, document : Documents, claims : Seq(Nat)]
Replied == [step : {"replied"}, document : Documents, claims : Seq(Nat),
            status : Statuses]

WorkerStates == {NoExtraction} \cup Extracting \cup Replied

\* told are the claims of the first fields of d.
Tells(told, d) ==
    /\ Len(told) <= Len(FieldsOf[d])
    /\ \A i \in 1..Len(told) :
          /\ told[i] \in ClaimIds
          /\ claims[told[i]].key = FieldsOf[d][i].key
          /\ claims[told[i]].value = FieldsOf[d][i].value

\* request is to record the field after those of told.
IsNext(request, told, d) ==
    /\ Len(told) < Len(FieldsOf[d]) /\ request.op = "record"
    /\ request.key = FieldsOf[d][Len(told) + 1].key
    /\ request.value = FieldsOf[d][Len(told) + 1].value

\* A worker whose extraction is at s has request in flight.
Works(s, request) ==
    /\ s.step # "none" => Tells(s.claims, s.document)
    /\ s.step = "running" =>
          /\ RefusalOf[s.document] # "none" => s.claims = <<>> /\ request = Idle
          /\ request # Idle => IsNext(request, s.claims, s.document)
    /\ s.step = "replied" =>
          /\ request = Idle
          /\ s.status = "claims" => Len(s.claims) = Len(FieldsOf[s.document])
          /\ (Len(s.claims) = Len(FieldsOf[s.document])
                  /\ FieldsOf[s.document] # <<>>) => s.status = "claims"

ExtractionsOK ==
    /\ extraction \in [Workers -> WorkerStates]
    /\ \A w \in Workers : Works(extraction[w], req[w])

LEMMA FieldFacts ==
    ASSUME NEW d \in Documents
    PROVE  /\ FieldsOf[d] \in Seq([key : Keys, value : KnowledgeValues,
                                   accepted : BOOLEAN])
           /\ Len(FieldsOf[d]) \in Nat
           /\ \A i \in 1..Len(FieldsOf[d]) :
                 FieldsOf[d][i].key \in Keys
                     /\ FieldsOf[d][i].value \in KnowledgeValues
           /\ RefusalOf[d] = "none" => FieldsOf[d] # <<>>
           /\ FieldsOf[d] = <<>> <=> Len(FieldsOf[d]) = 0
<1>1. FieldsOf[d] \in Seq([key : Keys, value : KnowledgeValues,
                           accepted : BOOLEAN])
  BY PipelineAssumption
<1>2. \A i \in 1..Len(FieldsOf[d]) :
         FieldsOf[d][i] \in [key : Keys, value : KnowledgeValues,
                             accepted : BOOLEAN]
  BY <1>1, ElementOfSeq
<1> QED
  BY <1>1, <1>2, PipelineAssumption, LenProperties, EmptySeq

LEMMA WorkerFacts ==
    ASSUME NEW s \in WorkerStates
    PROVE  /\ s.step = "running" => s \in Extracting
           /\ s.step = "replied" => s \in Replied
           /\ s.step = "none" => s = NoExtraction
           /\ s.step \in {"none", "running", "replied"}
           /\ s.step # "none" => /\ s.document \in Documents
                                 /\ s.claims \in Seq(Nat)
                                 /\ Len(s.claims) \in Nat
<1>1. /\ s.step = "running" => s \in Extracting
      /\ s.step = "replied" => s \in Replied
      /\ s.step = "none" => s = NoExtraction
      /\ s.step \in {"none", "running", "replied"}
  BY DEF WorkerStates, Extracting, Replied, NoExtraction
<1> QED
  BY <1>1, LenProperties DEF Extracting, Replied

\* Claims that were told stay as they were recorded.
LEMMA WorksStays ==
    ASSUME Grows, NEW s, NEW request, Works(s, request)
    PROVE  Works(s, request)'
<1>1. ASSUME NEW told, NEW d, Tells(told, d)
      PROVE  Tells(told, d)'
  BY <1>1 DEF Tells, Grows
<1>2. s.step # "none" => Tells(s.claims, s.document)'
  BY <1>1 DEF Works
<1> QED
  BY <1>2 DEF Works, IsNext

\* Worker w gets to s with request, the others stay where they are.
Turns(w, s, request) ==
    /\ extraction' = [extraction EXCEPT ![w] = s]
    /\ req' = [req EXCEPT ![w] = request]

LEMMA TurnKeeps ==
    ASSUME TypeOK, ExtractionsOK, Grows, DOMAIN req = Workers,
           NEW w \in Workers, NEW s \in WorkerStates, NEW request,
           Turns(w, s, request), Works(s, request)'
    PROVE  ExtractionsOK'
<1>1. extraction' \in [Workers -> WorkerStates]
  BY DEF ExtractionsOK, Turns
<1>2. ASSUME NEW u \in Workers
      PROVE  \E t, r : t = extraction'[u] /\ r = req'[u] /\ Works(t, r)'
  <2>1. CASE u = w
    <3>1. extraction'[u] = s /\ req'[u] = request
      BY <2>1 DEF Turns, ExtractionsOK
    <3> QED
      BY <3>1
  <2>2. CASE u # w
    <3>1. PICK t, r : t = extraction[u] /\ r = req[u]
      OBVIOUS
    <3>2. Works(t, r)
      BY <3>1 DEF ExtractionsOK
    <3>3. Works(t, r)'
      BY <3>2, WorksStays
    <3>4. extraction'[u] = t /\ req'[u] = r
      BY <2>2, <3>1 DEF Turns, ExtractionsOK
    <3> QED
      BY <3>3, <3>4
  <2> QED
    BY <2>1, <2>2
<1>3. ASSUME NEW u \in Workers
      PROVE  Works(extraction[u], req[u])'
  <2>1. PICK t, r : t = extraction'[u] /\ r = req'[u] /\ Works(t, r)'
    BY <1>2
  <2> QED
    BY <2>1 DEF Works, Tells, IsNext
<1> QED
  BY <1>1, <1>3 DEF ExtractionsOK

(***************************************************************************)
(* The steps of an extraction.                                             *)
(***************************************************************************)
ServiceStep == [ServiceNext]_serviceVars

PipelineOK == TypeOK /\ RequestsOK /\ ExtractionsOK

\* The goal of the lemmas: a step of the service after which w is at s.
Advances(w) ==
    /\ ServiceStep
    /\ \E s, request :
          s \in WorkerStates /\ Turns(w, s, request) /\ Works(s, request)

LEMMA RunningFacts ==
    ASSUME PipelineOK, NEW w \in Workers, Running(w)
    PROVE  \E d \in Documents, told \in Seq(Nat) :
              /\ extraction[w] = [step |-> "running", document |-> d,
                                  claims |-> told]
              /\ Fields(w) = FieldsOf[d] /\ Position(w) = Len(told) + 1
              /\ Len(told) \in Nat /\ Tells(told, d)
              /\ RefusalOf[d] # "none" => told = <<>> /\ req[w] = Idle
              /\ req[w] # Idle => IsNext(req[w], told, d)
<1>1. extraction[w] \in WorkerStates /\ Works(extraction[w], req[w])
  BY DEF PipelineOK, ExtractionsOK
<1>2. extraction[w] \in Extracting
  BY <1>1, WorkerFacts DEF Running
<1>3. PICK d, told : d = extraction[w].document /\ told = extraction[w].claims
  OBVIOUS
<1>4. /\ d \in Documents /\ told \in Seq(Nat)
      /\ extraction[w] = [step |-> "running", document |-> d, claims |-> told]
  BY <1>2, <1>3 DEF Extracting
<1>5. /\ Fields(w) = FieldsOf[d] /\ Position(w) = Len(told) + 1
  BY <1>3 DEF Fields, Position
<1>6. /\ Tells(told, d)
      /\ RefusalOf[d] # "none" => told = <<>> /\ req[w] = Idle
      /\ req[w] # Idle => IsNext(req[w], told, d)
  BY <1>1, <1>3, <1>4 DEF Works
<1>7. Len(told) \in Nat
  BY <1>4, LenProperties
<1> QED
  BY <1>4, <1>5, <1>6, <1>7

\* A reply that tells the claims is given only for a complete document.
LEMMA ReplyAdvances ==
    ASSUME PipelineOK, NEW w \in Workers, NEW d \in Documents,
           NEW told \in Seq(Nat), NEW outcome,
           extraction[w] = [step |-> "running", document |-> d, claims |-> told],
           Tells(told, d), Reply(w, outcome),
           outcome = "complete" => Len(told) = Len(FieldsOf[d]),
           (Len(told) = Len(FieldsOf[d]) /\ FieldsOf[d] # <<>>)
               => outcome = "complete",
           ServiceStep, req' = [req EXCEPT ![w] = Idle]
    PROVE  Advances(w)
<1>1. PICK face \in Faces :
         extraction' = [extraction EXCEPT ![w] =
                            [step |-> "replied",
                             document |-> extraction[w].document,
                             claims |-> extraction[w].claims,
                             status |-> Status(face, outcome)]]
  BY DEF Reply
<1>2. PICK s, status : /\ status = Status(face, outcome)
                       /\ s = [step |-> "replied", document |-> d,
                               claims |-> told, status |-> status]
  OBVIOUS
<1>3. status \in Statuses /\ (status = "claims" <=> outcome = "complete")
  BY <1>2 DEF Status, Statuses
<1>4. s \in WorkerStates
  BY <1>2, <1>3 DEF WorkerStates, Replied
<1>5. extraction' = [extraction EXCEPT ![w] = s]
  BY <1>1, <1>2
<1>6. Works(s, Idle)
  BY <1>2, <1>3 DEF Works
<1> QED
  BY <1>4, <1>5, <1>6 DEF Advances, Turns

LEMMA SameRequests ==
    ASSUME PipelineOK, NEW w \in Workers, UNCHANGED serviceVars
    PROVE  ServiceStep /\ req' = [req EXCEPT ![w] = req[w]]
  BY DEF PipelineOK, RequestsOK, ServiceStep, serviceVars

LEMMA BeginAdvances ==
    ASSUME PipelineOK, NEW w \in Workers, NEW d \in Documents,
           BeginExtraction(w, d)
    PROVE  Advances(w)
<1>1. PICK s : s = [step |-> "running", document |-> d, claims |-> <<>>]
  OBVIOUS
<1>2. s \in WorkerStates
  BY <1>1, EmptySeq DEF WorkerStates, Extracting
<1>3. /\ req[w] = Idle /\ UNCHANGED serviceVars
      /\ extraction' = [extraction EXCEPT ![w] = s]
  BY <1>1 DEF BeginExtraction, queryVars
<1>4. ServiceStep /\ Turns(w, s, Idle)
  BY <1>3, SameRequests DEF Turns
<1>5. Tells(<<>>, d)
  BY FieldFacts, EmptySeq DEF Tells
<1>6. Works(s, Idle)
  BY <1>1, <1>5 DEF Works
<1> QED
  BY <1>2, <1>4, <1>6 DEF Advances

LEMMA RepliesAdvance ==
    ASSUME PipelineOK, NEW w \in Workers,
           \/ RefuseDocument(w) \/ RejectField(w) \/ FailExtraction(w)
           \/ Complete(w)
    PROVE  Advances(w)
<1>0. Running(w)
  BY DEF RefuseDocument, RejectField, HasField, FailExtraction, Complete
<1>1. PICK d \in Documents, told \in Seq(Nat) :
         /\ extraction[w] = [step |-> "running", document |-> d,
                             claims |-> told]
         /\ Fields(w) = FieldsOf[d] /\ Position(w) = Len(told) + 1
         /\ Len(told) \in Nat /\ Tells(told, d)
         /\ RefusalOf[d] # "none" => told = <<>> /\ req[w] = Idle
         /\ req[w] # Idle => IsNext(req[w], told, d)
  BY <1>0, RunningFacts
<1>2. /\ extraction[w].document = d
      /\ Len(FieldsOf[d]) \in Nat /\ Len(told) <= Len(FieldsOf[d])
      /\ FieldsOf[d] = <<>> <=> Len(FieldsOf[d]) = 0
      /\ told = <<>> => Len(told) = 0
  BY <1>1, FieldFacts, EmptySeq DEF Tells
<1>3. CASE RefuseDocument(w)
  <2>1. /\ Reply(w, RefusalOf[d]) /\ RefusalOf[d] # "none"
        /\ UNCHANGED serviceVars
    BY <1>2, <1>3 DEF RefuseDocument
  <2>2. RefusalOf[d] # "complete"
    BY PipelineAssumption DEF Refusals
  <2>3. ServiceStep /\ req' = [req EXCEPT ![w] = Idle]
    BY <1>1, <2>1, SameRequests
  <2> QED
    BY <1>1, <1>2, <2>1, <2>2, <2>3, ReplyAdvances
<1>4. CASE RejectField(w)
  <2>1. /\ Reply(w, "validation_rejected") /\ UNCHANGED serviceVars
        /\ req[w] = Idle /\ Len(told) + 1 <= Len(FieldsOf[d])
    BY <1>1, <1>4 DEF RejectField, HasField
  <2>2. ServiceStep /\ req' = [req EXCEPT ![w] = Idle]
    BY <2>1, SameRequests
  <2>3. Len(told) # Len(FieldsOf[d])
    BY <1>1, <1>2, <2>1
  <2> QED
    BY <1>1, <1>2, <2>1, <2>2, <2>3, ReplyAdvances
<1>5. CASE FailExtraction(w)
  <2>1. Reply(w, "internal")
    BY <1>5 DEF FailExtraction, OutcomeOfError
  <2>2. CASE Abort(w)
    <3>1. ServiceStep
      BY <2>2 DEF ServiceStep, ServiceNext
    <3>2. req[w] # Idle /\ req' = [req EXCEPT ![w] = Idle]
      BY <2>2 DEF Abort, Done
    <3>3. Len(told) # Len(FieldsOf[d])
      BY <1>1, <1>2, <3>2 DEF IsNext
    <3> QED
      BY <1>1, <1>2, <2>1, <3>1, <3>2, <3>3, ReplyAdvances
  <2>3. CASE ~Abort(w)
    <3>1. /\ UNCHANGED serviceVars /\ req[w] = Idle
          /\ Len(told) + 1 <= Len(FieldsOf[d]) \/ FieldsOf[d] = <<>>
      BY <1>1, <1>5, <2>3 DEF FailExtraction
    <3>2. ServiceStep /\ req' = [req EXCEPT ![w] = Idle]
      BY <3>1, SameRequests
    <3>3. Len(told) # Len(FieldsOf[d]) \/ FieldsOf[d] = <<>>
      BY <1>1, <1>2, <3>1
    <3> QED
      BY <1>1, <1>2, <2>1, <3>2, <3>3, ReplyAdvances
  <2> QED
    BY <2>2, <2>3
<1>6. CASE Complete(w)
  <2>1. /\ Reply(w, "complete") /\ UNCHANGED serviceVars
        /\ Len(told) + 1 > Len(FieldsOf[d])
    BY <1>1, <1>6 DEF Complete
  <2>2. Len(told) = Len(FieldsOf[d])
    BY <1>1, <1>2, <2>1
  <2>3. req[w] = Idle
    BY <1>1, <2>2 DEF IsNext
  <2>4. ServiceStep /\ req' = [req EXCEPT ![w] = Idle]
    BY <2>1, <2>3, SameRequests
  <2> QED
    BY <1>1, <2>1, <2>2, <2>4, ReplyAdvances
<1> QED
  BY <1>3, <1>4, <1>5, <1>6

LEMMA SubmitAdvances ==
    ASSUME PipelineOK, NEW w \in Workers, SubmitField(w)
    PROVE  Advances(w)
<1>0. Running(w) /\ RefusalOf[extraction[w].document] = "none"
  BY DEF SubmitField, HasField
<1>1. PICK d \in Documents, told \in Seq(Nat) :
         /\ extraction[w] = [step |-> "running", document |-> d,
                             claims |-> told]
         /\ Fields(w) = FieldsOf[d] /\ Position(w) = Len(told) + 1
         /\ Len(told) \in Nat /\ Tells(told, d)
  BY <1>0, RunningFacts
<1>2. PICK k, v : /\ k = FieldsOf[d][Len(told) + 1].key
                  /\ v = FieldsOf[d][Len(told) + 1].value
  OBVIOUS
<1>3. /\ BeginRecord(w, k, v) /\ extraction' = extraction
      /\ Len(told) + 1 <= Len(FieldsOf[d]) /\ RefusalOf[d] = "none"
  BY <1>0, <1>1, <1>2 DEF SubmitField, HasField
<1>4. k \in Keys /\ v \in KnowledgeValues /\ Len(told) < Len(FieldsOf[d])
  <2>1. Len(told) + 1 \in 1..Len(FieldsOf[d]) /\ Len(told) < Len(FieldsOf[d])
    BY <1>1, <1>3, FieldFacts
  <2> QED
    BY <1>2, <2>1, FieldFacts
<1>5. ServiceStep
  BY <1>3, <1>4 DEF ServiceStep, ServiceNext, Begin
<1>6. PICK request : request = [op |-> "record", key |-> k, value |-> v,
                                now |-> clock]
  OBVIOUS
<1>7. PICK s : s = extraction[w]
  OBVIOUS
<1>8. s \in WorkerStates /\ extraction \in [Workers -> WorkerStates]
  BY <1>7 DEF PipelineOK, ExtractionsOK
<1>9. Turns(w, s, request)
  BY <1>3, <1>6, <1>7, <1>8 DEF Turns, BeginRecord, Submit
<1>10. Works(s, request)
  BY <1>1, <1>2, <1>3, <1>4, <1>6, <1>7 DEF Works, IsNext
<1> QED
  BY <1>5, <1>8, <1>9, <1>10 DEF Advances

LEMMA EndAdvances ==
    ASSUME PipelineOK, NEW w \in Workers, EndExtraction(w)
    PROVE  Advances(w)
<1>1. /\ req[w] = Idle /\ UNCHANGED serviceVars
      /\ extraction' = [extraction EXCEPT ![w] = NoExtraction]
  BY DEF EndExtraction, queryVars
<1>2. ServiceStep /\ Turns(w, NoExtraction, Idle)
  BY <1>1, SameRequests DEF Turns
<1>3. NoExtraction \in WorkerStates /\ Works(NoExtraction, Idle)
  BY DEF WorkerStates, NoExtraction, Works
<1> QED
  BY <1>2, <1>3 DEF Advances

LEMMA TellingMore ==
    ASSUME NEW d, NEW told, NEW longer
    PROVE  [[step |-> "running", document |-> d, claims |-> told]
               EXCEPT !.claims = longer]
           = [step |-> "running", document |-> d, claims |-> longer]
  OBVIOUS

\* What CommitField does: one more claim is told, of the next field.
LEMMA CommitFieldFacts ==
    ASSUME PipelineOK, NEW w \in Workers, CommitField(w)
    PROVE  /\ ServiceStep /\ Grows
           /\ \E d, told, new, i :
                 /\ d \in Documents /\ told \in Seq(Nat)
                 /\ new = Len(claims) + 1 /\ new \in ClaimIds'
                 /\ new \notin ClaimIds /\ ClaimIds' = ClaimIds \cup {new}
                 /\ RefusalOf[d] = "none" /\ Tells(told, d)
                 /\ i = Len(told) + 1 /\ i \in 1..Len(FieldsOf[d])
                 /\ claims'[new].key = FieldsOf[d][i].key
                 /\ claims'[new].value = FieldsOf[d][i].value
                 /\ claims'[new].origin = "external"
                 /\ provenance' = provenance
                       \cup {[claim |-> new, document |-> d, field |-> i]}
                 /\ Turns(w, [step |-> "running", document |-> d,
                              claims |-> Append(told, new)], Idle)
<1>0. Running(w) /\ CommitRecord(w) /\ req[w] # Idle /\ TypeOK /\ RequestsOK
  BY DEF CommitField, CommitRecord, Serving, PipelineOK
<1>1. PICK d \in Documents, told \in Seq(Nat) :
         /\ extraction[w] = [step |-> "running", document |-> d,
                             claims |-> told]
         /\ Position(w) = Len(told) + 1
         /\ Len(told) \in Nat /\ Tells(told, d)
         /\ RefusalOf[d] = "none" /\ IsNext(req[w], told, d)
  BY <1>0, RunningFacts
<1>2. PICK new, i : new = Len(claims) + 1 /\ i = Len(told) + 1
  OBVIOUS
<1>3. i \in 1..Len(FieldsOf[d])
  BY <1>1, <1>2, FieldFacts DEF IsNext
<1>4. /\ req[w].key \in Keys /\ req[w].value \in KnowledgeValues
      /\ req[w].now \in Times
  <2>1. req[w] \in Requests /\ req[w].op = "record"
    BY <1>0 DEF RequestsOK, CommitRecord, Serving
  <2> QED
    BY <2>1 DEF Requests
<1>5. Record(req[w].key, req[w].value, req[w].now) /\ Done(w)
  BY <1>0 DEF CommitRecord
<1>6. /\ Grows /\ ClaimIds' = ClaimIds \cup {new} /\ new \notin ClaimIds
      /\ Len(claims') = new
      /\ claims'[new] = [key |-> req[w].key, value |-> req[w].value,
                         origin |-> "external", txn |-> NextTxn]
  BY <1>0, <1>2, <1>4, <1>5, RecordGrows
<1>7. /\ claims'[new].key = FieldsOf[d][i].key
      /\ claims'[new].value = FieldsOf[d][i].value
      /\ claims'[new].origin = "external"
  BY <1>1, <1>2, <1>6 DEF IsNext
<1>8. provenance' = provenance
         \cup {[claim |-> new, document |-> d, field |-> i]}
  BY <1>1, <1>2, <1>6 DEF CommitField
<1>9. PICK s : s = [step |-> "running", document |-> d,
                    claims |-> Append(told, new)]
  OBVIOUS
<1>10. extraction' = [extraction EXCEPT ![w] = s]
  <2>1. extraction' = [extraction EXCEPT ![w].claims = Append(@, new)]
    BY <1>6 DEF CommitField
  <2>2. PICK e, longer : e = extraction[w] /\ longer = Append(told, new)
    OBVIOUS
  <2>3. e = [step |-> "running", document |-> d, claims |-> told]
    BY <1>1, <2>2
  <2>4. [e EXCEPT !.claims = longer] = s
    <3>1. s = [step |-> "running", document |-> d, claims |-> longer]
      BY <1>9, <2>2
    <3>2. [e EXCEPT !.claims = longer]
              = [[step |-> "running", document |-> d, claims |-> told]
                     EXCEPT !.claims = longer]
      BY ONLY <2>3, Zenon
    <3>3. [[step |-> "running", document |-> d, claims |-> told]
              EXCEPT !.claims = longer]
          = [step |-> "running", document |-> d, claims |-> longer]
      BY TellingMore
    <3> QED
      BY <3>1, <3>2, <3>3
  <2>5. longer = Append(e.claims, new)
    BY <2>2, <2>3
  <2>6. extraction' = [extraction EXCEPT ![w] = [e EXCEPT !.claims = longer]]
    BY <2>1, <2>2, <2>5
  <2> QED
    BY <2>4, <2>6
<1>11. Turns(w, s, Idle)
  BY <1>5, <1>10 DEF Turns, Done
<1>12. ServiceStep
  BY <1>0 DEF ServiceStep, ServiceNext
<1> QED
  BY <1>1, <1>2, <1>3, <1>6, <1>7, <1>8, <1>9, <1>11, <1>12

LEMMA CommitAdvances ==
    ASSUME PipelineOK, NEW w \in Workers, CommitField(w)
    PROVE  ServiceStep /\ ExtractionsOK'
<1>1. ServiceStep /\ Grows
  BY CommitFieldFacts
<1>2. PICK d, told, new, i :
         /\ d \in Documents /\ told \in Seq(Nat)
         /\ new = Len(claims) + 1 /\ new \in ClaimIds'
         /\ new \notin ClaimIds /\ ClaimIds' = ClaimIds \cup {new}
         /\ RefusalOf[d] = "none" /\ Tells(told, d)
         /\ i = Len(told) + 1 /\ i \in 1..Len(FieldsOf[d])
         /\ claims'[new].key = FieldsOf[d][i].key
         /\ claims'[new].value = FieldsOf[d][i].value
         /\ claims'[new].origin = "external"
         /\ provenance' = provenance
               \cup {[claim |-> new, document |-> d, field |-> i]}
         /\ Turns(w, [step |-> "running", document |-> d,
                      claims |-> Append(told, new)], Idle)
  BY CommitFieldFacts
<1>3. PICK more, s : /\ more = Append(told, new)
                     /\ s = [step |-> "running", document |-> d,
                             claims |-> more]
  OBVIOUS
<1>4. new \in Nat /\ Len(told) \in Nat
  BY <1>2, LenProperties DEF PipelineOK, TypeOK
<1>5. /\ more \in Seq(Nat) /\ Len(more) = Len(told) + 1
      /\ more[Len(told) + 1] = new
      /\ \A j \in 1..Len(told) : more[j] = told[j]
  BY <1>2, <1>3, <1>4, AppendProperties
<1>6. Tells(more, d)'
  <2>1. Len(more) <= Len(FieldsOf[d])
    BY <1>2, <1>4, <1>5, FieldFacts
  <2>2. ASSUME NEW j \in 1..Len(more)
        PROVE  /\ more[j] \in ClaimIds'
               /\ claims'[more[j]].key = FieldsOf[d][j].key
               /\ claims'[more[j]].value = FieldsOf[d][j].value
    <3>1. CASE j \in 1..Len(told)
      BY <1>1, <1>2, <1>5, <3>1 DEF Tells, Grows
    <3>2. CASE j \notin 1..Len(told)
      <4>1. j = i
        BY <1>2, <1>4, <1>5, <3>2
      <4> QED
        BY <1>2, <1>5, <4>1
    <3> QED
      BY <3>1, <3>2
  <2> QED
    BY <2>1, <2>2 DEF Tells
<1>7. Works(s, Idle)'
  BY <1>2, <1>3, <1>6 DEF Works
<1>8. s \in WorkerStates /\ Turns(w, s, Idle)
  BY <1>2, <1>3, <1>5 DEF WorkerStates, Extracting
<1> QED
  BY <1>1, <1>7, <1>8, TurnKeeps DEF PipelineOK, RequestsOK

LEMMA AdvanceKeeps ==
    ASSUME PipelineOK, NEW w \in Workers, Advances(w)
    PROVE  ServiceStep /\ ExtractionsOK'
<1>1. PICK s, request :
         s \in WorkerStates /\ Turns(w, s, request) /\ Works(s, request)
  BY DEF Advances
<1>2. ServiceStep
  BY DEF Advances
<1>3. Grows
  BY <1>2, StepImplements, StepGrows DEF ServiceStep, PipelineOK
<1>4. Works(s, request)'
  BY <1>1, <1>3, WorksStays
<1> QED
  BY <1>1, <1>2, <1>3, <1>4, TurnKeeps DEF PipelineOK, RequestsOK

\* A worker that reviews or corrects runs no extraction.
LEMMA CurateKeeps ==
    ASSUME PipelineOK, NEW w \in Workers, extraction[w] = NoExtraction,
           Curate(w), UNCHANGED extraction
    PROVE  ServiceStep /\ ExtractionsOK'
<1>1. ServiceStep
  BY DEF Curate, ServiceStep, ServiceNext, Begin
<1>2. PICK request : req' = [req EXCEPT ![w] = request]
  BY DEF Curate, BeginReview, BeginCorrect, Submit, CommitReview,
         ConflictReview, CommitCorrect, Abort, Done
<1>3. extraction \in [Workers -> WorkerStates]
  BY DEF PipelineOK, ExtractionsOK
<1>4. Turns(w, NoExtraction, request)
  BY <1>2, <1>3 DEF Turns
<1>5. NoExtraction \in WorkerStates /\ Works(NoExtraction, request)
  BY DEF WorkerStates, NoExtraction, Works
<1> QED
  BY <1>1, <1>4, <1>5, AdvanceKeeps DEF Advances

\* A step of an extraction that adds no claim leaves provenance alone.
LEMMA OnlyCommitsAreSourced ==
    ASSUME NEW w \in Workers, Extract(w), ~CommitField(w)
    PROVE  UNCHANGED provenance
  BY DEF Extract, BeginExtraction, RefuseDocument, SubmitField, RejectField,
         FailExtraction, Complete, EndExtraction, Reply

LEMMA PipelineStep ==
    ASSUME PipelineOK, [PipelineNext]_pipelineVars
    PROVE  ServiceStep /\ PipelineOK'
<1>1. ASSUME NEW w \in Workers, Extract(w)
      PROVE  ServiceStep /\ ExtractionsOK'
  <2>1. CASE CommitField(w)
    BY <2>1, CommitAdvances
  <2>2. CASE ~CommitField(w)
    <3>1. Advances(w)
      BY <1>1, <2>2, BeginAdvances, RepliesAdvance, SubmitAdvances, EndAdvances
      DEF Extract
    <3> QED
      BY <3>1, AdvanceKeeps
  <2> QED
    BY <2>1, <2>2
<1>2. ASSUME UNCHANGED extraction, req' = req, ServiceStep
      PROVE  ExtractionsOK'
  <2>1. Grows
    BY <1>2, StepImplements, StepGrows DEF ServiceStep, PipelineOK
  <2>2. ASSUME NEW w \in Workers
        PROVE  Works(extraction[w], req[w])'
    <3>1. PICK s, r : s = extraction[w] /\ r = req[w]
      OBVIOUS
    <3>2. Works(s, r)'
      BY <2>1, <3>1, WorksStays DEF PipelineOK, ExtractionsOK
    <3>3. extraction'[w] = s /\ req'[w] = r
      BY <1>2, <3>1
    <3> QED
      BY <3>2, <3>3 DEF Works, Tells, IsNext
  <2> QED
    BY <1>2, <2>2 DEF PipelineOK, ExtractionsOK
<1>3. ASSUME UNCHANGED pipelineVars
      PROVE  ServiceStep /\ ExtractionsOK'
  <2>1. UNCHANGED extraction /\ UNCHANGED serviceVars
    BY <1>3 DEF pipelineVars, queryVars
  <2>2. ServiceStep /\ req' = req
    BY <2>1 DEF ServiceStep, serviceVars
  <2> QED
    BY <1>2, <2>1, <2>2
<1>4. ASSUME NEW w \in Workers, extraction[w] = NoExtraction,
             Curate(w) \/ Inquire(w), UNCHANGED extraction
      PROVE  ServiceStep /\ ExtractionsOK'
  <2>1. CASE Curate(w)
    BY <1>4, <2>1, CurateKeeps
  <2>2. CASE Inquire(w)
    <3>1. UNCHANGED serviceVars
      BY <2>2 DEF Inquire, Ask, Answer, EndQuestion
    <3> QED
      BY <1>2, <1>4, <3>1 DEF serviceVars, ServiceStep
  <2> QED
    BY <1>4, <2>1, <2>2
<1>5. ASSUME NEW t \in Times, SetClock(t), UNCHANGED extraction
      PROVE  ServiceStep /\ ExtractionsOK'
  <2>1. ServiceStep /\ req' = req
    BY <1>5 DEF ServiceStep, ServiceNext, SetClock
  <2> QED
    BY <1>2, <1>5, <2>1
<1>6. ServiceStep /\ ExtractionsOK'
  BY <1>1, <1>3, <1>4, <1>5 DEF PipelineNext
<1>7. TypeOK' /\ RequestsOK'
  BY <1>6, StepImplements, StepType, StepKeepsRequests
  DEF ServiceStep, PipelineOK
<1> QED
  BY <1>6, <1>7 DEF PipelineOK

LEMMA PipelineStart == PipelineInit => PipelineOK
<1> SUFFICES ASSUME PipelineInit PROVE PipelineOK
  OBVIOUS
<1>1. TypeOK /\ RequestsOK
  BY ServiceInitOK DEF PipelineInit, QueryInit
<1>2. extraction \in [Workers -> WorkerStates]
  BY DEF PipelineInit, WorkerStates
<1>3. \A w \in Workers : Works(extraction[w], req[w])
  BY DEF PipelineInit, NoExtraction, Works
<1> QED
  BY <1>1, <1>2, <1>3 DEF PipelineOK, ExtractionsOK

LEMMA PipelineInvariant == PipelineSpec => []PipelineOK
<1>1. PipelineOK /\ [PipelineNext]_pipelineVars => PipelineOK'
  BY PipelineStep
<1> QED
  BY <1>1, PipelineStart, PTL DEF PipelineSpec

\* Extraction, curation and questions use the claim operations of the service
\* and no other way to the tables, and the service's steps are transactions of
\* the serial store, so that what is proved of the store holds here.
THEOREM PipelineUsesService == PipelineSpec => ServiceSpec
<1>1. PipelineInit => ServiceInit
  BY DEF PipelineInit, QueryInit
<1>2. PipelineOK /\ [PipelineNext]_pipelineVars => [ServiceNext]_serviceVars
  BY PipelineStep DEF ServiceStep
<1> QED
  BY <1>1, <1>2, PipelineInvariant, PTL DEF PipelineSpec, ServiceSpec

\* Whatever extractions, reviews and corrections interleave, the claim tables
\* change one transaction of the store at a time.
THEOREM PipelineImplementsStore == PipelineSpec => StoreSpec
  BY PipelineUsesService, ServiceImplementsStore, PTL

\* The requests of the pipeline's workers name claims that exist, and what
\* they read and write has its type.
THEOREM PipelineTypeCorrect == PipelineSpec => []ServiceTypeOK
  BY PipelineUsesService, ServiceTypeCorrect, PTL

\* A caller who is told the claims of a document is told those of all its
\* fields, and nobody else is: extract replies with claims only at the end of
\* its loop over the fields, and every error in the loop ends the request.
THEOREM RepliesStayWhole == PipelineSpec => []RepliesAreWhole
<1>1. PipelineOK => RepliesAreWhole
  <2> SUFFICES ASSUME PipelineOK, NEW w \in Workers,
                      extraction[w].step = "replied"
               PROVE  LET fields == FieldsOf[extraction[w].document]
                          told == extraction[w].claims
                      IN  /\ Len(told) <= Len(fields)
                          /\ \A i \in DOMAIN told :
                                /\ claims[told[i]].key = fields[i].key
                                /\ claims[told[i]].value = fields[i].value
                          /\ extraction[w].status = "claims"
                                 => Len(told) = Len(fields)
                          /\ Len(told) = Len(fields) /\ fields # <<>>
                                 => extraction[w].status = "claims"
    BY DEF RepliesAreWhole
  <2>1. extraction[w] \in WorkerStates /\ Works(extraction[w], req[w])
    BY DEF PipelineOK, ExtractionsOK
  <2>2. extraction[w].claims \in Seq(Nat)
    BY <2>1, WorkerFacts
  <2>3. DOMAIN extraction[w].claims = 1..Len(extraction[w].claims)
    BY <2>2, LenProperties
  <2> QED
    BY <2>1, <2>3 DEF Works, Tells
<1> QED
  BY <1>1, PipelineInvariant, PTL

(***************************************************************************)
(* Claims and the fields they come from.                                   *)
(***************************************************************************)
ProvenanceOK ==
    /\ \A p \in provenance :
          /\ p.claim \in ClaimIds /\ p.document \in Documents
          /\ p.field \in 1..Len(FieldsOf[p.document])
          /\ claims[p.claim].key = FieldsOf[p.document][p.field].key
          /\ claims[p.claim].value = FieldsOf[p.document][p.field].value
          /\ claims[p.claim].origin = "external"
    /\ \A p, q \in provenance : p.claim = q.claim => p = q
    /\ \A c \in ClaimIds : claims[c].origin = "external" =>
          \E p \in provenance : p.claim = c

LEMMA OthersRecordNothing ==
    ASSUME PipelineOK, [PipelineNext]_pipelineVars,
           ~\E w \in Workers : CommitField(w)
    PROVE  /\ UNCHANGED provenance
           /\ \A c \in ClaimIds' : c \in ClaimIds \/ claims'[c].origin = "human"
<1>1. ASSUME claims' = claims
      PROVE  \A c \in ClaimIds' : c \in ClaimIds
  BY <1>1 DEF ClaimIds
<1>2. ASSUME NEW w \in Workers, Extract(w)
      PROVE  UNCHANGED provenance /\ claims' = claims
  <2>1. ~CommitField(w)
    OBVIOUS
  <2>2. UNCHANGED provenance
    BY <1>2, <2>1, OnlyCommitsAreSourced
  <2>3. claims' = claims
    BY <1>2, <2>1
    DEF Extract, BeginExtraction, RefuseDocument, SubmitField, RejectField,
        FailExtraction, Complete, EndExtraction, BeginRecord, Submit, Abort,
        queryVars, serviceVars, tables
  <2> QED
    BY <2>2, <2>3
<1>3. ASSUME NEW w \in Workers, Curate(w), ~CommitCorrect(w)
      PROVE  claims' = claims
  BY <1>3 DEF Curate, BeginReview, BeginCorrect, Submit, CommitReview, Review,
              ConflictReview, RefuseReview, Abort, tables
<1>4. ASSUME NEW w \in Workers, CommitCorrect(w)
      PROVE  \A c \in ClaimIds' : c \in ClaimIds \/ claims'[c].origin = "human"
  <2>1. /\ req[w] \in Requests /\ req[w].op = "correct"
        /\ req[w].claim \in ClaimIds /\ TypeOK
    BY <1>4 DEF PipelineOK, RequestsOK, CommitCorrect, Serving
  <2>2. req[w].value \in KnowledgeValues /\ req[w].now \in Times
    BY <2>1 DEF Requests
  <2>3. PICK affected : Correct(req[w].claim, req[w].value, req[w].now, affected)
    BY <1>4 DEF CommitCorrect
  <2>4. /\ ClaimIds' = ClaimIds \cup {Len(claims) + 1}
        /\ claims'[Len(claims) + 1] =
              [key |-> claims[req[w].claim].key, value |-> req[w].value,
               origin |-> "human", txn |-> NextTxn]
    BY <2>1, <2>2, <2>3, CorrectGrows
  <2> QED
    BY <2>4
<1>5. ASSUME NEW w \in Workers, Inquire(w)
      PROVE  claims' = claims
  BY <1>5 DEF Inquire, Ask, Answer, EndQuestion, serviceVars, tables
<1>6. ASSUME NEW t \in Times, SetClock(t)
      PROVE  claims' = claims
  BY <1>6 DEF SetClock, tables
<1>7. CASE UNCHANGED pipelineVars
  BY <1>1, <1>7 DEF pipelineVars, queryVars, serviceVars, tables
<1> QED
  BY <1>1, <1>2, <1>3, <1>4, <1>5, <1>6, <1>7 DEF PipelineNext

LEMMA ProvenanceStep ==
    ASSUME PipelineOK, ProvenanceOK, [PipelineNext]_pipelineVars
    PROVE  ProvenanceOK'
<1>1. Grows
  BY PipelineStep, StepImplements, StepGrows DEF ServiceStep, PipelineOK
<1>2. CASE \E w \in Workers : CommitField(w)
  <2>1. PICK w \in Workers : CommitField(w)
    BY <1>2
  <2>2. PICK d, told, new, i :
           /\ d \in Documents /\ told \in Seq(Nat)
           /\ new = Len(claims) + 1 /\ new \in ClaimIds'
           /\ new \notin ClaimIds /\ ClaimIds' = ClaimIds \cup {new}
           /\ RefusalOf[d] = "none" /\ Tells(told, d)
           /\ i = Len(told) + 1 /\ i \in 1..Len(FieldsOf[d])
           /\ claims'[new].key = FieldsOf[d][i].key
           /\ claims'[new].value = FieldsOf[d][i].value
           /\ claims'[new].origin = "external"
           /\ provenance' = provenance
                 \cup {[claim |-> new, document |-> d, field |-> i]}
           /\ Turns(w, [step |-> "running", document |-> d,
                        claims |-> Append(told, new)], Idle)
    BY <2>1, CommitFieldFacts
  <2>3. PICK row : row = [claim |-> new, document |-> d, field |-> i]
    OBVIOUS
  <2>4. provenance' = provenance \cup {row} /\ row.claim = new
        /\ row.document = d /\ row.field = i
    BY <2>2, <2>3
  <2>5. ASSUME NEW p \in provenance'
        PROVE  /\ p.claim \in ClaimIds' /\ p.document \in Documents
               /\ p.field \in 1..Len(FieldsOf[p.document])
               /\ claims'[p.claim].key = FieldsOf[p.document][p.field].key
               /\ claims'[p.claim].value = FieldsOf[p.document][p.field].value
               /\ claims'[p.claim].origin = "external"
    <3>1. CASE p = row
      BY <2>2, <2>4, <3>1
    <3>2. CASE p \in provenance
      BY <1>1, <3>2 DEF ProvenanceOK, Grows
    <3> QED
      BY <2>4, <2>5, <3>1, <3>2
  <2>6. \A p, q \in provenance' : p.claim = q.claim => p = q
    <3>1. \A p \in provenance : p.claim # new
      BY <2>2 DEF ProvenanceOK
    <3> QED
      BY <2>4, <3>1 DEF ProvenanceOK
  <2>7. \A c \in ClaimIds' : claims'[c].origin = "external" =>
           \E p \in provenance' : p.claim = c
    BY <1>1, <2>2, <2>4 DEF ProvenanceOK, Grows
  <2> QED
    BY <2>5, <2>6, <2>7 DEF ProvenanceOK
<1>3. CASE ~\E w \in Workers : CommitField(w)
  <2>1. /\ UNCHANGED provenance
        /\ \A c \in ClaimIds' : c \in ClaimIds \/ claims'[c].origin = "human"
    BY <1>3, OthersRecordNothing
  <2>2. ASSUME NEW p \in provenance
        PROVE  /\ p.claim \in ClaimIds' /\ claims'[p.claim] = claims[p.claim]
    BY <1>1 DEF ProvenanceOK, Grows
  <2>3. \A c \in ClaimIds' : claims'[c].origin = "external" =>
           \E p \in provenance : p.claim = c
    BY <1>1, <2>1 DEF ProvenanceOK, Grows
  <2> QED
    BY <2>1, <2>2, <2>3 DEF ProvenanceOK
<1> QED
  BY <1>2, <1>3

\* Every claim from a source leads back to one field of one document, and the
\* claims that repeated extractions make of a field corroborate the earlier
\* ones and never contradict them: they have one key and one value, and
\* record_claim compares a new claim with every one not withdrawn.
THEOREM RepeatedExtractionsAgree == PipelineSpec => []RepeatedClaimsCorroborate
<1>1. PipelineInit => ProvenanceOK /\ ArrivalsCorroborate
  BY DEF PipelineInit, QueryInit, ServiceInit, StoreInit, ClaimIds,
         ProvenanceOK, ArrivalsCorroborate
<1>2. PipelineOK /\ ProvenanceOK /\ [PipelineNext]_pipelineVars => ProvenanceOK'
  BY ProvenanceStep
<1>3. PipelineOK /\ ArrivalsCorroborate /\ [PipelineNext]_pipelineVars
          => ArrivalsCorroborate'
  BY PipelineStep, StepImplements, StoreCorroborates DEF ServiceStep, PipelineOK
<1>4. PipelineSpec => []DetectionExact
  BY PipelineImplementsStore, DetectionIsExact, PTL
<1>5. PipelineOK /\ ProvenanceOK /\ ArrivalsCorroborate /\ DetectionExact
          => RepeatedClaimsCorroborate
  <2> SUFFICES ASSUME PipelineOK, ProvenanceOK, ArrivalsCorroborate,
                      DetectionExact
               PROVE  RepeatedClaimsCorroborate
    OBVIOUS
  <2>1. ASSUME NEW c \in ClaimIds, claims[c].origin = "external"
        PROVE  \E p \in provenance :
                   /\ p.claim = c /\ \A q \in provenance : q.claim = c => q = p
                   /\ FieldsOf[p.document][p.field].value = claims[c].value
    <3>1. PICK p \in provenance : p.claim = c
      BY <2>1 DEF ProvenanceOK
    <3>2. /\ \A q \in provenance : q.claim = c => q = p
          /\ FieldsOf[p.document][p.field].value = claims[c].value
      BY <3>1 DEF ProvenanceOK
    <3> QED
      BY <3>1, <3>2
  <2>2. ASSUME NEW p \in provenance, NEW q \in provenance, p.claim < q.claim,
               p.document = q.document, p.field = q.field
        PROVE  /\ {p.claim, q.claim} \notin contradictions
               /\ claims[p.claim].value \in Known =>
                     \/ Edge(q.claim, "corroborates", p.claim) \in edges
                     \/ WithdrawnBefore(p.claim, claims[q.claim].txn)
    <3>1. /\ p.claim \in ClaimIds /\ q.claim \in ClaimIds
          /\ claims[p.claim].key = claims[q.claim].key
          /\ claims[p.claim].value = claims[q.claim].value
          /\ claims[q.claim].origin = "external"
      BY <2>2 DEF ProvenanceOK
    <3>2. PICK a, b : a = p.claim /\ b = q.claim
      OBVIOUS
    <3>3. /\ a \in ClaimIds /\ b \in ClaimIds /\ a < b
          /\ claims[a].key = claims[b].key
          /\ claims[a].value = claims[b].value
          /\ claims[b].origin = "external"
      BY <2>2, <3>1, <3>2
    <3>4. {a, b} \notin contradictions
      BY <3>3 DEF DetectionExact, Incompatible
    <3>5. claims[a].value \in Known => Corroborated(a, b)
      BY <3>3 DEF ArrivalsCorroborate, Alike
    <3> QED
      BY <3>2, <3>4, <3>5 DEF Corroborated
  <2> QED
    BY <2>1, <2>2 DEF RepeatedClaimsCorroborate
<1> QED
  BY <1>1, <1>2, <1>3, <1>4, <1>5, PipelineInvariant, PTL DEF PipelineSpec

(***************************************************************************)
(* Questions and answers.                                                  *)
(***************************************************************************)
Modes == {"unknown", "conflicting", "established", "claimed"}

Listed == [step : {"listed"}, cited : SUBSET Nat]
AnsweredStates == [step : {"answered"}, cited : SUBSET Nat, mode : Modes]

\* Two claims of cited have different known values.
Differ(cited) ==
    \E a, b \in cited : /\ claims[a].value \in Known
                        /\ claims[b].value \in Known
                        /\ claims[a].value # claims[b].value

\* What stays true of an answer whatever is recorded after it.
Answers(s) ==
    /\ s.step \in {"listed", "answered"} => s.cited \subseteq ClaimIds
    /\ s.step = "answered" =>
          /\ s.mode = "established" =>
                /\ s.cited # {}
                /\ \A c \in s.cited : c \in facts \/ claims[c].origin = "human"
          /\ Differ(s.cited) => s.mode = "conflicting"

QuestionsOK ==
    /\ asked \in [Workers -> {NoQuestion} \cup Listed \cup AnsweredStates]
    /\ \A w \in Workers : Answers(asked[w])

LEMMA ModeFacts ==
    ASSUME NEW cited
    PROVE  /\ Mode(cited) \in Modes
           /\ Mode(cited) = "conflicting" <=> Differ(cited)
           /\ Mode(cited) = "established" => cited # {} /\ AllVerified(cited)
<1>1. (\E u, v \in KnownValues(cited) : u # v) <=> Differ(cited)
  BY DEF KnownValues, Differ
<1>2. cited = {} => ~Differ(cited)
  BY DEF Differ
<1> QED
  BY <1>1, <1>2 DEF Mode, Modes

LEMMA AnswersStay ==
    ASSUME Grows, facts \subseteq facts', NEW s, Answers(s)
    PROVE  Answers(s)'
<1>1. ASSUME NEW cited, cited \subseteq ClaimIds
      PROVE  Differ(cited)' <=> Differ(cited)
  BY <1>1 DEF Differ, Grows
<1>2. s.step \in {"listed", "answered"} => s.cited \subseteq ClaimIds'
  BY DEF Answers, Grows
<1>3. s.step = "answered" => (Differ(s.cited)' => s.mode = "conflicting")
  BY <1>1 DEF Answers
<1>4. (s.step = "answered" /\ s.mode = "established") =>
         /\ s.cited # {}
         /\ \A c \in s.cited : c \in facts' \/ claims'[c].origin = "human"
  BY DEF Answers, Grows
<1> QED
  BY <1>2, <1>3, <1>4 DEF Answers

\* A worker that asks, answers or is done gets to s.
LEMMA InquireAnswers ==
    ASSUME PipelineOK, EstablishedHasFact, QuestionsOK, NEW w \in Workers,
           Inquire(w)
    PROVE  /\ UNCHANGED serviceVars
           /\ \E s \in {NoQuestion} \cup Listed \cup AnsweredStates :
                 asked' = [asked EXCEPT ![w] = s] /\ Answers(s)
<1>0. ClaimIds \subseteq Nat
  BY LenProperties DEF PipelineOK, TypeOK, ClaimIds
<1>1. ASSUME NEW question, Ask(w, question)
      PROVE  \E s \in {NoQuestion} \cup Listed \cup AnsweredStates :
                 asked' = [asked EXCEPT ![w] = s] /\ Answers(s)
  <2>1. PICK s, cited : /\ cited = Matched(question, ClaimIds)
                        /\ s = [step |-> "listed", cited |-> cited]
    OBVIOUS
  <2>2. cited \subseteq ClaimIds
    BY <2>1 DEF Matched
  <2>3. s \in Listed
    BY <1>0, <2>1, <2>2 DEF Listed
  <2>4. Answers(s)
    BY <2>1, <2>2 DEF Answers
  <2> QED
    BY <1>1, <2>1, <2>3, <2>4 DEF Ask
<1>2. ASSUME Answer(w)
      PROVE  \E s \in {NoQuestion} \cup Listed \cup AnsweredStates :
                 asked' = [asked EXCEPT ![w] = s] /\ Answers(s)
  <2>1. PICK s, cited, mode :
           /\ cited = asked[w].cited /\ mode = Mode(cited)
           /\ s = [step |-> "answered", cited |-> cited, mode |-> mode]
    OBVIOUS
  <2>2. cited \subseteq ClaimIds
    BY <1>2, <2>1 DEF Answer, QuestionsOK, Answers
  <2>3. s \in AnsweredStates
    BY <1>0, <2>1, <2>2, ModeFacts DEF AnsweredStates
  <2>4. mode = "established" =>
           /\ cited # {}
           /\ \A c \in cited : c \in facts \/ claims[c].origin = "human"
    <3>1. SUFFICES ASSUME mode = "established", NEW c \in cited
                   PROVE  cited # {} /\ (c \in facts \/ claims[c].origin = "human")
      BY <2>1, ModeFacts
    <3>2. StateIs(c, "verified")
      BY <2>1, <3>1, ModeFacts DEF AllVerified
    <3>3. claims[c].origin = "external" \/ claims[c].origin = "human"
      BY <2>2, ClaimFacts DEF Origins, PipelineOK
    <3> QED
      BY <2>2, <3>2, <3>3 DEF EstablishedHasFact
  <2>5. Differ(cited) => mode = "conflicting"
    BY <2>1, ModeFacts
  <2>6. Answers(s)
    BY <2>1, <2>2, <2>4, <2>5 DEF Answers
  <2> QED
    BY <1>2, <2>1, <2>3, <2>6 DEF Answer
<1>3. ASSUME EndQuestion(w)
      PROVE  \E s \in {NoQuestion} \cup Listed \cup AnsweredStates :
                 asked' = [asked EXCEPT ![w] = s] /\ Answers(s)
  <2>1. Answers(NoQuestion)
    BY DEF NoQuestion, Answers
  <2>2. asked' = [asked EXCEPT ![w] = NoQuestion]
    BY <1>3 DEF EndQuestion
  <2> QED
    BY <2>1, <2>2
<1>4. UNCHANGED serviceVars
  BY DEF Inquire, Ask, Answer, EndQuestion
<1> QED
  BY <1>1, <1>2, <1>3, <1>4 DEF Inquire

LEMMA QuestionsStep ==
    ASSUME PipelineOK, EstablishedHasFact, QuestionsOK,
           [PipelineNext]_pipelineVars
    PROVE  QuestionsOK'
<1>1. Grows /\ facts \subseteq facts'
  BY PipelineStep, StepImplements, StepGrows DEF ServiceStep, PipelineOK
<1>2. CASE asked' = asked
  <2>1. ASSUME NEW w \in Workers
        PROVE  Answers(asked[w])'
    <3>1. PICK s : s = asked[w]
      OBVIOUS
    <3>2. Answers(s)' /\ asked'[w] = s
      BY <1>1, <1>2, <3>1, AnswersStay DEF QuestionsOK
    <3> QED
      BY <3>2 DEF Answers, Differ
  <2> QED
    BY <1>2, <2>1 DEF QuestionsOK
<1>3. ASSUME NEW w \in Workers, Inquire(w)
      PROVE  QuestionsOK'
  <2>1. PICK s \in {NoQuestion} \cup Listed \cup AnsweredStates :
           asked' = [asked EXCEPT ![w] = s] /\ Answers(s)
    BY <1>3, InquireAnswers
  <2>2. ASSUME NEW u \in Workers
        PROVE  Answers(asked[u])'
    <3>1. PICK t : t = asked'[u]
      OBVIOUS
    <3>2. Answers(t)
      BY <2>1, <3>1 DEF QuestionsOK
    <3>3. Answers(t)'
      BY <1>1, <3>2, AnswersStay
    <3> QED
      BY <3>1, <3>3 DEF Answers, Differ
  <2>3. asked' \in [Workers -> {NoQuestion} \cup Listed \cup AnsweredStates]
    BY <2>1 DEF QuestionsOK
  <2> QED
    BY <2>2, <2>3 DEF QuestionsOK
<1>4. ASSUME NEW w \in Workers, Extract(w)
      PROVE  asked' = asked
  BY <1>4 DEF Extract, BeginExtraction, RefuseDocument, SubmitField,
              RejectField, CommitField, FailExtraction, Complete,
              EndExtraction, Reply, queryVars
<1>5. ASSUME NEW w \in Workers, Curate(w)
      PROVE  asked' = asked
  BY <1>5 DEF Curate
<1>6. CASE UNCHANGED pipelineVars
  BY <1>2, <1>6 DEF pipelineVars, queryVars
<1> QED
  BY <1>2, <1>3, <1>4, <1>5, <1>6 DEF PipelineNext

\* An answer that something is established cites claims that each have a fact
\* or a person behind them, and a contradiction among the claims an answer
\* cites is always told, although the claims are listed under one lock and
\* their states read under another.
THEOREM EstablishedStaysGrounded == PipelineSpec => []EstablishedIsGrounded
<1>1. PipelineInit => QuestionsOK
  BY DEF PipelineInit, QueryInit, QuestionsOK, NoQuestion, Answers
<1>2. PipelineOK /\ EstablishedHasFact /\ QuestionsOK
          /\ [PipelineNext]_pipelineVars => QuestionsOK'
  BY QuestionsStep
<1>3. PipelineSpec => []DetectionExact
  BY PipelineImplementsStore, DetectionIsExact, PTL
<1>4. PipelineSpec => []EstablishedHasFact
  BY PipelineImplementsStore, EstablishedHasFactAlways, PTL
<1>5. PipelineOK /\ QuestionsOK /\ DetectionExact => EstablishedIsGrounded
  <2> SUFFICES ASSUME PipelineOK, QuestionsOK, DetectionExact,
                      NEW w \in Workers, Answered(w)
               PROVE  LET cited == asked[w].cited
                      IN  /\ asked[w].mode = "established" =>
                                /\ cited # {}
                                /\ \A c \in cited :
                                      c \in facts \/ claims[c].origin = "human"
                          /\ Contradicting(cited) => asked[w].mode = "conflicting"
    BY DEF EstablishedIsGrounded
  <2>1. PICK cited : cited = asked[w].cited
    OBVIOUS
  <2>2. /\ cited \subseteq ClaimIds
        /\ asked[w].mode = "established" =>
              /\ cited # {}
              /\ \A c \in cited : c \in facts \/ claims[c].origin = "human"
        /\ Differ(cited) => asked[w].mode = "conflicting"
    BY <2>1 DEF QuestionsOK, Answers, Answered
  <2>3. Contradicting(cited) => Differ(cited)
    <3>1. SUFFICES ASSUME NEW pair \in contradictions, pair \subseteq cited
                   PROVE  Differ(cited)
      BY DEF Contradicting
    <3>2. PICK a \in ClaimIds, b \in ClaimIds : a < b /\ pair = {a, b}
      BY DEF PipelineOK, TypeOK
    <3>3. Incompatible(a, b)
      BY <3>2 DEF DetectionExact
    <3> QED
      BY <3>1, <3>2, <3>3 DEF Incompatible, Differ
  <2> QED
    BY <2>1, <2>2, <2>3
<1> QED
  BY <1>1, <1>2, <1>3, <1>4, <1>5, PipelineInvariant, PTL DEF PipelineSpec

\* No review, correction or new claim gives a question that finds different
\* values another answer: claims are only appended, and query filters none.
THEOREM ConflictStays == PipelineSpec => ConflictIsNeverSettled
<1>1. PipelineOK /\ [PipelineNext]_pipelineVars
          => [\A question \in Questions :
                 Mode(Matched(question, ClaimIds)) = "conflicting"
                    => Mode(Matched(question, ClaimIds))' = "conflicting"]_queryVars
  <2> SUFFICES ASSUME PipelineOK, [PipelineNext]_pipelineVars,
                      NEW question \in Questions,
                      Mode(Matched(question, ClaimIds)) = "conflicting"
               PROVE  Mode(Matched(question, ClaimIds))' = "conflicting"
    OBVIOUS
  <2>1. Grows
    BY PipelineStep, StepImplements, StepGrows DEF ServiceStep, PipelineOK
  <2>2. PICK cited, later : /\ cited = Matched(question, ClaimIds)
                            /\ later = Matched(question, ClaimIds)'
    OBVIOUS
  <2>3. PICK a \in cited, b \in cited : /\ claims[a].value \in Known
                                        /\ claims[b].value \in Known
                                        /\ claims[a].value # claims[b].value
    BY <2>2, ModeFacts DEF Differ
  <2>4. a \in later /\ b \in later /\ claims'[a] = claims[a] /\ claims'[b] = claims[b]
    BY <2>1, <2>2, <2>3 DEF Matched, Grows
  <2>5. \E u, v \in KnownValues(later)' : u # v
    BY <2>3, <2>4 DEF KnownValues
  <2>6. Mode(later)' = "conflicting"
    BY <2>4, <2>5 DEF Mode
  <2> QED
    BY <2>2, <2>6 DEF Mode, KnownValues, AllVerified, StateIs, StateIn,
                      StateAmong, RowsOf, Latest, SortsBefore, InitialState
<1> QED
  BY <1>1, PipelineInvariant, PTL DEF PipelineSpec, ConflictIsNeverSettled
=============================================================================
