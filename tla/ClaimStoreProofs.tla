-------------------------- MODULE ClaimStoreProofs --------------------------
(***************************************************************************)
(* Theorems about the claim tables, for every set of keys and values and   *)
(* every bound.                                                            *)
(***************************************************************************)
EXTENDS ClaimStore, SequenceTheorems, TLAPS

(***************************************************************************)
(* What appending to a sequence does.                                      *)
(***************************************************************************)
LEMMA AppendFacts ==
    ASSUME NEW S, NEW s \in Seq(S), NEW e \in S
    PROVE  /\ Append(s, e) \in Seq(S)
           /\ Len(s) \in Nat
           /\ Len(Append(s, e)) = Len(s) + 1
           /\ \A i \in 1..Len(s) : Append(s, e)[i] = s[i]
           /\ Append(s, e)[Len(s) + 1] = e
  BY AppendProperties, LenProperties

LEMMA AuditWidens ==
    ASSUME NEW S, NEW T, S \subseteq T,
           NEW s \in Seq([op : Operations, target : S])
    PROVE  s \in Seq([op : Operations, target : T])
<1>1. [op : Operations, target : S] \subseteq [op : Operations, target : T]
  OBVIOUS
<1> QED
  BY ONLY <1>1, s \in Seq([op : Operations, target : S]), SeqMonotonic

(***************************************************************************)
(* Types                                                                   *)
(***************************************************************************)

LEMMA InitType == StoreInit => TypeOK
  BY DEF StoreInit, TypeOK, ClaimIds, Txns

LEMMA RecordType ==
    ASSUME TypeOK, NEW k \in Keys, NEW v \in KnowledgeValues,
           NEW now \in Times, Record(k, v, now)
    PROVE  TypeOK'
<1> DEFINE new == Len(claims) + 1
           against == Conflicting(k, v)
           claim == [key |-> k, value |-> v, origin |-> "external",
                     txn |-> NextTxn]
           event == [op |-> "claim.record", target |-> new]
<1>1. /\ Len(claims) \in Nat /\ Len(audit) \in Nat
      /\ claims \in Seq(Claim)
  BY LenProperties DEF TypeOK
<1>2. against \subseteq ClaimIds
  BY DEF Conflicting, Priors
<1>3. claim \in Claim
  BY <1>1 DEF Claim, Origins, NextTxn
<1>4. /\ claims' \in Seq(Claim) /\ Len(claims') = new
      /\ \A c \in ClaimIds : claims'[c] = claims[c]
      /\ claims'[new] = claim
  BY <1>1, <1>3, AppendFacts DEF Record, ClaimIds
<1>5. ClaimIds' = ClaimIds \cup {new}
  BY <1>1, <1>4 DEF ClaimIds
<1>6. /\ audit' \in Seq([op : Operations, target : ClaimIds'])
      /\ Len(audit') = NextTxn
  <2>1. audit \in Seq([op : Operations, target : ClaimIds'])
    <3>1. ClaimIds \subseteq ClaimIds'
      BY <1>5
    <3>2. audit \in Seq([op : Operations, target : ClaimIds])
      BY DEF TypeOK
    <3> QED
      BY <3>1, <3>2, AuditWidens
  <2>2. event \in [op : Operations, target : ClaimIds']
    BY <1>5 DEF Operations
  <2> QED
    BY <2>1, <2>2, AppendFacts DEF Record, NextTxn
<1>7. Txns' = Txns \cup {NextTxn}
  BY <1>1, <1>6 DEF Txns, NextTxn
<1>8. \A c \in ClaimIds' : claims'[c].txn \in Txns'
  BY <1>4, <1>5, <1>7 DEF TypeOK
<1>9. changes' \subseteq [claim : ClaimIds', state : States, at : Times,
                          rank : Int, txn : Txns']
  <2>1. PICK rank \in [against -> {NextTxn, -NextTxn}] :
           changes' = changes
               \cup {Row(p, "contradicted", now, rank[p]) : p \in against}
               \cup (IF against = {} THEN {}
                     ELSE {Row(new, "contradicted", now, NextTxn)})
    BY DEF Record, Detect
  <2>2. NextTxn \in Int /\ -NextTxn \in Int
    BY <1>1 DEF NextTxn
  <2> QED
    BY <2>1, <2>2, <1>2, <1>5, <1>7 DEF TypeOK, Row, States
<1>10. \A pair \in contradictions' :
          \E a, b \in ClaimIds' : a < b /\ pair = {a, b}
  <2>1. \A p \in against : p < new
    BY <1>1, <1>2 DEF ClaimIds
  <2> QED
    BY <2>1, <1>2, <1>5 DEF Record, TypeOK
<1>11. edges' \subseteq [from : ClaimIds', relation : Relations,
                         to : ClaimIds']
  <2>1. Agreeing(k, v) \subseteq ClaimIds
    BY DEF Agreeing, Priors
  <2> QED
    BY <2>1, <1>2, <1>5 DEF Record, TypeOK, Edge, Relations
<1>12. /\ reviews' \subseteq [claim : ClaimIds', txn : Txns',
                              decision : Decisions \cup {"corrected"}]
       /\ facts' \subseteq ClaimIds'
       /\ corrections' \subseteq [original : ClaimIds',
                                  corrected : ClaimIds',
                                  affected : SUBSET Derivations,
                                  txn : Txns']
  BY <1>5, <1>7 DEF Record, TypeOK
<1> QED
  BY <1>4, <1>6, <1>8, <1>9, <1>10, <1>11, <1>12 DEF TypeOK

LEMMA ReviewType ==
    ASSUME TypeOK, NEW c \in ClaimIds, NEW d \in Decisions,
           NEW now \in Times, Review(c, d, now)
    PROVE  TypeOK'
<1>1. /\ Len(audit) \in Nat /\ ClaimIds' = ClaimIds
      /\ claims' = claims
  BY LenProperties DEF TypeOK, Review, ClaimIds
<1>2. /\ audit' \in Seq([op : Operations, target : ClaimIds'])
      /\ Len(audit') = NextTxn
  BY <1>1, AppendFacts DEF TypeOK, Review, Operations, NextTxn
<1>3. Txns' = Txns \cup {NextTxn}
  BY <1>1, <1>2 DEF Txns, NextTxn
<1>4. changes' \subseteq [claim : ClaimIds', state : States, at : Times,
                          rank : Int, txn : Txns']
  <2>1. PICK rank \in Ranks(c, now) :
           changes' = changes \cup {Row(c, StateOf[d], now, rank)}
    BY DEF Review
  <2>2. rank \in Int
    BY <1>1 DEF Ranks, NextTxn
  <2>3. StateOf[d] \in States
    BY DEF Decisions, StateOf, States
  <2> QED
    BY <2>1, <2>2, <2>3, <1>1, <1>3 DEF TypeOK, Row
<1>5. reviews' \subseteq [claim : ClaimIds', txn : Txns',
                          decision : Decisions \cup {"corrected"}]
  BY <1>1, <1>3 DEF Review, TypeOK
<1>6. facts' \subseteq ClaimIds'
  BY <1>1 DEF Review, TypeOK, FactsAfter
<1>7. /\ corrections' \subseteq [original : ClaimIds', corrected : ClaimIds',
                                 affected : SUBSET Derivations, txn : Txns']
      /\ contradictions' = contradictions /\ edges' = edges
  BY <1>1, <1>3 DEF Review, TypeOK
<1> QED
  BY <1>1, <1>2, <1>3, <1>4, <1>5, <1>6, <1>7 DEF TypeOK

LEMMA CorrectType ==
    ASSUME TypeOK, NEW c \in ClaimIds, NEW v \in KnowledgeValues,
           NEW now \in Times, NEW affected \in SUBSET Derivations,
           Correct(c, v, now, affected)
    PROVE  TypeOK'
<1> DEFINE new == Len(claims) + 1
           claim == [key |-> claims[c].key, value |-> v,
                     origin |-> "human", txn |-> NextTxn]
           event == [op |-> "claim.correct", target |-> c]
<1>1. /\ Len(claims) \in Nat /\ Len(audit) \in Nat
      /\ claims \in Seq(Claim)
  BY LenProperties DEF TypeOK
<1>2. claims[c] \in Claim
  BY <1>1, ElementOfSeq DEF ClaimIds
<1>3. claim \in Claim
  BY <1>1, <1>2 DEF Claim, Origins, NextTxn
<1>4. /\ claims' \in Seq(Claim) /\ Len(claims') = new
      /\ \A i \in ClaimIds : claims'[i] = claims[i]
      /\ claims'[new] = claim
  BY <1>1, <1>3, AppendFacts DEF Correct, ClaimIds
<1>5. ClaimIds' = ClaimIds \cup {new}
  BY <1>1, <1>4 DEF ClaimIds
<1>6. /\ audit' \in Seq([op : Operations, target : ClaimIds'])
      /\ Len(audit') = NextTxn
  <2>1. audit \in Seq([op : Operations, target : ClaimIds'])
    <3>1. ClaimIds \subseteq ClaimIds'
      BY <1>5
    <3>2. audit \in Seq([op : Operations, target : ClaimIds])
      BY DEF TypeOK
    <3> QED
      BY <3>1, <3>2, AuditWidens
  <2>2. event \in [op : Operations, target : ClaimIds']
    BY <1>5 DEF Operations
  <2> QED
    BY <2>1, <2>2, AppendFacts DEF Correct, NextTxn
<1>7. Txns' = Txns \cup {NextTxn}
  BY <1>1, <1>6 DEF Txns, NextTxn
<1>8. \A i \in ClaimIds' : claims'[i].txn \in Txns'
  BY <1>4, <1>5, <1>7 DEF TypeOK
<1>9. changes' \subseteq [claim : ClaimIds', state : States, at : Times,
                          rank : Int, txn : Txns']
  <2>1. PICK rank \in Ranks(c, now) :
           changes' = changes \cup CorrectionRows(c, new, now, rank)
    BY DEF Correct
  <2>2. rank \in Int /\ NextTxn \in Int
    BY <1>1 DEF Ranks, NextTxn
  <2> QED
    BY <2>1, <2>2, <1>5, <1>7 DEF TypeOK, Row, States, CorrectionRows
<1>10. corrections' \subseteq [original : ClaimIds', corrected : ClaimIds',
                               affected : SUBSET Derivations, txn : Txns']
  BY <1>5, <1>7 DEF Correct, TypeOK
<1>11. /\ reviews' \subseteq [claim : ClaimIds', txn : Txns',
                              decision : Decisions \cup {"corrected"}]
       /\ facts' \subseteq ClaimIds'
       /\ edges' \subseteq [from : ClaimIds', relation : Relations,
                            to : ClaimIds']
  BY <1>5, <1>7
     DEF Correct, TypeOK, SupersedesEdge, Edge, Relations
<1>12. \A pair \in contradictions' :
          \E a, b \in ClaimIds' : a < b /\ pair = {a, b}
  BY <1>5 DEF Correct, TypeOK
<1> QED
  BY <1>4, <1>6, <1>8, <1>9, <1>10, <1>11, <1>12 DEF TypeOK

LEMMA StutterType == TypeOK /\ UNCHANGED tables => TypeOK'
  BY DEF TypeOK, tables, ClaimIds, Txns

LEMMA StepType == TypeOK /\ [StoreNext]_tables => TypeOK'
<1> SUFFICES ASSUME TypeOK, [StoreNext]_tables
             PROVE  TypeOK'
  OBVIOUS
<1>1. CASE \E k \in Keys, v \in KnowledgeValues, now \in Times :
              Record(k, v, now)
  BY <1>1, RecordType
<1>2. CASE \E c \in ClaimIds, d \in Decisions, now \in Times :
              Review(c, d, now)
  BY <1>2, ReviewType
<1>3. CASE \E c \in ClaimIds, d \in Decisions : RefuseReview(c, d)
  BY <1>3, StutterType DEF RefuseReview
<1>4. CASE \E c \in ClaimIds, v \in KnowledgeValues, now \in Times,
              affected \in SUBSET Derivations : Correct(c, v, now, affected)
  BY <1>4, CorrectType
<1>5. CASE UNCHANGED tables
  BY <1>5, StutterType
<1> QED
  BY <1>1, <1>2, <1>3, <1>4, <1>5 DEF StoreNext

\* Every row of every table refers to a claim and a transaction that exists,
\* in every reachable state.
THEOREM TypeCorrect == StoreSpec => []TypeOK
<1>1. StoreInit => TypeOK
  BY InitType
<1>2. TypeOK /\ [StoreNext]_tables => TypeOK'
  BY StepType
<1> QED
  BY <1>1, <1>2, PTL DEF StoreSpec

(***************************************************************************)
(* A transaction adds rows under its own number and changes none, so what  *)
(* was true of a claim before any earlier transaction stays true.          *)
(***************************************************************************)
Grows ==
    /\ ClaimIds \subseteq ClaimIds'
    /\ \A c \in ClaimIds : claims'[c] = claims[c]
    /\ changes \subseteq changes'
    /\ \A r \in changes' \ changes : r.txn = NextTxn

LEMMA RecordGrows ==
    ASSUME TypeOK, NEW k \in Keys, NEW v \in KnowledgeValues,
           NEW now \in Times, Record(k, v, now)
    PROVE  /\ Grows
           /\ ClaimIds' = ClaimIds \cup {Len(claims) + 1}
           /\ Len(claims') = Len(claims) + 1
           /\ Len(claims) + 1 \notin ClaimIds
           /\ \A a, b \in ClaimIds' : a < b => a \in ClaimIds
           /\ claims'[Len(claims) + 1] =
                 [key |-> k, value |-> v, origin |-> "external",
                  txn |-> NextTxn]
<1> DEFINE claim == [key |-> k, value |-> v, origin |-> "external",
                     txn |-> NextTxn]
<1>1. claims \in Seq(Claim) /\ Len(claims) \in Nat /\ Len(audit) \in Nat
  BY LenProperties DEF TypeOK
<1>2. claim \in Claim
  BY <1>1 DEF Claim, Origins, NextTxn
<1>3. /\ Len(claims') = Len(claims) + 1
      /\ \A c \in ClaimIds : claims'[c] = claims[c]
      /\ claims'[Len(claims) + 1] = claim
  BY <1>1, <1>2, AppendFacts DEF Record, ClaimIds
<1>4. changes \subseteq changes' /\ \A r \in changes' \ changes : r.txn = NextTxn
  BY DEF Record, Detect, Row
<1>5. /\ ClaimIds' = ClaimIds \cup {Len(claims) + 1}
      /\ Len(claims) + 1 \notin ClaimIds
      /\ \A a, b \in ClaimIds' : a < b => a \in ClaimIds
  BY <1>1, <1>3 DEF ClaimIds
<1> QED
  BY <1>3, <1>4, <1>5 DEF Grows

LEMMA CorrectGrows ==
    ASSUME TypeOK, NEW c \in ClaimIds, NEW v \in KnowledgeValues,
           NEW now \in Times, NEW affected, Correct(c, v, now, affected)
    PROVE  /\ Grows
           /\ ClaimIds' = ClaimIds \cup {Len(claims) + 1}
           /\ Len(claims') = Len(claims) + 1
           /\ Len(claims) + 1 \notin ClaimIds
           /\ \A a, b \in ClaimIds' : a < b => a \in ClaimIds
           /\ claims'[Len(claims) + 1] =
                 [key |-> claims[c].key, value |-> v, origin |-> "human",
                  txn |-> NextTxn]
<1> DEFINE claim == [key |-> claims[c].key, value |-> v, origin |-> "human",
                     txn |-> NextTxn]
<1>1. claims \in Seq(Claim) /\ Len(claims) \in Nat /\ Len(audit) \in Nat
  BY LenProperties DEF TypeOK
<1>2. claim \in Claim
  <2>1. claims[c] \in Claim
    BY <1>1, ElementOfSeq DEF ClaimIds
  <2> QED
    BY <1>1, <2>1 DEF Claim, Origins, NextTxn
<1>3. /\ Len(claims') = Len(claims) + 1
      /\ \A i \in ClaimIds : claims'[i] = claims[i]
      /\ claims'[Len(claims) + 1] = claim
  BY <1>1, <1>2, AppendFacts DEF Correct, ClaimIds
<1>4. changes \subseteq changes' /\ \A r \in changes' \ changes : r.txn = NextTxn
  BY DEF Correct, CorrectionRows, Row
<1>5. /\ ClaimIds' = ClaimIds \cup {Len(claims) + 1}
      /\ Len(claims) + 1 \notin ClaimIds
      /\ \A a, b \in ClaimIds' : a < b => a \in ClaimIds
  BY <1>1, <1>3 DEF ClaimIds
<1> QED
  BY <1>3, <1>4, <1>5 DEF Grows

LEMMA ReviewGrows ==
    ASSUME NEW c, NEW d, NEW now, Review(c, d, now)
    PROVE  Grows
  BY DEF Review, Grows, ClaimIds, Row

LEMMA PastIsFixed ==
    ASSUME TypeOK, Grows, NEW c \in ClaimIds, NEW t \in Nat, t <= NextTxn
    PROVE  /\ RowsBefore(c, t)' = RowsBefore(c, t)
           /\ WithdrawnBefore(c, t)' = WithdrawnBefore(c, t)
<1>1. Len(audit) \in Nat
  BY LenProperties DEF TypeOK
<1>2. RowsBefore(c, t)' = RowsBefore(c, t)
  BY <1>1 DEF RowsBefore, RowsOf, Grows, NextTxn
<1>3. InitialState(c)' = InitialState(c)
  BY DEF InitialState, Grows
<1> QED
  BY <1>2, <1>3 DEF WithdrawnBefore, StateAmong, Latest, SortsBefore

\* Before its own transaction all of a claim's rows are past rows.
LEMMA PastIsPresent ==
    ASSUME TypeOK, NEW c \in ClaimIds
    PROVE  /\ RowsBefore(c, NextTxn) = RowsOf(c)
           /\ WithdrawnBefore(c, NextTxn) = Withdrawn(c)
<1>1. Len(audit) \in Nat /\ \A r \in changes : r.txn \in 1..Len(audit)
  BY LenProperties DEF TypeOK, Txns
<1>2. RowsBefore(c, NextTxn) = RowsOf(c)
  BY <1>1 DEF RowsBefore, RowsOf, NextTxn
<1> QED
  BY <1>2 DEF WithdrawnBefore, Withdrawn, StateIn

(***************************************************************************)
(* Contradiction detection                                                 *)
(***************************************************************************)
Called(a, b) ==
    /\ claims[b].origin = "external"
    /\ Incompatible(a, b)
    /\ ~WithdrawnBefore(a, claims[b].txn)

LEMMA CalledIsFixed ==
    ASSUME TypeOK, Grows, NEW a \in ClaimIds, NEW b \in ClaimIds
    PROVE  Called(a, b)' = Called(a, b)
<1>1. PICK t : t = claims[b].txn
  OBVIOUS
<1>2. t \in Nat /\ t <= NextTxn /\ claims'[b] = claims[b]
      /\ claims'[a] = claims[a]
  BY <1>1, LenProperties DEF TypeOK, Txns, NextTxn, Grows
<1>3. WithdrawnBefore(a, t)' = WithdrawnBefore(a, t)
  BY <1>2, PastIsFixed
<1>4. /\ WithdrawnBefore(a, claims[b].txn) = WithdrawnBefore(a, t)
      /\ WithdrawnBefore(a, claims[b].txn)' = WithdrawnBefore(a, t)'
  BY <1>1, <1>2 DEF WithdrawnBefore, RowsBefore
<1> QED
  BY <1>2, <1>3, <1>4 DEF Called, Incompatible

LEMMA RecordDetects ==
    ASSUME TypeOK, DetectionExact, NEW k \in Keys,
           NEW v \in KnowledgeValues, NEW now \in Times, Record(k, v, now)
    PROVE  DetectionExact'
<1> DEFINE against == Conflicting(k, v)
<1>1. PICK new, t : new = Len(claims) + 1 /\ t = NextTxn
  OBVIOUS
<1>2. /\ Grows /\ ClaimIds' = ClaimIds \cup {new} /\ new \notin ClaimIds
      /\ claims'[new] = [key |-> k, value |-> v, origin |-> "external",
                         txn |-> t]
      /\ \A a, b \in ClaimIds' : a < b => a \in ClaimIds
  BY <1>1, RecordGrows
<1>3. contradictions' = contradictions \cup {{p, new} : p \in against}
  BY <1>1 DEF Record
<1>4. against \subseteq ClaimIds
  BY DEF Conflicting, Priors
<1>5. ASSUME NEW a \in ClaimIds, NEW b \in ClaimIds, a < b
      PROVE  {a, b} \in contradictions' <=> Called(a, b)'
  <2>1. {a, b} \in contradictions' <=> {a, b} \in contradictions
    BY <1>2, <1>3
  <2> QED
    BY <2>1, <1>2, <1>5, CalledIsFixed DEF DetectionExact, Called
<1>6. ASSUME NEW a \in ClaimIds
      PROVE  {a, new} \in contradictions' <=> Called(a, new)'
  <2>1. {a, new} \in contradictions' <=> a \in against
    <3>1. {a, new} \notin contradictions
      BY <1>2 DEF TypeOK
    <3>2. \A p \in against : {a, new} = {p, new} => a = p
      BY <1>2, <1>4
    <3> QED
      BY <3>1, <3>2, <1>3
  <2>2. WithdrawnBefore(a, t)' = Withdrawn(a)
    <3>1. t \in Nat /\ t <= NextTxn
      BY <1>1, LenProperties DEF TypeOK, NextTxn
    <3>2. WithdrawnBefore(a, t)' = WithdrawnBefore(a, t)
      BY <1>2, <3>1, PastIsFixed
    <3> QED
      BY <1>1, <3>2, PastIsPresent
  <2>3. WithdrawnBefore(a, claims[new].txn)' = WithdrawnBefore(a, t)'
    BY <1>2 DEF WithdrawnBefore, RowsBefore
  <2>4. Called(a, new)' <=> /\ claims[a].key = k
                            /\ claims[a].value \in Known /\ v \in Known
                            /\ claims[a].value # v
                            /\ ~Withdrawn(a)
    BY <1>2, <2>2, <2>3 DEF Called, Incompatible, Grows
  <2> QED
    BY <2>1, <2>4 DEF Conflicting, Priors, Comparable
<1> QED
  BY <1>2, <1>5, <1>6 DEF DetectionExact, Called

LEMMA ReviewDetects ==
    ASSUME TypeOK, DetectionExact, NEW c \in ClaimIds, NEW d, NEW now,
           Review(c, d, now)
    PROVE  DetectionExact'
<1>1. Grows /\ ClaimIds' = ClaimIds /\ contradictions' = contradictions
  BY ReviewGrows DEF Review, ClaimIds
<1> QED
  BY <1>1, CalledIsFixed DEF DetectionExact, Called

LEMMA CorrectDetects ==
    ASSUME TypeOK, DetectionExact, NEW c \in ClaimIds,
           NEW v \in KnowledgeValues, NEW now \in Times, NEW affected,
           Correct(c, v, now, affected)
    PROVE  DetectionExact'
<1>1. PICK new : new = Len(claims) + 1
  OBVIOUS
<1>2. /\ Grows /\ ClaimIds' = ClaimIds \cup {new} /\ new \notin ClaimIds
      /\ claims'[new].origin = "human"
      /\ \A a, b \in ClaimIds' : a < b => a \in ClaimIds
  <2>1. /\ Grows /\ ClaimIds' = ClaimIds \cup {Len(claims) + 1}
        /\ Len(claims) + 1 \notin ClaimIds
        /\ \A a, b \in ClaimIds' : a < b => a \in ClaimIds
        /\ claims'[Len(claims) + 1] =
              [key |-> claims[c].key, value |-> v, origin |-> "human",
               txn |-> NextTxn]
    BY CorrectGrows
  <2> QED
    BY <1>1, <2>1
<1>3. contradictions' = contradictions
  BY DEF Correct
<1>4. ASSUME NEW a \in ClaimIds, NEW b \in ClaimIds, a < b
      PROVE  {a, b} \in contradictions' <=> Called(a, b)'
  BY <1>2, <1>3, <1>4, CalledIsFixed DEF DetectionExact, Called
<1>5. ASSUME NEW a \in ClaimIds
      PROVE  {a, new} \notin contradictions' /\ ~Called(a, new)'
  <2>1. {a, new} \notin contradictions
    <3>1. \A pair \in contradictions : pair \subseteq ClaimIds
      BY DEF TypeOK
    <3> QED
      BY <1>2, <3>1
  <2>2. ~Called(a, new)'
    BY <1>2 DEF Called
  <2> QED
    BY <2>1, <2>2, <1>3
<1> QED
  BY <1>2, <1>4, <1>5 DEF DetectionExact, Called

\* The contradictions table is a function of the history: a pair is in it if
\* and only if the later claim came from a source and found the earlier,
\* incompatible claim not withdrawn, for any number of claims and reviews and
\* in any order of the timestamps.
THEOREM DetectionIsExact == StoreSpec => []DetectionExact
<1>1. StoreInit => DetectionExact
  BY DEF StoreInit, DetectionExact, ClaimIds
<1>2. TypeOK /\ DetectionExact /\ [StoreNext]_tables => DetectionExact'
  <2> SUFFICES ASSUME TypeOK, DetectionExact, [StoreNext]_tables
               PROVE  DetectionExact'
    OBVIOUS
  <2>1. CASE UNCHANGED tables
    BY <2>1 DEF tables, DetectionExact, ClaimIds, Incompatible,
                WithdrawnBefore, RowsBefore, RowsOf, StateAmong, Latest,
                SortsBefore, InitialState
  <2>2. CASE \E k \in Keys, v \in KnowledgeValues, now \in Times :
                Record(k, v, now)
    BY <2>2, RecordDetects
  <2>3. CASE \E c \in ClaimIds, d \in Decisions, now \in Times :
                Review(c, d, now)
    BY <2>3, ReviewDetects
  <2>4. CASE \E c \in ClaimIds, d \in Decisions : RefuseReview(c, d)
    BY <2>4, <2>1 DEF RefuseReview
  <2>5. CASE \E c \in ClaimIds, v \in KnowledgeValues, now \in Times,
                affected \in SUBSET Derivations :
                Correct(c, v, now, affected)
    BY <2>5, CorrectDetects
  <2> QED
    BY <2>1, <2>2, <2>3, <2>4, <2>5 DEF StoreNext
<1> QED
  BY <1>1, <1>2, TypeCorrect, PTL DEF StoreSpec

(***************************************************************************)
(* Reviews and facts                                                       *)
(***************************************************************************)

\* A new claim has neither a fact nor a review.
LEMMA NewClaimIsUnreviewed ==
    ASSUME TypeOK, NEW c, c \notin ClaimIds
    PROVE  c \notin facts /\ VerifiedReviews(c) = {}
  BY DEF TypeOK, VerifiedReviews

LEMMA ReviewMatches ==
    ASSUME TypeOK, FactsMatchVerifications, NEW c \in ClaimIds,
           NEW d \in Decisions, NEW now \in Times, Review(c, d, now)
    PROVE  FactsMatchVerifications'
<1> DEFINE review == [claim |-> c, decision |-> d, txn |-> NextTxn]
<1>1. /\ ClaimIds' = ClaimIds /\ reviews' = reviews \cup {review}
      /\ facts' = IF d = "verified" THEN facts \cup {c} ELSE facts
      /\ ~(d = "verified" /\ c \in facts)
  BY DEF Review, ClaimIds, FactsAfter, FactExists
<1> SUFFICES ASSUME NEW b \in ClaimIds
             PROVE  /\ b \in facts' <=> VerifiedReviews(b)' # {}
                    /\ \A u, v \in VerifiedReviews(b)' : u = v
  BY <1>1 DEF FactsMatchVerifications
<1>2. /\ b \in facts <=> VerifiedReviews(b) # {}
      /\ \A u, v \in VerifiedReviews(b) : u = v
  BY DEF FactsMatchVerifications
<1>3. CASE b = c /\ d = "verified"
  <2>1. VerifiedReviews(b) = {}
    BY <1>1, <1>2, <1>3
  <2>2. VerifiedReviews(b)' = {review}
    BY <1>1, <1>3, <2>1 DEF VerifiedReviews
  <2> QED
    BY <1>1, <1>3, <2>2
<1>4. CASE ~(b = c /\ d = "verified")
  <2>1. VerifiedReviews(b)' = VerifiedReviews(b)
    BY <1>1, <1>4 DEF VerifiedReviews
  <2> QED
    BY <1>1, <1>2, <1>4, <2>1
<1> QED
  BY <1>3, <1>4

\* Record and Correct leave the verifying reviews and the facts as they are.
LEMMA NewClaimMatches ==
    ASSUME TypeOK, FactsMatchVerifications, NEW new, new \notin ClaimIds,
           ClaimIds' = ClaimIds \cup {new}, facts' = facts,
           \A v \in reviews' \ reviews : v.decision # "verified",
           reviews \subseteq reviews'
    PROVE  FactsMatchVerifications'
<1>1. ASSUME NEW b PROVE VerifiedReviews(b)' = VerifiedReviews(b)
  BY DEF VerifiedReviews
<1> QED
  BY <1>1, NewClaimIsUnreviewed DEF FactsMatchVerifications

\* The facts table holds exactly the claims with a verifying review, and no
\* claim has two of them, however often reviews are repeated: the UNIQUE
\* constraint on facts.claim_id rolls the second one back.
THEOREM FactsAreVerifications == StoreSpec => []FactsMatchVerifications
<1>1. StoreInit => FactsMatchVerifications
  BY DEF StoreInit, FactsMatchVerifications, ClaimIds
<1>2. TypeOK /\ FactsMatchVerifications /\ [StoreNext]_tables
          => FactsMatchVerifications'
  <2> SUFFICES ASSUME TypeOK, FactsMatchVerifications, [StoreNext]_tables
               PROVE  FactsMatchVerifications'
    OBVIOUS
  <2>1. CASE UNCHANGED tables
    BY <2>1 DEF tables, FactsMatchVerifications, VerifiedReviews, ClaimIds
  <2>2. ASSUME NEW k \in Keys, NEW v \in KnowledgeValues, NEW now \in Times,
               Record(k, v, now)
        PROVE  FactsMatchVerifications'
    <3>1. PICK new : new = Len(claims) + 1
      OBVIOUS
    <3>2. ClaimIds' = ClaimIds \cup {new} /\ new \notin ClaimIds
      BY <2>2, <3>1, RecordGrows
    <3>3. reviews' = reviews /\ facts' = facts
      BY <2>2 DEF Record
    <3> QED
      BY <3>2, <3>3, NewClaimMatches
  <2>3. ASSUME NEW c \in ClaimIds, NEW d \in Decisions, NEW now \in Times,
               Review(c, d, now)
        PROVE  FactsMatchVerifications'
    BY <2>3, ReviewMatches
  <2>4. ASSUME NEW c \in ClaimIds, NEW d \in Decisions, RefuseReview(c, d)
        PROVE  FactsMatchVerifications'
    BY <2>4, <2>1 DEF RefuseReview
  <2>5. ASSUME NEW c \in ClaimIds, NEW v \in KnowledgeValues,
               NEW now \in Times, NEW affected \in SUBSET Derivations,
               Correct(c, v, now, affected)
        PROVE  FactsMatchVerifications'
    <3>1. PICK new : new = Len(claims) + 1
      OBVIOUS
    <3>2. ClaimIds' = ClaimIds \cup {new} /\ new \notin ClaimIds
      BY <2>5, <3>1, CorrectGrows
    <3>3. /\ reviews \subseteq reviews' /\ facts' = facts
          /\ \A r \in reviews' \ reviews : r.decision # "verified"
      BY <2>5 DEF Correct
    <3> QED
      BY <3>2, <3>3, NewClaimMatches
  <2> QED
    BY <2>1, <2>2, <2>3, <2>4, <2>5 DEF StoreNext
<1> QED
  BY <1>1, <1>2, TypeCorrect, PTL DEF StoreSpec

(***************************************************************************)
(* What is established has a fact.  The state of a claim is the row with   *)
(* the greatest timestamp, which may be any of its rows; so the invariant  *)
(* is about all of them.                                                   *)
(***************************************************************************)
VerifiedRowsHaveFacts ==
    \A r \in changes :
        (r.state = "verified" /\ claims[r.claim].origin = "external")
            => r.claim \in facts

\* A step keeps the invariant if the rows it adds satisfy it.
LEMMA NewRowsHaveFacts ==
    ASSUME TypeOK, VerifiedRowsHaveFacts, Grows, facts \subseteq facts',
           \A r \in changes' \ changes :
               (r.state = "verified" /\ claims'[r.claim].origin = "external")
                   => r.claim \in facts'
    PROVE  VerifiedRowsHaveFacts'
<1>1. \A r \in changes : claims'[r.claim] = claims[r.claim]
  BY DEF TypeOK, Grows
<1> QED
  BY <1>1 DEF VerifiedRowsHaveFacts

LEMMA StepHasFacts ==
    ASSUME TypeOK, VerifiedRowsHaveFacts, [StoreNext]_tables
    PROVE  VerifiedRowsHaveFacts'
<1>1. CASE UNCHANGED tables
  BY <1>1 DEF tables, VerifiedRowsHaveFacts
<1>2. ASSUME NEW k \in Keys, NEW v \in KnowledgeValues, NEW now \in Times,
             Record(k, v, now)
      PROVE  VerifiedRowsHaveFacts'
  <2>1. Grows /\ facts' = facts
    BY <1>2, RecordGrows DEF Record
  <2>2. \A r \in changes' \ changes : r.state = "contradicted"
    BY <1>2 DEF Record, Detect, Row
  <2> QED
    BY <2>1, <2>2, NewRowsHaveFacts
<1>3. ASSUME NEW c \in ClaimIds, NEW d \in Decisions, NEW now \in Times,
             Review(c, d, now)
      PROVE  VerifiedRowsHaveFacts'
  <2>1. Grows
    BY <1>3, ReviewGrows
  <2>2. facts' = IF d = "verified" THEN facts \cup {c} ELSE facts
    BY <1>3 DEF Review, FactsAfter
  <2>3. \A r \in changes' \ changes : r.claim = c /\ r.state = StateOf[d]
    BY <1>3 DEF Review, Row
  <2>4. StateOf[d] = "verified" => d = "verified"
    BY DEF StateOf, Decisions
  <2> QED
    BY <2>1, <2>2, <2>3, <2>4, NewRowsHaveFacts
<1>4. ASSUME NEW c \in ClaimIds, NEW d \in Decisions, RefuseReview(c, d)
      PROVE  VerifiedRowsHaveFacts'
  BY <1>4, <1>1 DEF RefuseReview
<1>5. ASSUME NEW c \in ClaimIds, NEW v \in KnowledgeValues,
             NEW now \in Times, NEW affected \in SUBSET Derivations,
             Correct(c, v, now, affected)
      PROVE  VerifiedRowsHaveFacts'
  <2>1. PICK new : new = Len(claims) + 1
    OBVIOUS
  <2>2. Grows /\ claims'[new].origin = "human"
    <3>1. /\ Grows
          /\ claims'[new] = [key |-> claims[c].key, value |-> v,
                             origin |-> "human", txn |-> NextTxn]
      BY <1>5, <2>1, CorrectGrows
    <3> QED
      BY <3>1
  <2>3. \A r \in changes' \ changes : r.state = "verified" => r.claim = new
    BY <1>5, <2>1 DEF Correct, CorrectionRows, Row
  <2>4. facts' = facts
    BY <1>5 DEF Correct
  <2> QED
    BY <2>2, <2>3, <2>4, NewRowsHaveFacts
<1> QED
  BY <1>1, <1>2, <1>3, <1>4, <1>5 DEF StoreNext

\* A claim from a source is verified only with a fact, whichever of its rows
\* has the greatest timestamp: clocks may go back and transactions may commit
\* in any order.
THEOREM EstablishedHasFactAlways == StoreSpec => []EstablishedHasFact
<1>1. StoreInit => VerifiedRowsHaveFacts
  BY DEF StoreInit, VerifiedRowsHaveFacts
<1>2. TypeOK /\ VerifiedRowsHaveFacts /\ [StoreNext]_tables
          => VerifiedRowsHaveFacts'
  BY StepHasFacts
<1>3. VerifiedRowsHaveFacts => EstablishedHasFact
  <2> SUFFICES ASSUME VerifiedRowsHaveFacts, NEW c \in ClaimIds,
                      claims[c].origin = "external", StateIs(c, "verified")
               PROVE  c \in facts
    BY DEF EstablishedHasFact
  <2>1. RowsOf(c) # {}
    BY DEF StateIs, StateIn, StateAmong, InitialState
  <2>2. PICK r \in RowsOf(c) : r.state = "verified"
    BY <2>1 DEF StateIs, StateIn, StateAmong, Latest
  <2> QED
    BY <2>2 DEF RowsOf, VerifiedRowsHaveFacts
<1> QED
  BY <1>1, <1>2, <1>3, TypeCorrect, PTL DEF StoreSpec

(***************************************************************************)
(* Corrections                                                             *)
(***************************************************************************)
HasEvidence(c) ==
    /\ Edge(c, "supported_by", c) \in edges
    /\ \A k \in corrections : k.corrected # c

Replaces(c, k) ==
    /\ k.corrected = c
    /\ k.original < c /\ claims[k.original].key = claims[c].key
    /\ Edge(c, "supersedes", k.original) \in edges
    /\ \A l \in corrections : l.corrected = c => l = k

\* What is traced stays traced while no correction of it is added.
LEMMA TraceStays ==
    ASSUME TypeOK, CorrectionsTraceToEvidence, Grows, NEW c \in ClaimIds,
           edges \subseteq edges', corrections \subseteq corrections',
           \A k \in corrections' \ corrections : k.corrected # c
    PROVE  IF claims'[c].origin = "external"
           THEN HasEvidence(c)'
           ELSE \E k \in corrections' : Replaces(c, k)'
<1>1. claims'[c] = claims[c]
  BY DEF Grows
<1>2. CASE claims[c].origin = "external"
  BY <1>1, <1>2 DEF CorrectionsTraceToEvidence, HasEvidence, Edge
<1>3. CASE claims[c].origin # "external"
  <2>1. PICK k \in corrections : Replaces(c, k)
    BY <1>3 DEF CorrectionsTraceToEvidence, Replaces
  <2>2. k.original \in ClaimIds
    BY <2>1 DEF TypeOK
  <2>3. claims'[k.original] = claims[k.original]
    BY <2>2 DEF Grows
  <2>4. Replaces(c, k)'
    BY <1>1, <2>1, <2>3 DEF Replaces, Edge
  <2> QED
    BY <1>1, <1>3, <2>1, <2>4
<1> QED
  BY <1>2, <1>3

LEMMA RecordTraces ==
    ASSUME TypeOK, CorrectionsTraceToEvidence, NEW k \in Keys,
           NEW v \in KnowledgeValues, NEW now \in Times, Record(k, v, now)
    PROVE  CorrectionsTraceToEvidence'
<1>1. PICK new : new = Len(claims) + 1
  OBVIOUS
<1>2. /\ Grows /\ ClaimIds' = ClaimIds \cup {new} /\ new \notin ClaimIds
      /\ claims'[new] = [key |-> k, value |-> v, origin |-> "external",
                         txn |-> NextTxn]
  BY <1>1, RecordGrows
<1>3. /\ edges \subseteq edges' /\ corrections' = corrections
      /\ Edge(new, "supported_by", new) \in edges'
  BY <1>1 DEF Record
<1>4. claims'[new].origin = "external"
  BY <1>2
<1>5. HasEvidence(new)'
  BY <1>2, <1>3 DEF HasEvidence, Edge, TypeOK
<1> QED
  BY <1>2, <1>3, <1>4, <1>5, TraceStays
  DEF CorrectionsTraceToEvidence, HasEvidence, Replaces

LEMMA CorrectTraces ==
    ASSUME TypeOK, CorrectionsTraceToEvidence, NEW c \in ClaimIds,
           NEW v \in KnowledgeValues, NEW now \in Times,
           NEW affected \in SUBSET Derivations, Correct(c, v, now, affected)
    PROVE  CorrectionsTraceToEvidence'
<1>1. PICK new, t : new = Len(claims) + 1 /\ t = NextTxn
  OBVIOUS
<1> DEFINE correction == [original |-> c, corrected |-> new,
                          affected |-> affected, txn |-> t]
<1>2. /\ Grows /\ ClaimIds' = ClaimIds \cup {new} /\ new \notin ClaimIds
      /\ claims'[new] = [key |-> claims[c].key, value |-> v,
                         origin |-> "human", txn |-> t]
      /\ \A a, b \in ClaimIds' : a < b => a \in ClaimIds
  BY <1>1, CorrectGrows
<1>3. /\ edges' = edges \cup {Edge(new, "supersedes", c)}
      /\ corrections' = corrections \cup {correction}
  BY <1>1 DEF Correct, SupersedesEdge
<1>4. /\ claims'[new].origin = "human" /\ claims'[new].key = claims[c].key
      /\ claims'[c] = claims[c] /\ c < new
  BY <1>1, <1>2, LenProperties DEF Grows, TypeOK, ClaimIds
<1>5. Replaces(new, correction)'
  <2>1. \A l \in corrections : l.corrected # new
    BY <1>2 DEF TypeOK
  <2> QED
    BY <1>3, <1>4, <2>1 DEF Replaces, Edge
<1>6. \A b \in ClaimIds : b # new
  BY <1>2
<1>7. ASSUME NEW b \in ClaimIds'
      PROVE  IF claims'[b].origin = "external"
             THEN HasEvidence(b)'
             ELSE \E k \in corrections' : Replaces(b, k)'
  <2>1. CASE b \in ClaimIds
    BY <1>2, <1>3, <1>6, <2>1, TraceStays
  <2>2. CASE b = new
    <3>1. correction \in corrections' /\ claims'[b].origin # "external"
      BY <1>3, <1>4, <2>2
    <3> QED
      BY <1>5, <2>2, <3>1
  <2> QED
    BY <1>2, <2>1, <2>2
<1> QED
  BY <1>7 DEF CorrectionsTraceToEvidence, HasEvidence, Replaces

\* Every chain of corrections ends at a claim that has evidence, however many
\* corrections there are of one claim and of its corrections.
THEOREM CorrectionsTrace == StoreSpec => []CorrectionsTraceToEvidence
<1>1. StoreInit => CorrectionsTraceToEvidence
  BY DEF StoreInit, CorrectionsTraceToEvidence, ClaimIds
<1>2. TypeOK /\ CorrectionsTraceToEvidence /\ [StoreNext]_tables
          => CorrectionsTraceToEvidence'
  <2> SUFFICES ASSUME TypeOK, CorrectionsTraceToEvidence, [StoreNext]_tables
               PROVE  CorrectionsTraceToEvidence'
    OBVIOUS
  <2>1. CASE UNCHANGED tables
    BY <2>1 DEF tables, CorrectionsTraceToEvidence, ClaimIds, Edge
  <2>2. ASSUME NEW k \in Keys, NEW v \in KnowledgeValues, NEW now \in Times,
               Record(k, v, now)
        PROVE  CorrectionsTraceToEvidence'
    BY <2>2, RecordTraces
  <2>3. ASSUME NEW c \in ClaimIds, NEW d \in Decisions, NEW now \in Times,
               Review(c, d, now)
        PROVE  CorrectionsTraceToEvidence'
    BY <2>3 DEF Review, CorrectionsTraceToEvidence, ClaimIds, Edge
  <2>4. ASSUME NEW c \in ClaimIds, NEW d \in Decisions, RefuseReview(c, d)
        PROVE  CorrectionsTraceToEvidence'
    BY <2>4, <2>1 DEF RefuseReview
  <2>5. ASSUME NEW c \in ClaimIds, NEW v \in KnowledgeValues,
               NEW now \in Times, NEW affected \in SUBSET Derivations,
               Correct(c, v, now, affected)
        PROVE  CorrectionsTraceToEvidence'
    BY <2>5, CorrectTraces
  <2> QED
    BY <2>1, <2>2, <2>3, <2>4, <2>5 DEF StoreNext
<1> QED
  BY <1>1, <1>2, TypeCorrect, PTL DEF StoreSpec

(***************************************************************************)
(* No table loses a row, and a transaction adds one audit event.           *)
(***************************************************************************)

\* What every transaction that commits does besides Grows: the tables that
\* later transactions refer to only get rows, and the log one event.
Commits(event) ==
    /\ Grows
    /\ audit' = Append(audit, event)
    /\ reviews \subseteq reviews' /\ facts \subseteq facts'
    /\ contradictions \subseteq contradictions'
    /\ corrections \subseteq corrections' /\ edges \subseteq edges'

LEMMA RecordCommits ==
    ASSUME TypeOK, NEW k \in Keys, NEW v \in KnowledgeValues,
           NEW now \in Times, Record(k, v, now)
    PROVE  Commits([op |-> "claim.record", target |-> Len(claims) + 1])
<1>1. Grows
  BY RecordGrows
<1> QED
  BY <1>1 DEF Commits, Record

LEMMA ReviewCommits ==
    ASSUME NEW c, NEW d, NEW now, Review(c, d, now)
    PROVE  Commits([op |-> "claim.review", target |-> c])
<1>1. Grows
  BY ReviewGrows
<1> QED
  BY <1>1 DEF Commits, Review, FactsAfter

LEMMA CorrectCommits ==
    ASSUME TypeOK, NEW c \in ClaimIds, NEW v \in KnowledgeValues,
           NEW now \in Times, NEW affected, Correct(c, v, now, affected)
    PROVE  Commits([op |-> "claim.correct", target |-> c])
<1>1. Grows
  BY CorrectGrows
<1> QED
  BY <1>1 DEF Commits, Correct

\* The event of a transaction gets the next number, the others keep theirs.
LEMMA LogGrows ==
    ASSUME TypeOK, NEW event, Commits(event)
    PROVE  /\ Len(audit) \in Nat /\ Len(audit') = NextTxn
           /\ Txns' = Txns \cup {NextTxn} /\ NextTxn \notin Txns
           /\ \A t \in Txns : audit'[t] = audit[t]
           /\ audit'[NextTxn] = event
<1> DEFINE Events == [op : Operations, target : ClaimIds] \cup {event}
<1>1. audit \in Seq(Events)
  <2>1. [op : Operations, target : ClaimIds] \subseteq Events
    OBVIOUS
  <2> HIDE DEF Events
  <2>2. audit \in Seq([op : Operations, target : ClaimIds])
    BY DEF TypeOK
  <2> QED
    BY ONLY <2>1, <2>2, SeqMonotonic
<1>2. event \in Events
  OBVIOUS
<1> HIDE DEF Events
<1>3. /\ Len(audit) \in Nat
      /\ Len(audit') = Len(audit) + 1
      /\ \A i \in 1..Len(audit) : audit'[i] = audit[i]
      /\ audit'[Len(audit) + 1] = event
  BY <1>1, <1>2, AppendFacts DEF Commits
<1> QED
  BY <1>3 DEF Txns, NextTxn

\* A step of the store either leaves the tables alone or adds one audit event
\* and loses no row: record_claim, review_claim and correct_claim insert only,
\* and a request that is refused leaves nothing.
THEOREM TablesOnlyGrow == StoreSpec => AuditedGrowth
<1> DEFINE Audited ==
        /\ Len(audit') = Len(audit) + 1
        /\ \A t \in Txns : audit'[t] = audit[t]
        /\ Len(claims') >= Len(claims)
        /\ \A c \in ClaimIds : claims'[c] = claims[c]
        /\ changes \subseteq changes' /\ reviews \subseteq reviews'
        /\ facts \subseteq facts' /\ edges \subseteq edges'
        /\ contradictions \subseteq contradictions'
        /\ corrections \subseteq corrections'
<1>1. TypeOK /\ [StoreNext]_tables => [UNCHANGED tables \/ Audited]_tables
  <2> SUFFICES ASSUME TypeOK, [StoreNext]_tables
               PROVE  UNCHANGED tables \/ Audited
    OBVIOUS
  <2>1. ASSUME NEW event, Commits(event), Len(claims') >= Len(claims)
        PROVE  Audited
    BY <2>1, LogGrows DEF Commits, Grows, NextTxn
  <2>2. Len(claims) \in Nat
    BY LenProperties DEF TypeOK
  <2>3. ASSUME NEW k \in Keys, NEW v \in KnowledgeValues, NEW now \in Times,
               Record(k, v, now)
        PROVE  Audited
    <3>1. Len(claims') = Len(claims) + 1
      BY <2>3, RecordGrows
    <3>2. Len(claims') >= Len(claims)
      BY <2>2, <3>1
    <3> QED
      BY <2>1, <2>3, <3>2, RecordCommits
  <2>4. ASSUME NEW c \in ClaimIds, NEW d \in Decisions, NEW now \in Times,
               Review(c, d, now)
        PROVE  Audited
    <3>1. Len(claims') >= Len(claims)
      BY <2>2, <2>4 DEF Review
    <3> QED
      BY <2>1, <2>4, <3>1, ReviewCommits
  <2>5. ASSUME NEW c \in ClaimIds, NEW v \in KnowledgeValues,
               NEW now \in Times, NEW affected \in SUBSET Derivations,
               Correct(c, v, now, affected)
        PROVE  Audited
    <3>1. Len(claims') = Len(claims) + 1
      BY <2>5, CorrectGrows
    <3>2. Len(claims') >= Len(claims)
      BY <2>2, <3>1
    <3> QED
      BY <2>1, <2>5, <3>2, CorrectCommits
  <2>6. ASSUME NEW c \in ClaimIds, NEW d \in Decisions, RefuseReview(c, d)
        PROVE  UNCHANGED tables
    BY <2>6 DEF RefuseReview
  <2> QED
    BY <2>3, <2>4, <2>5, <2>6 DEF StoreNext
<1> QED
  BY <1>1, TypeCorrect, PTL DEF StoreSpec, AuditedGrowth

(***************************************************************************)
(* Contradictions are visible from both sides.                             *)
(***************************************************************************)

\* The pair of a and the later claim b has its two edges and its two rows.
Visible(a, b) ==
    /\ {Edge(a, "contradicts", b), Edge(b, "contradicts", a)} \subseteq edges
    /\ \A c \in {a, b} : \E r \in RowsOf(c) :
           r.state = "contradicted" /\ r.txn = claims[b].txn

LEMMA VisibleStays ==
    ASSUME NEW event, Commits(event), NEW a \in ClaimIds, NEW b \in ClaimIds,
           Visible(a, b)
    PROVE  Visible(a, b)'
<1>1. claims'[b] = claims[b] /\ edges \subseteq edges'
  BY DEF Commits, Grows
<1>2. \A c : RowsOf(c) \subseteq RowsOf(c)'
  BY DEF Commits, Grows, RowsOf
<1> QED
  BY <1>1, <1>2 DEF Visible, Edge

LEMMA RecordIsVisible ==
    ASSUME TypeOK, ContradictionVisible, NEW k \in Keys,
           NEW v \in KnowledgeValues, NEW now \in Times, Record(k, v, now)
    PROVE  ContradictionVisible'
<1> DEFINE against == Conflicting(k, v)
<1>1. PICK new, t : new = Len(claims) + 1 /\ t = NextTxn
  OBVIOUS
<1>2. /\ ClaimIds' = ClaimIds \cup {new} /\ new \notin ClaimIds
      /\ claims'[new] = [key |-> k, value |-> v, origin |-> "external",
                         txn |-> t]
      /\ \A a, b \in ClaimIds' : a < b => a \in ClaimIds
  BY <1>1, RecordGrows
<1>3. contradictions' = contradictions \cup {{p, new} : p \in against}
  BY <1>1 DEF Record
<1>4. against \subseteq ClaimIds
  BY DEF Conflicting, Priors
<1>5. ASSUME NEW a \in ClaimIds, NEW b \in ClaimIds, a < b,
             {a, b} \in contradictions'
      PROVE  Visible(a, b)'
  <2>1. {a, b} \in contradictions
    BY <1>2, <1>3, <1>5
  <2>2. Visible(a, b)
    BY <1>5, <2>1 DEF ContradictionVisible, Visible
  <2> QED
    BY <2>2, RecordCommits, VisibleStays
<1>6. ASSUME NEW a \in ClaimIds, {a, new} \in contradictions'
      PROVE  Visible(a, new)'
  <2>1. a \in against
    <3>1. \A pair \in contradictions : pair \subseteq ClaimIds
      BY DEF TypeOK
    <3>2. \A p \in against : {a, new} = {p, new} => a = p
      BY <1>2, <1>4
    <3> QED
      BY <3>1, <3>2, <1>2, <1>3, <1>6
  <2>2. {Edge(a, "contradicts", new), Edge(new, "contradicts", a)} \subseteq edges'
    BY <1>1, <2>1 DEF Record
  <2>3. PICK rank \in [against -> {NextTxn, -NextTxn}] :
           changes' = changes
               \cup {Row(p, "contradicted", now, rank[p]) : p \in against}
               \cup (IF against = {} THEN {}
                     ELSE {Row(new, "contradicted", now, NextTxn)})
    BY <1>1 DEF Record, Detect
  <2>4. /\ Row(a, "contradicted", now, rank[a]) \in changes'
        /\ Row(new, "contradicted", now, NextTxn) \in changes'
    BY <2>1, <2>3
  <2>5. claims'[new].txn = t
    BY <1>2
  <2>6. \A c \in {a, new} : \E r \in RowsOf(c)' :
           r.state = "contradicted" /\ r.txn = t
    BY <1>1, <2>4 DEF RowsOf, Row
  <2> QED
    BY <2>2, <2>5, <2>6 DEF Visible, Edge
<1> QED
  BY <1>2, <1>5, <1>6 DEF ContradictionVisible, Visible

\* A transaction that adds no contradiction keeps all of them visible.
LEMMA OthersKeepVisible ==
    ASSUME TypeOK, ContradictionVisible, NEW event, Commits(event),
           contradictions' = contradictions
    PROVE  ContradictionVisible'
<1> SUFFICES ASSUME NEW a \in ClaimIds', NEW b \in ClaimIds', a < b,
                    {a, b} \in contradictions
             PROVE  Visible(a, b)'
  BY DEF ContradictionVisible, Visible
<1>1. a \in ClaimIds /\ b \in ClaimIds
  <2>1. \A pair \in contradictions : pair \subseteq ClaimIds
    BY DEF TypeOK
  <2> QED
    BY <2>1
<1>2. Visible(a, b)
  BY <1>1 DEF ContradictionVisible, Visible
<1> QED
  BY <1>1, <1>2, VisibleStays

\* Whichever of the two claims of a contradiction is looked at, its edges and
\* its state history show it: record_claim writes both sides in the
\* transaction that finds the conflict, and nothing removes them.
THEOREM ContradictionsAreVisible == StoreSpec => []ContradictionVisible
<1>1. StoreInit => ContradictionVisible
  BY DEF StoreInit, ContradictionVisible, ClaimIds
<1>2. TypeOK /\ ContradictionVisible /\ [StoreNext]_tables
          => ContradictionVisible'
  <2> SUFFICES ASSUME TypeOK, ContradictionVisible, [StoreNext]_tables
               PROVE  ContradictionVisible'
    OBVIOUS
  <2>1. CASE UNCHANGED tables
    BY <2>1 DEF tables, ContradictionVisible, ClaimIds, RowsOf, Edge
  <2>2. ASSUME NEW k \in Keys, NEW v \in KnowledgeValues, NEW now \in Times,
               Record(k, v, now)
        PROVE  ContradictionVisible'
    BY <2>2, RecordIsVisible
  <2>3. ASSUME NEW c \in ClaimIds, NEW d \in Decisions, NEW now \in Times,
               Review(c, d, now)
        PROVE  ContradictionVisible'
    BY <2>3, ReviewCommits, OthersKeepVisible DEF Review
  <2>4. ASSUME NEW c \in ClaimIds, NEW d \in Decisions, RefuseReview(c, d)
        PROVE  ContradictionVisible'
    BY <2>4, <2>1 DEF RefuseReview
  <2>5. ASSUME NEW c \in ClaimIds, NEW v \in KnowledgeValues,
               NEW now \in Times, NEW affected \in SUBSET Derivations,
               Correct(c, v, now, affected)
        PROVE  ContradictionVisible'
    BY <2>5, CorrectCommits, OthersKeepVisible DEF Correct
  <2> QED
    BY <2>1, <2>2, <2>3, <2>4, <2>5 DEF StoreNext
<1> QED
  BY <1>1, <1>2, TypeCorrect, PTL DEF StoreSpec

(***************************************************************************)
(* The audit log and the state history.                                    *)
(***************************************************************************)

\* Rows and events that are accounted for stay so: what explains them is
\* never removed, and no later transaction has their number.
LEMMA AccountsStay ==
    ASSUME TypeOK, HistoryAccountable, NEW event, Commits(event)
    PROVE  /\ \A r \in changes : RowExplained(r)'
           /\ \A t \in Txns : EventHasEffect(t)'
<1>1. /\ \A t \in Txns : audit'[t] = audit[t]
      /\ ClaimIds \subseteq ClaimIds'
      /\ \A c \in ClaimIds : claims'[c] = claims[c]
  BY LogGrows DEF Commits, Grows
<1>2. ASSUME NEW r \in changes
      PROVE  RowExplained(r)'
  <2>1. r.txn \in Txns /\ RowExplained(r)
    BY DEF TypeOK, HistoryAccountable
  <2>2. audit'[r.txn] = audit[r.txn]
    BY <1>1, <2>1
  <2>3. /\ reviews \subseteq reviews' /\ corrections \subseteq corrections'
        /\ contradictions \subseteq contradictions'
    BY DEF Commits
  <2> QED
    BY <1>1, <2>1, <2>2, <2>3 DEF RowExplained
<1>3. ASSUME NEW t \in Txns
      PROVE  EventHasEffect(t)'
  <2>1. EventHasEffect(t) /\ audit'[t] = audit[t]
    BY <1>1 DEF HistoryAccountable
  <2>2. audit[t].target \in ClaimIds
    <3>1. audit[t] \in [op : Operations, target : ClaimIds]
      BY ElementOfSeq DEF TypeOK, Txns
    <3> QED
      BY <3>1
  <2>3. changes \subseteq changes'
    BY DEF Commits, Grows
  <2> QED
    BY <1>1, <2>1, <2>2, <2>3 DEF EventHasEffect
<1> QED
  BY <1>2, <1>3

\* So a transaction has to account for its own rows and its own event.
LEMMA CommitAccounts ==
    ASSUME TypeOK, HistoryAccountable, NEW event, Commits(event),
           \A r \in changes' \ changes : RowExplained(r)',
           NEW t, t = NextTxn, EventHasEffect(t)'
    PROVE  HistoryAccountable'
<1>1. Txns' = Txns \cup {t}
  BY LogGrows
<1>2. \A r \in changes' : RowExplained(r)'
  BY AccountsStay
<1>3. \A i \in Txns' : EventHasEffect(i)'
  BY <1>1, AccountsStay
<1> QED
  BY <1>2, <1>3 DEF HistoryAccountable

LEMMA RecordAccounts ==
    ASSUME TypeOK, HistoryAccountable, NEW k \in Keys,
           NEW v \in KnowledgeValues, NEW now \in Times, Record(k, v, now)
    PROVE  HistoryAccountable'
<1> DEFINE against == Conflicting(k, v)
<1>1. PICK new, t : new = Len(claims) + 1 /\ t = NextTxn
  OBVIOUS
<1> DEFINE event == [op |-> "claim.record", target |-> new]
<1>2. Commits(event)
  BY <1>1, RecordCommits
<1>3. audit'[t] = event
  BY <1>1, <1>2, LogGrows
<1>4. /\ ClaimIds' = ClaimIds \cup {new}
      /\ claims'[new] = [key |-> k, value |-> v, origin |-> "external",
                         txn |-> t]
  BY <1>1, RecordGrows
<1>5. EventHasEffect(t)'
  BY <1>3, <1>4 DEF EventHasEffect
<1>6. ASSUME NEW r \in changes' \ changes
      PROVE  RowExplained(r)'
  <2>1. PICK rank \in [against -> {NextTxn, -NextTxn}] :
           changes' = changes
               \cup {Row(p, "contradicted", now, rank[p]) : p \in against}
               \cup (IF against = {} THEN {}
                     ELSE {Row(new, "contradicted", now, NextTxn)})
    BY <1>1 DEF Record, Detect
  <2>2. PICK p \in against : r.claim \in {p, new}
    BY <2>1 DEF Row
  <2>3. r.state = "contradicted" /\ r.txn = t
    BY <1>1, <2>1 DEF Row
  <2>4. p \in ClaimIds'
    BY <1>4 DEF Conflicting, Priors
  <2>5. {new, p} \in contradictions'
    <3>1. {p, new} \in contradictions'
      BY <1>1 DEF Record
    <3>2. {p, new} = {new, p}
      OBVIOUS
    <3> QED
      BY <3>1, <3>2
  <2>6. /\ audit'[r.txn].op = "claim.record" /\ audit'[r.txn].target = new
    BY <1>3, <2>3
  <2> QED
    BY <2>2, <2>3, <2>4, <2>5, <2>6 DEF RowExplained
<1> QED
  BY <1>1, <1>2, <1>5, <1>6, CommitAccounts

LEMMA ReviewAccounts ==
    ASSUME TypeOK, HistoryAccountable, NEW c \in ClaimIds, NEW d \in Decisions,
           NEW now \in Times, Review(c, d, now)
    PROVE  HistoryAccountable'
<1>1. PICK t : t = NextTxn
  OBVIOUS
<1> DEFINE event == [op |-> "claim.review", target |-> c]
           review == [claim |-> c, decision |-> d, txn |-> t]
<1>2. Commits(event)
  BY ReviewCommits
<1>3. audit'[t] = event
  BY <1>1, <1>2, LogGrows
<1>4. PICK rank : changes' = changes \cup {Row(c, StateOf[d], now, rank)}
  BY DEF Review
<1>5. EventHasEffect(t)'
  <2>1. Row(c, StateOf[d], now, rank) \in changes'
    BY <1>4
  <2> QED
    BY <1>1, <1>3, <2>1 DEF EventHasEffect, Row
<1>6. ASSUME NEW r \in changes' \ changes
      PROVE  RowExplained(r)'
  <2>1. r.claim = c /\ r.state = StateOf[d] /\ r.txn = t
    BY <1>1, <1>4 DEF Row
  <2>2. review \in reviews' /\ d # "corrected"
    BY <1>1 DEF Review, Decisions
  <2> QED
    BY <1>3, <2>1, <2>2 DEF RowExplained
<1> QED
  BY <1>1, <1>2, <1>5, <1>6, CommitAccounts

LEMMA CorrectAccounts ==
    ASSUME TypeOK, HistoryAccountable, NEW c \in ClaimIds,
           NEW v \in KnowledgeValues, NEW now \in Times,
           NEW affected \in SUBSET Derivations, Correct(c, v, now, affected)
    PROVE  HistoryAccountable'
<1>1. PICK new, t : new = Len(claims) + 1 /\ t = NextTxn
  OBVIOUS
<1> DEFINE event == [op |-> "claim.correct", target |-> c]
           correction == [original |-> c, corrected |-> new,
                          affected |-> affected, txn |-> t]
<1>2. Commits(event)
  BY CorrectCommits
<1>3. audit'[t] = event
  BY <1>1, <1>2, LogGrows
<1>4. PICK rank :
         changes' = changes \cup {Row(c, "superseded", now, rank),
                                  Row(new, "verified", now, NextTxn)}
  BY <1>1 DEF Correct, CorrectionRows
<1>5. EventHasEffect(t)'
  <2>1. Row(c, "superseded", now, rank) \in changes'
    BY <1>4
  <2> QED
    BY <1>1, <1>3, <2>1 DEF EventHasEffect, Row
<1>6. ASSUME NEW r \in changes' \ changes
      PROVE  RowExplained(r)'
  <2>1. /\ r.txn = t
        /\ \/ r.claim = c /\ r.state = "superseded"
           \/ r.claim = new /\ r.state = "verified"
    BY <1>1, <1>4 DEF Row
  <2>2. correction \in corrections'
    BY <1>1 DEF Correct
  <2> QED
    BY <1>3, <2>1, <2>2 DEF RowExplained
<1> QED
  BY <1>1, <1>2, <1>5, <1>6, CommitAccounts

\* Every row of the state history is explained by the audit event of its
\* transaction and the review, contradiction or correction of the same
\* transaction, and every audit event had its effect, for any sequence of
\* transactions: each operation writes its rows and its event together.
THEOREM HistoryIsAccountable == StoreSpec => []HistoryAccountable
<1>1. StoreInit => HistoryAccountable
  BY DEF StoreInit, HistoryAccountable, Txns
<1>2. TypeOK /\ HistoryAccountable /\ [StoreNext]_tables => HistoryAccountable'
  <2> SUFFICES ASSUME TypeOK, HistoryAccountable, [StoreNext]_tables
               PROVE  HistoryAccountable'
    OBVIOUS
  <2>1. CASE UNCHANGED tables
    BY <2>1 DEF tables, HistoryAccountable, RowExplained, EventHasEffect,
                Txns, ClaimIds
  <2>2. ASSUME NEW k \in Keys, NEW v \in KnowledgeValues, NEW now \in Times,
               Record(k, v, now)
        PROVE  HistoryAccountable'
    BY <2>2, RecordAccounts
  <2>3. ASSUME NEW c \in ClaimIds, NEW d \in Decisions, NEW now \in Times,
               Review(c, d, now)
        PROVE  HistoryAccountable'
    BY <2>3, ReviewAccounts
  <2>4. ASSUME NEW c \in ClaimIds, NEW d \in Decisions, RefuseReview(c, d)
        PROVE  HistoryAccountable'
    BY <2>4, <2>1 DEF RefuseReview
  <2>5. ASSUME NEW c \in ClaimIds, NEW v \in KnowledgeValues,
               NEW now \in Times, NEW affected \in SUBSET Derivations,
               Correct(c, v, now, affected)
        PROVE  HistoryAccountable'
    BY <2>5, CorrectAccounts
  <2> QED
    BY <2>1, <2>2, <2>3, <2>4, <2>5 DEF StoreNext
<1> QED
  BY <1>1, <1>2, TypeCorrect, PTL DEF StoreSpec

(***************************************************************************)
(* What a row does to the state that is read.                              *)
(***************************************************************************)

\* A row that is added under other states than S does not bring the claim
\* into S: what sorts last among more rows sorted last among fewer.
LEMMA RowsOutsideStay ==
    ASSUME NEW c, NEW rows, NEW more, NEW S, rows \subseteq more,
           \A r \in more \ rows : r.state \notin S,
           ~StateAmong(c, rows, S)
    PROVE  more # {} => ~\E r \in Latest(more) : r.state \in S
<1> SUFFICES ASSUME NEW r \in Latest(more), r.state \in S
             PROVE  FALSE
  OBVIOUS
<1>1. r \in rows
  BY DEF Latest
<1>2. r \in Latest(rows)
  BY <1>1 DEF Latest
<1> QED
  BY <1>1, <1>2 DEF StateAmong

\* A step that adds no verified row for a claim does not make it verified.
LEMMA NotMadeVerified ==
    ASSUME Grows, NEW c \in ClaimIds, ~StateIs(c, "verified"),
           \A r \in changes' \ changes : r.claim = c => r.state # "verified"
    PROVE  ~StateIs(c, "verified")'
<1>1. /\ RowsOf(c) \subseteq RowsOf(c)'
      /\ \A r \in RowsOf(c)' \ RowsOf(c) : r.state \notin {"verified"}
  BY DEF Grows, RowsOf
<1>2. ~StateAmong(c, RowsOf(c), {"verified"})
  BY DEF StateIs, StateIn
<1>3. PICK more : more = RowsOf(c)'
  OBVIOUS
<1>4. more # {} => ~\E r \in Latest(more) : r.state \in {"verified"}
  BY <1>1, <1>2, <1>3, RowsOutsideStay
<1>5. CASE more = {}
  <2>1. RowsOf(c) = {} /\ InitialState(c)' = InitialState(c)
    BY <1>1, <1>3, <1>5 DEF InitialState, Grows
  <2> QED
    BY <1>2, <1>3, <1>5, <2>1 DEF StateIs, StateIn, StateAmong
<1>6. CASE more # {}
  BY <1>3, <1>4, <1>6 DEF StateIs, StateIn, StateAmong, Latest, SortsBefore
<1> QED
  BY <1>5, <1>6

\* A claim with a fact that lost the state "verified" never has it again: the
\* one way to a verified row of an existing claim is a verifying review, which
\* meets the UNIQUE constraint of facts.
THEOREM LostVerificationIsFinal == StoreSpec => VerificationIsNotRegained
<1>1. TypeOK /\ [StoreNext]_tables
          => [\A c \in facts : ~StateIs(c, "verified")
                                  => ~StateIs(c, "verified")']_tables
  <2> SUFFICES ASSUME TypeOK, [StoreNext]_tables, NEW c \in facts,
                      ~StateIs(c, "verified"), tables' # tables
               PROVE  ~StateIs(c, "verified")'
    OBVIOUS
  <2>1. c \in ClaimIds
    BY DEF TypeOK
  <2>2. ASSUME NEW k \in Keys, NEW v \in KnowledgeValues, NEW now \in Times,
               Record(k, v, now)
        PROVE  ~StateIs(c, "verified")'
    <3>1. \A r \in changes' \ changes : r.state = "contradicted"
      BY <2>2 DEF Record, Detect, Row
    <3>2. Grows
      BY <2>2, RecordGrows
    <3> QED
      BY <2>1, <3>1, <3>2, NotMadeVerified
  <2>3. ASSUME NEW d \in Decisions, NEW b \in ClaimIds, NEW now \in Times,
               Review(b, d, now)
        PROVE  ~StateIs(c, "verified")'
    <3>1. \A r \in changes' \ changes : r.claim = b /\ r.state = StateOf[d]
      BY <2>3 DEF Review, Row
    <3>2. b = c => StateOf[d] # "verified"
      BY <2>3 DEF Review, FactExists, StateOf, Decisions
    <3>3. Grows
      BY <2>3, ReviewGrows
    <3> QED
      BY <2>1, <3>1, <3>2, <3>3, NotMadeVerified
  <2>4. ASSUME NEW b \in ClaimIds, NEW v \in KnowledgeValues,
               NEW now \in Times, NEW affected \in SUBSET Derivations,
               Correct(b, v, now, affected)
        PROVE  ~StateIs(c, "verified")'
    <3>1. PICK new : new = Len(claims) + 1
      OBVIOUS
    <3>2. \A r \in changes' \ changes : r.state = "verified" => r.claim = new
      BY <2>4, <3>1 DEF Correct, CorrectionRows, Row
    <3>3. Grows /\ new \notin ClaimIds
      BY <2>4, <3>1, CorrectGrows
    <3> QED
      BY <2>1, <3>2, <3>3, NotMadeVerified
  <2> QED
    BY <2>2, <2>3, <2>4 DEF StoreNext, RefuseReview
<1> QED
  BY <1>1, TypeCorrect, PTL DEF StoreSpec, VerificationIsNotRegained

\* The rows of a claim that gets none are read as before.
LEMMA SameRowsSameState ==
    ASSUME Grows, NEW c \in ClaimIds, \A r \in changes' \ changes : r.claim # c
    PROVE  Withdrawn(c)' = Withdrawn(c)
<1>1. RowsOf(c)' = RowsOf(c)
  BY DEF RowsOf, Grows
<1>2. InitialState(c)' = InitialState(c)
  BY DEF InitialState, Grows
<1> QED
  BY <1>1, <1>2 DEF Withdrawn, StateIn, StateAmong, Latest, SortsBefore

\* A correction leaves its original withdrawn, whichever row is read: the new
\* row is "superseded", and it or the one that was read before sorts last.
LEMMA SupersededStaysWithdrawn ==
    ASSUME TypeOK, NEW c \in ClaimIds, Withdrawn(c), NEW new,
           new.at \in Int, new.rank \in Int, new.state = "superseded",
           RowsOf(c)' = RowsOf(c) \cup {new}
    PROVE  Withdrawn(c)'
<1>1. \A r \in RowsOf(c) : r.at \in Int /\ r.rank \in Int
  BY StoreAssumption DEF TypeOK, RowsOf, Times
<1>2. PICK r \in RowsOf(c) : /\ r.state \in WithdrawnStates
                             /\ \A s \in RowsOf(c) : SortsBefore(s, r)
  <2>1. RowsOf(c) # {}
    BY DEF Withdrawn, StateIn, StateAmong, InitialState, WithdrawnStates
  <2> QED
    BY <2>1 DEF Withdrawn, StateIn, StateAmong, Latest
<1>3. CASE SortsBefore(new, r)
  <2>1. \A s \in RowsOf(c)' : SortsBefore(s, r)
    BY <1>2, <1>3
  <2> QED
    BY <1>2, <2>1
    DEF Withdrawn, StateIn, StateAmong, Latest, SortsBefore, WithdrawnStates
<1>4. CASE ~SortsBefore(new, r)
  <2>1. SortsBefore(r, new) /\ SortsBefore(new, new)
    BY <1>1, <1>4 DEF SortsBefore
  <2>2. \A s \in RowsOf(c) : SortsBefore(s, new)
    BY <1>1, <1>2, <2>1 DEF SortsBefore
  <2>3. \A s \in RowsOf(c)' : SortsBefore(s, new)
    BY <2>1, <2>2
  <2>4. new.state \in WithdrawnStates
    BY DEF WithdrawnStates
  <2> QED
    BY <2>3, <2>4
    DEF Withdrawn, StateIn, StateAmong, Latest, SortsBefore, WithdrawnStates
<1> QED
  BY <1>3, <1>4

\* A withdrawn claim comes back only by a review of that very claim: new
\* claims are compared with claims that are not withdrawn and mark only those,
\* and a correction of a withdrawn claim supersedes it.
THEOREM OnlyReviewsRevive == StoreSpec => WithdrawalUndoneOnlyByReview
<1>1. TypeOK /\ [StoreNext]_tables
          => [\A c \in ClaimIds : (Withdrawn(c) /\ ~Withdrawn(c)') =>
                 \E v \in reviews' \ reviews :
                    v.claim = c /\ v.decision # "corrected"]_tables
  <2> SUFFICES ASSUME TypeOK, [StoreNext]_tables, NEW c \in ClaimIds,
                      Withdrawn(c), ~Withdrawn(c)', tables' # tables
               PROVE  \E v \in reviews' \ reviews :
                         v.claim = c /\ v.decision # "corrected"
    OBVIOUS
  <2>1. Len(audit) \in Nat /\ Len(claims) \in Nat
    BY LenProperties DEF TypeOK
  <2>2. ASSUME NEW k \in Keys, NEW v \in KnowledgeValues, NEW now \in Times,
               Record(k, v, now)
        PROVE  FALSE
    <3>1. PICK new : new = Len(claims) + 1
      OBVIOUS
    <3>2. Grows /\ new \notin ClaimIds
      BY <2>2, <3>1, RecordGrows
    <3>3. c \notin Conflicting(k, v)
      BY DEF Conflicting, Priors
    <3>4. \A r \in changes' \ changes : r.claim # c
      BY <2>2, <3>1, <3>2, <3>3 DEF Record, Detect, Row
    <3> QED
      BY <3>2, <3>4, SameRowsSameState
  <2>3. ASSUME NEW b \in ClaimIds, NEW d \in Decisions, NEW now \in Times,
               Review(b, d, now)
        PROVE  \E v \in reviews' \ reviews :
                  v.claim = c /\ v.decision # "corrected"
    <3>1. CASE b = c
      <4> DEFINE review == [claim |-> c, decision |-> d, txn |-> NextTxn]
      <4>1. review \in reviews' /\ d # "corrected"
        BY <2>3, <3>1 DEF Review, Decisions
      <4>2. \A v \in reviews : v.txn # NextTxn
        BY <2>1 DEF TypeOK, Txns, NextTxn
      <4> QED
        BY <4>1, <4>2
    <3>2. CASE b # c
      <4>1. \A r \in changes' \ changes : r.claim # c
        BY <2>3, <3>2 DEF Review, Row
      <4> QED
        BY <2>3, <4>1, ReviewGrows, SameRowsSameState
    <3> QED
      BY <3>1, <3>2
  <2>4. ASSUME NEW b \in ClaimIds, NEW v \in KnowledgeValues,
               NEW now \in Times, NEW affected \in SUBSET Derivations,
               Correct(b, v, now, affected)
        PROVE  FALSE
    <3>1. PICK new : new = Len(claims) + 1
      OBVIOUS
    <3>2. Grows /\ new \notin ClaimIds
      BY <2>4, <3>1, CorrectGrows
    <3>3. PICK rank \in Ranks(b, now) :
             changes' = changes \cup {Row(b, "superseded", now, rank),
                                      Row(new, "verified", now, NextTxn)}
      BY <2>4, <3>1 DEF Correct, CorrectionRows
    <3>4. CASE b = c
      <4>1. PICK row : row = Row(c, "superseded", now, rank)
        OBVIOUS
      <4>2. /\ row.at \in Int /\ row.rank \in Int
            /\ row.state = "superseded" /\ row.claim = c
        BY <2>1, <4>1, StoreAssumption DEF Row, Ranks, NextTxn, Times
      <4>3. RowsOf(c)' = RowsOf(c) \cup {row}
        BY <3>2, <3>3, <3>4, <4>1, <4>2 DEF RowsOf, Row
      <4> QED
        BY <4>2, <4>3, SupersededStaysWithdrawn
    <3>5. CASE b # c
      <4>1. \A r \in changes' \ changes : r.claim # c
        BY <3>2, <3>3, <3>5 DEF Row
      <4> QED
        BY <3>2, <4>1, SameRowsSameState
    <3> QED
      BY <3>4, <3>5
  <2> QED
    BY <2>2, <2>3, <2>4 DEF StoreNext, RefuseReview
<1> QED
  BY <1>1, TypeCorrect, PTL DEF StoreSpec, WithdrawalUndoneOnlyByReview
=============================================================================
