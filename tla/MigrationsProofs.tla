-------------------------- MODULE MigrationsProofs --------------------------
(***************************************************************************)
(* Theorems about programs that migrate one database at the same time, for *)
(* any number of programs, versions and texts of migrations.               *)
(***************************************************************************)
EXTENDS Migrations, SequenceTheorems, TLAPS

\* The batches agree with the migrations of p below version v.
AgreesIn(batches, p, v) ==
    \A u \in Nat \ {0} : u < v => u \in DOMAIN batches /\ batches[u] = Sources[p][u]

Agrees(p, v) == AgreesIn(schema, p, v)

\* A program is at a version only when all those below it are in the schema,
\* with its own texts: it looked at each of them or applied it, and none is
\* ever removed.
ProgramsAgree ==
    \A p \in Programs :
        /\ program[p].step \in {"looking", "applying"} =>
              /\ program[p].version \in 1..(Knows(p) + 1)
              /\ Agrees(p, program[p].version)
        /\ At(p, "opened") => Agrees(p, Knows(p) + 1)

MigrationInv == SchemaIsRecorded /\ ProgramsAgree

LEMMA KnowsFacts ==
    ASSUME NEW p \in Programs
    PROVE  /\ Sources[p] \in Seq(Contents) /\ Knows(p) \in Nat
           /\ \A v \in 1..Knows(p) : Sources[p][v] \in Contents
<1>1. Sources[p] \in Seq(Contents)
  BY MigrationAssumption
<1> QED
  BY <1>1, LenProperties, ElementOfSeq DEF Knows

LEMMA SchemaFacts ==
    ASSUME SchemaIsRecorded
    PROVE  /\ schema \in Seq(Contents) /\ Len(schema) \in Nat
           /\ DOMAIN schema = 1..Len(schema)
           /\ \A v \in DOMAIN schema : schema[v] \in Contents
           /\ \A v : StoredRows(v) = IF v \in DOMAIN schema
                                     THEN {[version |-> v, content |-> schema[v]]}
                                     ELSE {}
<1>1. /\ schema \in Seq(Contents)
      /\ recorded = {[version |-> v, content |-> schema[v]] : v \in DOMAIN schema}
  BY DEF SchemaIsRecorded, MigrationTypeOK
<1>2. \A v : StoredRows(v) = IF v \in DOMAIN schema
                             THEN {[version |-> v, content |-> schema[v]]}
                             ELSE {}
  BY <1>1 DEF StoredRows
<1> QED
  BY <1>1, <1>2, LenProperties, ElementOfSeq

\* p is at held, every other program where it was.
Moves(p, held) ==
    /\ program' \in [Programs -> ProgramStates]
    /\ program'[p] = held
    /\ \A q \in Programs \ {p} : program'[q] = program[q]

LEMMA GotoFacts ==
    ASSUME program \in [Programs -> ProgramStates], NEW p \in Programs,
           NEW step \in {"closed", "opening", "looking", "applying", "opened"},
           NEW v \in Nat, Goto(p, step, v)
    PROVE  Moves(p, [step |-> step, version |-> v])
<1>1. PICK held : held = [step |-> step, version |-> v]
  OBVIOUS
<1>2. held \in ProgramStates
  BY <1>1 DEF ProgramStates
<1> QED
  BY <1>1, <1>2 DEF Goto, Moves

\* A step that leaves the database alone keeps the invariant if what p may
\* rely on afterwards is there.
LEMMA MovesKeep ==
    ASSUME MigrationInv, UNCHANGED database, failures' \in 0..MaxFailures,
           NEW p \in Programs, NEW held \in ProgramStates, Moves(p, held),
           held.step \in {"looking", "applying"} =>
               held.version \in 1..(Knows(p) + 1) /\ Agrees(p, held.version),
           held.step = "applying" => held.version \in 1..Knows(p),
           held.step = "opened" => Agrees(p, Knows(p) + 1)
    PROVE  MigrationInv'
<1>1. /\ schema' = schema /\ recorded' = recorded
      /\ schema \in Seq(Contents)
      /\ recorded \subseteq [version : Nat \ {0}, content : Contents]
      /\ recorded = {[version |-> v, content |-> schema[v]] : v \in DOMAIN schema}
  BY DEF MigrationInv, SchemaIsRecorded, MigrationTypeOK, database
<1>2. ASSUME NEW q \in Programs
      PROVE  /\ program'[q].step = "applying" => program'[q].version \in 1..Knows(q)
             /\ program'[q].step \in {"looking", "applying"} =>
                   /\ program'[q].version \in 1..(Knows(q) + 1)
                   /\ Agrees(q, program'[q].version)
             /\ program'[q].step = "opened" => Agrees(q, Knows(q) + 1)
  <2>1. CASE q = p
    BY <2>1 DEF Moves
  <2>2. CASE q # p
    <3>1. program'[q] = program[q]
      BY <2>2 DEF Moves
    <3> QED
      BY <3>1 DEF MigrationInv, ProgramsAgree, SchemaIsRecorded,
                  MigrationTypeOK, At
  <2> QED
    BY <2>1, <2>2
<1>3. SchemaIsRecorded'
  BY <1>1, <1>2 DEF SchemaIsRecorded, MigrationTypeOK, Moves, At, Knows
<1>4. ProgramsAgree'
  BY <1>1, <1>2 DEF ProgramsAgree, Agrees, At, Knows
<1> QED
  BY <1>3, <1>4 DEF MigrationInv

LEMMA InvFacts ==
    ASSUME MigrationInv
    PROVE  /\ program \in [Programs -> ProgramStates]
           /\ failures \in 0..MaxFailures /\ MaxFailures \in Nat
           /\ SchemaIsRecorded
  BY MigrationAssumption DEF MigrationInv, SchemaIsRecorded, MigrationTypeOK

\* A program that stops or starts counts on nothing.
LEMMA StopKeeps ==
    ASSUME MigrationInv, UNCHANGED database, failures' \in 0..MaxFailures,
           NEW p \in Programs, NEW step \in {"closed", "opening"},
           Goto(p, step, 0)
    PROVE  MigrationInv'
<1>1. PICK held : held = [step |-> step, version |-> 0]
  OBVIOUS
<1>2. held \in ProgramStates /\ held.step = step
  BY <1>1 DEF ProgramStates
<1>3. Moves(p, held)
  BY <1>1, InvFacts, GotoFacts
<1> QED
  BY <1>2, <1>3, MovesKeep

LEMMA LookKeeps ==
    ASSUME MigrationInv, NEW p \in Programs, Look(p)
    PROVE  MigrationInv'
<1>1. PICK v : v = program[p].version
  OBVIOUS
<1>2. v \in 1..Knows(p) /\ Agrees(p, v) /\ v \in Nat /\ v + 1 \in 1..(Knows(p) + 1)
  <2>1. v \in 1..(Knows(p) + 1) /\ Agrees(p, v) /\ v <= Knows(p)
    BY <1>1 DEF Look, At, HasNext, MigrationInv, ProgramsAgree
  <2> QED
    BY <2>1, KnowsFacts
<1>3. /\ AfterLook(p, v) /\ UNCHANGED database /\ failures' = failures
  BY <1>1 DEF Look
<1>4. CASE StoredRows(v) = {}
  <2>1. PICK held : held = [step |-> "applying", version |-> v]
    OBVIOUS
  <2>2. Moves(p, held)
    BY <1>2, <1>3, <1>4, <2>1, InvFacts, GotoFacts DEF AfterLook
  <2>3. held \in ProgramStates /\ held.step = "applying" /\ held.version = v
    BY <1>2, <2>1 DEF ProgramStates
  <2>4. v \in 1..(Knows(p) + 1)
    BY <1>2, KnowsFacts
  <2> QED
    BY <1>2, <1>3, <2>2, <2>3, <2>4, InvFacts, MovesKeep
<1>5. CASE StoredRows(v) # {} /\ Mismatch(p, v)
  BY <1>3, <1>5, InvFacts, StopKeeps DEF AfterLook
<1>6. CASE StoredRows(v) # {} /\ ~Mismatch(p, v)
  <2>1. v \in DOMAIN schema /\ StoredRows(v) = {[version |-> v, content |-> schema[v]]}
    BY <1>6, InvFacts, SchemaFacts
  <2>2. schema[v] = Sources[p][v]
    BY <1>6, <2>1 DEF Mismatch
  <2>3. Agrees(p, v + 1)
    <3>1. ASSUME NEW u \in Nat \ {0}, u < v + 1
          PROVE  u \in DOMAIN schema /\ schema[u] = Sources[p][u]
      <4>1. u < v \/ u = v
        BY <1>2, <3>1
      <4> QED
        BY <1>2, <2>1, <2>2, <4>1 DEF Agrees, AgreesIn
    <3> QED
      BY <3>1 DEF Agrees, AgreesIn
  <2>4. PICK held : held = [step |-> "looking", version |-> v + 1]
    OBVIOUS
  <2>5. Moves(p, held)
    BY <1>2, <1>3, <1>6, <2>4, InvFacts, GotoFacts DEF AfterLook
  <2>6. held \in ProgramStates /\ held.step = "looking" /\ held.version = v + 1
    BY <1>2, <2>4 DEF ProgramStates
  <2> QED
    BY <1>2, <1>3, <2>3, <2>5, <2>6, InvFacts, MovesKeep
<1> QED
  BY <1>4, <1>5, <1>6

\* The batch that is executed is the next of the schema: all before it are
\* there, because p agrees with them, and its own objects do not exist.
LEMMA ApplyKeeps ==
    ASSUME MigrationInv, NEW p \in Programs, Apply(p)
    PROVE  MigrationInv'
<1>1. PICK v, text : v = program[p].version /\ text = Sources[p][v]
  OBVIOUS
<1>2. v \in 1..Knows(p) /\ v \in Nat \ {0} /\ Agrees(p, v) /\ text \in Contents
  <2>1. v \in 1..Knows(p) /\ Agrees(p, v)
    BY <1>1 DEF Apply, At, MigrationInv, ProgramsAgree, SchemaIsRecorded,
                MigrationTypeOK
  <2> QED
    BY <1>1, <2>1, KnowsFacts
<1>3. /\ schema \in Seq(Contents) /\ Len(schema) \in Nat
      /\ DOMAIN schema = 1..Len(schema)
  BY InvFacts, SchemaFacts
<1>4. /\ ~(v <= Len(schema))
      /\ schema' = Append(schema, text)
      /\ recorded' = recorded \cup {[version |-> v, content |-> text]}
      /\ Goto(p, "looking", v + 1) /\ failures' = failures
  BY <1>1 DEF Apply, Exists, Applied
<1>5. v = Len(schema) + 1
  <2>1. \A u \in Nat \ {0} : u < v => u \in 1..Len(schema)
    BY <1>2, <1>3 DEF Agrees, AgreesIn
  <2>2. CASE v = 1
    BY <1>3, <1>4, <2>2
  <2>3. CASE v # 1
    <3>1. v - 1 \in 1..Len(schema)
      BY <1>2, <2>1, <2>3
    <3> QED
      BY <1>2, <1>3, <1>4, <3>1
  <2> QED
    BY <2>2, <2>3
<1>6. /\ schema' \in Seq(Contents) /\ schema'[v] = text
      /\ DOMAIN schema' = DOMAIN schema \cup {v}
      /\ \A u \in DOMAIN schema : schema'[u] = schema[u]
  <2>1. /\ schema' \in Seq(Contents) /\ Len(schema') = Len(schema) + 1
        /\ schema'[Len(schema) + 1] = text
        /\ \A u \in 1..Len(schema) : schema'[u] = schema[u]
    BY <1>2, <1>3, <1>4, AppendProperties
  <2>2. DOMAIN schema' = 1..(Len(schema) + 1)
    BY <2>1, LenProperties
  <2>3. 1..(Len(schema) + 1) = 1..Len(schema) \cup {v}
    BY <1>3, <1>5
  <2> QED
    BY <1>3, <1>5, <2>1, <2>2, <2>3
<1>7. recorded' = {[version |-> u, content |-> schema'[u]] : u \in DOMAIN schema'}
  <2>1. recorded = {[version |-> u, content |-> schema[u]] : u \in DOMAIN schema}
    BY InvFacts DEF SchemaIsRecorded
  <2> QED
    BY <1>4, <1>6, <2>1
<1>8. PICK held : held = [step |-> "looking", version |-> v + 1]
  OBVIOUS
<1>9. Moves(p, held)
  BY <1>2, <1>4, <1>8, InvFacts, GotoFacts
<1>10. \A q \in Programs : \A w : Agrees(q, w) => AgreesIn(schema', q, w)
  BY <1>6 DEF Agrees, AgreesIn
<1>11. AgreesIn(schema', p, v + 1)
  <2>1. ASSUME NEW u \in Nat \ {0}, u < v + 1
        PROVE  u \in DOMAIN schema' /\ schema'[u] = Sources[p][u]
    <3>1. u < v \/ u = v
      BY <1>2, <2>1
    <3> QED
      BY <1>1, <1>2, <1>6, <3>1 DEF Agrees, AgreesIn
  <2> QED
    BY <2>1 DEF AgreesIn
<1>12. v + 1 \in 1..(Knows(p) + 1)
  BY <1>2, KnowsFacts
<1>13. ASSUME NEW q \in Programs
       PROVE  /\ program'[q].step = "applying" => program'[q].version \in 1..Knows(q)
              /\ program'[q].step \in {"looking", "applying"} =>
                    /\ program'[q].version \in 1..(Knows(q) + 1)
                    /\ AgreesIn(schema', q, program'[q].version)
              /\ program'[q].step = "opened" => AgreesIn(schema', q, Knows(q) + 1)
  <2>1. CASE q = p
    <3>1. program'[q].step = "looking" /\ program'[q].version = v + 1
      BY <1>8, <1>9, <2>1 DEF Moves
    <3> QED
      BY <1>11, <1>12, <2>1, <3>1
  <2>2. CASE q # p
    <3>1. program'[q] = program[q]
      BY <1>9, <2>2 DEF Moves
    <3> QED
      BY <1>10, <3>1 DEF MigrationInv, ProgramsAgree, SchemaIsRecorded,
                         MigrationTypeOK, At
  <2> QED
    BY <2>1, <2>2
<1>14. recorded' \subseteq [version : Nat \ {0}, content : Contents]
  BY <1>2, <1>4, InvFacts DEF SchemaIsRecorded, MigrationTypeOK
<1>15. SchemaIsRecorded'
  BY <1>4, <1>6, <1>7, <1>9, <1>13, <1>14, InvFacts
  DEF SchemaIsRecorded, MigrationTypeOK, Moves, At, Knows
<1>16. ProgramsAgree'
  BY <1>13 DEF ProgramsAgree, Agrees, At, Knows
<1> QED
  BY <1>15, <1>16 DEF MigrationInv

LEMMA FinishKeeps ==
    ASSUME MigrationInv, NEW p \in Programs, Finish(p)
    PROVE  MigrationInv'
<1>1. /\ program[p].version \in 1..(Knows(p) + 1)
      /\ Agrees(p, program[p].version) /\ ~HasNext(p)
  BY DEF Finish, At, MigrationInv, ProgramsAgree
<1>2. program[p].version = Knows(p) + 1
  BY <1>1, KnowsFacts DEF HasNext
<1>3. Agrees(p, Knows(p) + 1)
  BY <1>1, <1>2
<1>4. PICK held : held = [step |-> "opened", version |-> 0]
  OBVIOUS
<1>5. Moves(p, held) /\ UNCHANGED database /\ failures' = failures
  BY <1>4, InvFacts, GotoFacts DEF Finish
<1>6. held \in ProgramStates /\ held.step = "opened"
  BY <1>4 DEF ProgramStates
<1> QED
  BY <1>3, <1>5, <1>6, InvFacts, MovesKeep

LEMMA CheckKeeps ==
    ASSUME MigrationInv, NEW p \in Programs, CheckVersion(p)
    PROVE  MigrationInv'
<1>1. UNCHANGED database /\ failures' = failures
  BY DEF CheckVersion
<1>2. CASE Goto(p, "closed", 0)
  BY <1>1, <1>2, InvFacts, StopKeeps
<1>3. CASE Goto(p, "looking", 1)
  <2>1. PICK held : held = [step |-> "looking", version |-> 1]
    OBVIOUS
  <2>2. held \in ProgramStates /\ held.step = "looking" /\ held.version = 1
    BY <2>1 DEF ProgramStates
  <2>3. Moves(p, held)
    BY <1>3, <2>1, InvFacts, GotoFacts
  <2>4. 1 \in 1..(Knows(p) + 1)
    BY KnowsFacts
  <2>5. Agrees(p, 1)
    BY DEF Agrees, AgreesIn
  <2> QED
    BY <1>1, <2>2, <2>3, <2>4, <2>5, InvFacts, MovesKeep
<1> QED
  BY <1>2, <1>3 DEF CheckVersion

LEMMA MigrationStep == MigrationInv /\ [MigrationNext]_migrationVars => MigrationInv'
<1> SUFFICES ASSUME MigrationInv, [MigrationNext]_migrationVars
             PROVE  MigrationInv'
  OBVIOUS
<1>1. ASSUME NEW p \in Programs, Open(p) \/ FailApply(p) \/ Close(p)
      PROVE  MigrationInv'
  BY <1>1, InvFacts, StopKeeps DEF Open, FailApply, Close
<1>2. ASSUME NEW p \in Programs, Fail(p)
      PROVE  MigrationInv'
  <2>1. failures' \in 0..MaxFailures
    BY <1>2, InvFacts DEF Fail
  <2> QED
    BY <1>2, <2>1, StopKeeps DEF Fail
<1>3. ASSUME NEW p \in Programs, CheckVersion(p) \/ Look(p) \/ Apply(p) \/ Finish(p)
      PROVE  MigrationInv'
  BY <1>3, CheckKeeps, LookKeeps, ApplyKeeps, FinishKeeps
<1>4. CASE UNCHANGED migrationVars
  <2>1. schema' = schema /\ recorded' = recorded /\ program' = program
        /\ failures' = failures
    BY <1>4 DEF migrationVars, database
  <2> QED
    BY <2>1 DEF MigrationInv, SchemaIsRecorded, MigrationTypeOK, ProgramsAgree,
                Agrees, AgreesIn, At, Knows
<1> QED
  BY <1>1, <1>2, <1>3, <1>4 DEF MigrationNext, Migrate

LEMMA MigrationInvariant == MigrationSpec => []MigrationInv
<1>1. MigrationInit => MigrationInv
  <2> SUFFICES ASSUME MigrationInit PROVE MigrationInv
    OBVIOUS
  <2>1. schema \in Seq(Contents) /\ DOMAIN schema = {} /\ recorded = {}
    BY EmptySeq DEF MigrationInit
  <2>2. program \in [Programs -> ProgramStates] /\ failures \in 0..MaxFailures
    BY MigrationAssumption DEF MigrationInit, Closed, ProgramStates
  <2>3. \A p \in Programs : program[p].step = "closed"
    BY DEF MigrationInit, Closed
  <2> QED
    BY <2>1, <2>2, <2>3
    DEF MigrationInv, SchemaIsRecorded, MigrationTypeOK, ProgramsAgree, At
<1> QED
  BY <1>1, MigrationStep, PTL DEF MigrationSpec

\* The batches that were executed are the ones recorded, each once, in order
\* and without a gap, whichever programs race, fail or crash: a program applies
\* a migration only after it found or applied all those below.
THEOREM SchemaStaysRecorded == MigrationSpec => []SchemaIsRecorded
<1>1. MigrationInv => SchemaIsRecorded
  BY DEF MigrationInv
<1> QED
  BY <1>1, MigrationInvariant, PTL

\* A program that open_database lets in finds all of its migrations in the
\* schema, with its own texts, although nothing is locked between a look and
\* the transaction and other programs were built from other texts.
THEOREM OpenedAlwaysAgrees == MigrationSpec => []OpenedAgrees
<1>1. MigrationInv => OpenedAgrees
  <2> SUFFICES ASSUME MigrationInv, NEW p \in Programs, At(p, "opened")
               PROVE  /\ Knows(p) <= Len(schema)
                      /\ \A v \in 1..Knows(p) : schema[v] = Sources[p][v]
    BY DEF OpenedAgrees
  <2>1. Agrees(p, Knows(p) + 1) /\ Knows(p) \in Nat
    BY KnowsFacts DEF MigrationInv, ProgramsAgree
  <2>2. \A v \in 1..Knows(p) : v \in Nat \ {0} /\ v < Knows(p) + 1
    BY <2>1
  <2>3. \A v \in 1..Knows(p) : v \in DOMAIN schema /\ schema[v] = Sources[p][v]
    BY <2>1, <2>2 DEF Agrees, AgreesIn
  <2>4. Len(schema) \in Nat /\ DOMAIN schema = 1..Len(schema)
    BY InvFacts, SchemaFacts
  <2>5. Knows(p) <= Len(schema)
    BY <2>1, <2>3, <2>4
  <2> QED
    BY <2>3, <2>5
<1> QED
  BY <1>1, MigrationInvariant, PTL
=============================================================================
