----------------------------- MODULE Migrations -----------------------------
(***************************************************************************)
(* Programs of several versions open one database at the same time.        *)
(* migrate checks the schema version once, and then looks each of its      *)
(* migrations up and applies it if it is missing, one transaction for      *)
(* each; nothing is locked between a look and the transaction.             *)
(*                                                                         *)
(* A migration is a statement batch that fails when its objects exist, and *)
(* a row that records its checksum; both are written or neither.           *)
(***************************************************************************)
EXTENDS Integers, Sequences

CONSTANTS
    Programs,    \* processes that open the database
    Sources,     \* program -> its migrations, by version
    Contents,    \* the texts of migrations; equal exactly if their checksums are
    MaxFailures  \* bound on the storage errors and crashes of a behaviour

ASSUME MigrationAssumption ==
    /\ Sources \in [Programs -> Seq(Contents)]
    /\ \A p \in Programs : Sources[p] # <<>>
    /\ MaxFailures \in Nat

VARIABLES
    schema,    \* the batches that were executed, in order
    recorded,  \* rows of schema_migrations
    program,   \* where each program is in open_database
    failures   \* storage errors and crashes so far

database == <<schema, recorded>>
migrationVars == <<database, program, failures>>

Knows(p) == Len(Sources[p])

Closed == [step |-> "closed", version |-> 0]

At(p, step) == program[p].step = step

Goto(p, step, version) ==
    program' = [program EXCEPT ![p] = [step |-> step, version |-> version]]

\* COALESCE(MAX(version), 0)
CurrentVersion ==
    CHOOSE n \in {0} \cup {r.version : r \in recorded} :
        \A r \in recorded : r.version <= n

StoredRows(v) == {r \in recorded : r.version = v}

(***************************************************************************)
(* open_database                                                           *)
(***************************************************************************)
Open(p) ==
    /\ At(p, "closed") /\ Goto(p, "opening", 0)
    /\ UNCHANGED <<database, failures>>

\* A database that is newer than the program is refused, here and only here.
CheckVersion(p) ==
    /\ At(p, "opening")
    /\ IF CurrentVersion > Knows(p) THEN Goto(p, "closed", 0)
                                    ELSE Goto(p, "looking", 1)
    /\ UNCHANGED <<database, failures>>

\* Mutant: a migration that is stored is not compared.
Mismatch_Ignored(p, v) == FALSE

Mismatch(p, v) == \E r \in StoredRows(v) : r.content # Sources[p][v]

AfterLook(p, v) ==
    IF StoredRows(v) = {} THEN Goto(p, "applying", v)
    ELSE IF Mismatch(p, v) THEN Goto(p, "closed", 0)
    ELSE Goto(p, "looking", v + 1)

HasNext(p) == program[p].version <= Knows(p)

\* SELECT checksum_sha256 FROM schema_migrations
Look(p) ==
    /\ At(p, "looking") /\ HasNext(p)
    /\ AfterLook(p, program[p].version)
    /\ UNCHANGED <<database, failures>>

\* The batch meets objects that exist, or the row its primary key.
Exists(v) == v <= Len(schema) \/ StoredRows(v) # {}

\* Mutant: the first migration that is applied ends the loop.
Applied_Ends(p, v) == Goto(p, "closed", 0)

Applied(p, v) == Goto(p, "looking", v + 1)

Apply(p) ==
    LET v == program[p].version
    IN  /\ At(p, "applying") /\ ~Exists(v)
        /\ schema' = Append(schema, Sources[p][v])
        /\ recorded' = recorded \cup {[version |-> v, content |-> Sources[p][v]]}
        /\ Applied(p, v)
        /\ UNCHANGED failures

\* Another program was faster: open_database fails and changes nothing.
FailApply(p) ==
    /\ At(p, "applying") /\ Exists(program[p].version)
    /\ Goto(p, "closed", 0)
    /\ UNCHANGED <<database, failures>>

Finish(p) ==
    /\ At(p, "looking") /\ ~HasNext(p)
    /\ Goto(p, "opened", 0)
    /\ UNCHANGED <<database, failures>>

Close(p) ==
    /\ At(p, "opened") /\ Goto(p, "closed", 0)
    /\ UNCHANGED <<database, failures>>

Running(p) == program[p].step \in {"opening", "looking", "applying"}

\* Mutant: the batch is not rolled back.
Fail_Partial(p) ==
    /\ Running(p) /\ failures < MaxFailures
    /\ failures' = failures + 1
    /\ Goto(p, "closed", 0)
    /\ schema' = IF At(p, "applying") /\ ~Exists(program[p].version)
                 THEN Append(schema, Sources[p][program[p].version])
                 ELSE schema
    /\ UNCHANGED recorded

\* A storage error or a crash; SQLite rolls the transaction back.
Fail(p) ==
    /\ Running(p) /\ failures < MaxFailures
    /\ failures' = failures + 1
    /\ Goto(p, "closed", 0)
    /\ UNCHANGED database

MigrationInit ==
    /\ schema = <<>> /\ recorded = {}
    /\ program = [p \in Programs |-> Closed]
    /\ failures = 0

\* What a program does once it was started.
Migrate(p) ==
    CheckVersion(p) \/ Look(p) \/ Apply(p) \/ FailApply(p) \/ Finish(p)

MigrationNext ==
    \E p \in Programs : Open(p) \/ Migrate(p) \/ Close(p) \/ Fail(p)

\* A program that was started runs on; nothing says that one is started.
MigrationSpec ==
    /\ MigrationInit /\ [][MigrationNext]_migrationVars
    /\ \A p \in Programs : WF_migrationVars(Migrate(p))

(***************************************************************************)
(* Properties                                                              *)
(***************************************************************************)
ProgramStates ==
    [step : {"closed", "opening", "looking", "applying", "opened"}, version : Nat]

MigrationTypeOK ==
    /\ schema \in Seq(Contents)
    /\ recorded \subseteq [version : Nat \ {0}, content : Contents]
    /\ program \in [Programs -> ProgramStates]
    /\ \A p \in Programs : At(p, "applying") => program[p].version \in 1..Knows(p)
    /\ failures \in 0..MaxFailures

\* The schema is what its history says: the batches that were executed are
\* the ones recorded, each once, in order and without a gap, whichever
\* programs raced, failed or crashed (apply's transaction).
SchemaIsRecorded ==
    /\ MigrationTypeOK
    /\ recorded = {[version |-> v, content |-> schema[v]] : v \in DOMAIN schema}

\* A program works only on a database that has all of its migrations, with
\* the very texts it was built with, although other programs, some of them
\* built from other texts, migrate the database while it opens it.
OpenedAgrees ==
    \A p \in Programs : At(p, "opened") =>
        /\ Knows(p) <= Len(schema)
        /\ \A v \in 1..Knows(p) : schema[v] = Sources[p][v]

Halfway == schema # <<>> /\ \A p \in Programs : Len(schema) # Knows(p)

\* Programs that race to migrate fail because another was faster, but never
\* all of them: without a storage error or a crash the schema does not stay at
\* a version that no program was built for.
NeverLeftHalfway == Halfway ~> (~Halfway \/ failures > 0)
=============================================================================
