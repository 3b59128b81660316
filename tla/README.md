# CaseGraph in TLA+

CaseGraph keeps case evidence: it ingests source bytes, records claims about
them, lets people review and correct those claims, evaluates rules over the
verified ones and keeps an audit trail of all of it. This directory holds TLA+
modules translated from its Rust source, TLC configurations that check them on
small instances, and proofs checked by TLAPS. `PROJECT.json` lists the runs, the
lines each definition models, and the hazards the properties are for.

    tlc -workers 2 -config MCClaimStore.cfg MCClaimStore.tla    # one run
    tlapm ClaimStoreProofs.tla                                  # its proofs
    tlapm PipelineProofs.tla; tlapm RecordsProofs.tla; tlapm CalendarProofs.tla
    tlapm RuleWorkflowProofs.tla; tlapm RuleRegistryProofs.tla
    tlapm IngestionProofs.tla; tlapm MigrationsProofs.tla

## 1. The system

| Part | Code | State it keeps | Operations |
|---|---|---|---|
| Claim repository | `sqlite_repository.rs` | claims, claim_state_changes, human_reviews, facts, contradictions, corrections, evidence_edges, audit_events | record_claim, review_claim, correct_claim |
| Service | `service.rs` | none: reads, clock and ids, then one repository call | create_case, ingest_bytes, record_external_claim, review_claim, correct_claim, read_artifact_version |
| Rules | `rules.rs`, `sqlite_repository.rs` | rules, rule_versions, rule_evaluations, obligations, deadlines, tasks | register_rule, evaluate, query |
| Artifact store | `artifact_store.rs` | one file per content, temporary files, a counter per process | put, read |
| Ingestion | `service.rs`, `sqlite_repository.rs` | sources, artifacts, artifact_versions, artifact_version_sources, audit_events | ingest |
| Migrations | `migrations.rs` | schema_migrations, the schema | migrate on open |
| Pipeline | `pipeline.rs`, `extractors.rs` | none | classify, extract (one claim per field) |
| Calendar | `temporal.rs` | none | days_from_civil, civil_from_days, checked_add_days |
| Row codec | `sqlite_repository.rs`, `model.rs` | the rows themselves | insert_*, load_*, enumerations as text |
| Reasoning gateway | `reasoning.rs` | none | policy decision before a provider is asked; nothing calls it yet |
| API, command line | `casegraph-api`, `casegraph-cli` | none | translate requests to service calls |

How they interact. The API serves each request on a thread, and every command
line invocation is a process; both call the service. The service reads what it
needs through repository methods, each of which takes the connection mutex,
reads the clock, and hands complete rows to one repository method that writes
them in one SQLite transaction. So the transactions of one instance are serial,
but what the service read before one, its timestamp included, may be old when it
runs. One instance per data directory is the documented deployment
(`docs/security.md:43`, ADR 0001); opening a database and storing bytes are
written for several processes all the same, and are modelled so.
Ingestion stores bytes in the artifact store, which has no lock, before the
metadata transaction. Rule evaluation reads claims under two locks and records
its result under a third.

Where it is hard:

- *Claims.* The current state of a claim is the row with the greatest timestamp,
  ties broken by a hash, not the last row written. Nothing in review_claim or
  correct_claim looks at the state the claim is in, so every sequence of reviews,
  corrections and new conflicting claims is legal, and the UNIQUE constraint on
  facts can refuse a review half-way through its transaction.
- *Rules.* Reviews and corrections commit between the three locks of evaluate;
  evaluators race and retry.
- *Artifact store.* Writers in several processes share paths; a process may die
  at any point and its successor reuse its id; writes and renames fail.
- *Ingestion.* Anything may stop between the bytes and the metadata; requests
  are repeated.
- *Queries.* The claims of an answer are listed under one lock and their states
  read under another.
- *Extraction.* A document is one transaction per field: other requests commit in
  between, a failure keeps what was recorded, and running it again records it
  twice. What a field means is decided by offsets, quotes and digits.
- *Rule versions.* Registering one inserts two rows, either of which a constraint
  may refuse.
- *Migrations.* Programs of different versions open one database; the version
  is checked once, and nothing is locked between the look at a migration and
  the transaction that applies it.
- *Rows.* The domain, the schema and the readers each have their own idea of a
  valid row; one that the first two accept and the third refuses cannot be
  repaired, because rows are never changed.
- *Calendar.* Closed formulas have to agree with the calendar at leap days, at
  the last day of a century and of an era, and at both ends.

## 2. The modules

**`ClaimStore`** is the core: the claim tables and one action per repository
transaction. `claims` is a sequence in commit order and never updated. `changes`
holds the rows of claim_state_changes; `Latest` is the query
`ORDER BY changed_at_ms DESC, id DESC LIMIT 1`. A row's `rank` stands for the
hash in its id: with equal timestamps it falls above or below the earlier rows,
by nondeterministic choice. `Record` is record_claim with its contradiction
loop (`Priors`, `Conflicting`, `Agreeing`, `Detect`), `Review` and
`RefuseReview` are review_claim when insert_fact succeeds and when it meets the
UNIQUE constraint and everything is rolled back, `Correct` is correct_claim.
`now` is the caller's timestamp and may be any time. A crash or an error inside
a transaction is a rollback, so it needs no action here.

The observation, provenance and evidence rows of a claim from a source are
one-to-one with it; they are its `supported_by` edge. Subject, predicate and
case are one `key`. Values matter only as known and equal, known and different,
or not known.

**`ClaimService`** composes that with the service: a request is submitted
(get_claim found the claim, the clock was read) and commits, conflicts or aborts
later. Workers, the threads of one instance, interleave and the clock may be set
back. Its promise is `StoreSpec`: whatever the interleaving, the tables behave
as the serial store.

**`GroundedQuery`** extends `ClaimService` by questions about predicates: `Ask`
and `Answer` are the two locks of list_grounded_claims, `Mode` is the decision
of query. No state change writes "inferred" or "corroborated", so the mode
"suggested" never arises.

**`Pipeline`** extends that by extraction, the only way the program records
claims, and its behaviours are those of all claim requests together. A worker's
`extraction` runs from `BeginExtraction` over `SubmitField` and `CommitField` for
each field to a reply; `RefuseDocument`, `RejectField` and `FailExtraction` are
its ways to fail, before any claim, at a field the service does not accept, or at
any point. `Reply` gives the answer of either face, HTTP or command line.
`provenance` remembers which field of which document a claim came from. What a
document says is a constant; `MCPipeline` assumes, and TLC evaluates, that it is
what `Extractors` makes of the documents there.

**`Extractors`** defines that: `TextFields`, `JsonFields` and `CsvFields` are the
three extractors, `Normalize` the value of a field, `Refusal` why a document
yields none. A document is a sequence of symbols; a word stands for itself where
only the word matters (null, true, a date), and each symbol has a width, because
the program counts bytes. The JSON library is external: a document is a sequence
of members that it has parsed, and `Printed` is what becomes of a number on the
way. serde_json is built without `arbitrary_precision`, so a number that is not a
64-bit integer is a float before it is text again: it loses the digits beyond
`Precision` and the zeros at its end, and far from 1 (`PlainPoints`) it has an
exponent. **`Documents`** lets a document grow symbol by
symbol and states what is true of every one.

**`Records`** has a claim with its provenance as it is submitted, as a row, and
as it is read: `Valid` (the domain), `Checked` (the schema), `Readable` and
`Parsed` (the readers), `RowOf` the conversion. The observation repeats columns of
the claim and is never read.

**`RuleWorkflow`** extends `ClaimStore` by evaluators. `ListClaims`,
`ReadStates` and one of `Materialize`, `ReturnExisting`, `FailCalendar` are the
three locks of evaluate; `AbortEvaluation` is an error or a crash in between.
`Inputs` and `Outcome` are the pure part. `ClaimTransaction` is everything else
that happens to claims meanwhile; there `Correct` gets its affected evaluations
from `Affected`, the query of affected_rule_evaluations. Because a claim's
value and evidence never change, the evidence hash of an evaluation is modelled
by the set of claims it used. Obligation, deadline and task are written
together and are one due day.

**`RuleRegistry`** extends it by register_rule, with the two inserts and their
constraints, by what evaluate needs of a registered version, and by questions
about deadlines, which are answered from `Current`, the last evaluation listed
that has a task. The `listing` order is that of timestamps and hashes, so a new
evaluation may be listed anywhere.

**`ArtifactStore`** takes put and read apart into the file operations between
which other threads and processes run: look, verify, create_new, write and sync,
rename, remove, and the two openings of read. Each of them may fail, a removal
silently (`MayRemove`); a put whose rename fails ("raced") verifies what is at
the destination instead. A file holds the whole content or
other bytes (`Broken`), which is all that a digest tells. `Crash` kills the
threads of a process, whose successor may get the same id and start its counter
again. `LosePower` may undo renames that were not synced to the directory.

**`EvidenceArchive`** is the abstract promise of ingestion: per artifact a
sequence of distinct contents that only grows, each readable as ingested.
**`Ingestion`** extends `ArtifactStore` by ingest_bytes: `BeginIngest` enters
put, `CommitIngest` is the metadata transaction (`CommitVersion` or
`CommitDuplicate`, with the source row of insert_or_get_source), `AbortIngest`
its failure. The instance `Archive` maps what a reader would find at the path of
each version to the archive's `readable`.

**`Migrations`** takes open_database apart: `CheckVersion`, then for each
migration `Look` and `Apply`, which fails (`FailApply`) when another program was
faster, then `Finish`. The batches executed so far are the `schema`; the rows of
schema_migrations are `recorded`. `Fail` is a storage error or a crash.

**`CalendarDates`** has the formulas of `temporal.rs` and beside them a calendar
that counts from year to year and, inside a year, from month to month. Its only
action is `NextYear`.

The `MC*` modules give TLC its constants and symmetry sets. An operator whose
name carries a suffix after an underscore (`Priors_AnyState`) is a mutant: the
definition it stands before, with a plausible bug. Each property is known to
fail when its mutant takes that definition's place.

## 3. The runs

| Run | Question | Bounds |
|---|---|---|
| `claim_store` | Do contradictions, corrections, facts, history and audit agree after any sequence of transactions? | 2 keys, 2 known values and an unknown one, 3 claims, 5 transactions, 2 timestamps |
| `claim_service` | Do concurrent extractions, reviews, corrections, questions, clock steps, failures and crashes look like the serial store, and are replies and answers well founded? | 2 workers, 1 key, 3 documents (two fields that disagree, a second field that the service refuses, an unknown format), 2 claims, 3 transactions, 2 timestamps |
| `rule_workflow` | Is an evaluation a function of its stored inputs, and were they verified? | 1 evaluator, condition and anchor on 2 keys, 3 claims, 4 transactions |
| `rules` | Is work created once, only when justified and due in the calendar, do corrections list the evaluations they affect, and do registrations and deadline answers agree with what is stored? | 2 evaluators, 5 rule versions (two of one rule, one of them due after the calendar, one numbered 0, one with impossible dates, one without conditions), 1 key that is condition and anchor, 2 claims, 3 transactions, 2 evaluations |
| `artifact_store` | Is what stands at a final path always whole, and is it never taken away? | 3 threads, 2 processes, 1 content, 2 temporary files per process id, 1 damage |
| `ingestion` | Does ingestion implement the archive, and do log and sources tell what was delivered? | 2 threads, 2 processes, 2 contents, 1 artifact, 2 sources, 3 ingestions |
| `migrations` | Is the schema what its history says, does a program work on one it was built for, and does a race end? | 4 programs: two of the newest version, an older one, one with an edited migration; 1 failure |
| `values` | Are dates, cells, spans, numbers and rows exact, or refused, and JSON numbers as near as a float? | every date of the calendar, 3 dates of each year with chosen offsets; every document of up to 6 symbols over 5 to 8 symbols, per format, numbers in text of up to 5, every JSON number of up to 3 digits on either side of the point; floats of 3 digits, integers up to 127, 2 decimal places; every bundle at the bounds of one group of checks |

Why the bounds are enough for the interesting cases:

- Three claims of two keys give a claim that conflicts with one, agrees with
  another or has another key, and a correction of a correction. Five
  transactions reach verify, contradicted by a new claim, reviewed again (the
  refused one), corrected, reviewed once more. Two timestamps give ties and
  reversals; more only repeat the order of two rows.
- `rule_workflow` needs four transactions for two verified claims, which is the
  shortest way to work whose anchor is another claim; the third claim is a
  disagreeing or corrected one. The interval is chosen so that one of the two
  dates stays in the calendar and the other leaves it. `rules` uses one key
  for both, where two transactions create work, and spends the rest on the race;
  its claims are condition and anchor at once, and three transactions make two of
  them verified and disagreeing. The second version of a rule is due after the
  calendar: without the check of its end, and without the one for disagreement,
  `WorkIsJustified` fails.
- A temporary name contains the hash, so puts of different contents share
  nothing but the counter: one content is the contended case. Three threads are
  two of one process and one of another. Two temporaries per process id let a
  restarted process meet the file its predecessor left.
- Three ingestions of two contents give A, B, A; of two sources, one has a
  revision (unique in SQLite) and one has not.

- A question reads the key of the run: with two claims of it, both may be
  recorded, reviewed or corrected between the two locks.
- The four programs of `migrations` are one more than the kinds that differ: two
  equal ones race, an older one meets a newer schema, one with other text meets
  a recorded checksum.
- The offsets of `values` cross a month, a leap day, a century, an era and both
  ends of the calendar. Its numbers are long enough to have too many places, too
  great a coefficient, or either alone, and more digits than a float; as in the
  program, a float prints fewer whole digits plainly than it keeps, and more
  decimal places than a decimal may have.

`claim_store` sets `CHECK_DEADLOCK FALSE` because behaviours end when the bound
on transactions is used up, and `values` because the calendar and the documents end; every other
run checks deadlock.

Fairness is assumed in one place: `MigrationSpec` has weak fairness of
`Migrate(p)`, because a program that was started runs open_database to its end,
which waits for nobody. Nothing says that a program is started, and opening,
closing and failing are not fair. `NeverLeftHalfway` follows: programs that race
fail because another was faster, but one of them always finishes. All other
properties are safety properties.

### What the code does not do

Four runs check a statement of the documents that the code does not satisfy; TLC
finds the counterexample and `PROJECT.json` quotes the lines.

| Run | Statement | What happens |
|---|---|---|
| `doc_conflicts_inspectable` | conflicting claims produce a contradiction | only record_claim looks for conflicts, not a correction, not a review that revives a withdrawn claim |
| `doc_affected_complete` | a correction identifies the evaluations it affects | they are found through evidence rows, which a human claim has not: a correction of a correction finds none |
| `doc_retries` | retries are idempotent or guarded against duplicate evidence | an extraction that is repeated after its claim was corrected records the claim again, and contradicts the correction |
| `doc_ingested_preserved` | every ingested artifact is preserved | the directory is not synced after the rename, the metadata is: a power loss may keep the version and lose its bytes |

Further observations that have no run:

- The current state of a claim need not be the last one written: the clock is
  read before the mutex, so a review that commits last with an older timestamp
  is never current (`docs/domain-model.md:46` speaks of the latest change).
- A repeated extraction whose claims nobody touched is harmless in the sense of
  `RepeatedClaimsCorroborate`: the copies corroborate the first ones.
- The HTTP route answers 400 to every failed extraction, a storage error
  included; a failed extraction keeps the claims it had recorded.
- A key that contains its value ("a: a") is what the span of the value locates;
  `SpansHoldTheValue` says what holds for every line.
- A JSON number is printed from its parsed form, and unless it is a 64-bit integer
  that is a float: 123456789.12345678901 loses its last digits, "1.50" becomes
  "1.5" and "-0" becomes "-0.0", and 0.000001, a decimal in a text document,
  becomes text with an exponent. The original representation is the printed
  number too. `docs/extraction-pipeline.md:32` says "Original representations
  always remain in claim and provenance records", `assurance/STANDARDS.md:23` "case
  facts do not use floating point". `NumbersAreExact` says what is left: all other
  numbers are exact or refused, and these are off by at most half a unit of a
  float's last digit.
- One field that does not normalize ("$5") fails the whole document,
  while a multi-line or blank CSV cell is refused by the service after the
  claims of earlier cells were recorded. parse_iso accepts a plus sign.
- A carriage return at the end of a quoted last cell is stripped
  (`CsvReadsWhatIsWritten` excepts it).
- Every registration inserts the rules row, so a second version of a rule is
  refused by UNIQUE(package_id, stable_key); a version numbered 0 is refused as a
  conflict. Effective dates are neither validated on input nor consulted, and a
  version with impossible ones can be registered and never loaded.
- A deadline question is answered "established" from the last evaluation with a
  task whatever became of its claims; `DeadlineAnswersAreTraceable` states what
  tells that it is stale. Returning an existing evaluation does not make it last.
- Page 0, malformed JSON and long texts in white space that is no blank pass the
  domain and are refused by the schema, as a conflict instead of as invalid input.

- A corrected claim is `verified` and has no fact, although
  `docs/domain-model.md:41` explains `verified` by a fact; `EstablishedHasFact`
  is stated for claims from a source.
- read verifies one opening of the file and returns the bytes of another, so
  damage in between is returned; `PublishedIsWhole` excepts damaged contents and
  is about what writers may do in between.
- A query counts superseded and rejected claims, so a conflict that was corrected
  stays one (`ConflictIsNeverSettled`, as `docs/rules-workflow-query.md:41` has it;
  `docs/domain-model.md:40` says a superseded claim is replaced "for current
  interpretation").
- A date that arrives in a request (a corrected value, the expected value of a
  condition) is deserialized into its fields without the checks of `Date::new`,
  so it need not be a day of the calendar. The models know valid dates only.
- The inputs of an evaluation need not fit one instant: claims and states are
  read under two locks (`docs/rules-workflow-query.md:9` reads as if they did).
  `InputsHadBeenVerified` states what remains true.
- A NULL source revision never meets the UNIQUE constraint, so each retry of an
  ingestion adds a source row (`IMPLEMENTATION_PLAN.md:41` calls duplicate
  ingestion idempotent); `SourcesAreDeliveries` states what is kept.
- An older program that passed the version check opens the database although a
  newer one migrates it meanwhile; `OpenedAgrees` therefore says that it finds
  its own migrations, not that there are no others.

## 4. The proofs

Each module of proofs extends the module it is about. Its theorems hold for every
value of the constants that satisfies the assumptions named there; they bound
nothing but ask that bounds be natural numbers. Refinements carry results from
one module to the next:

    PipelineSpec => ServiceSpec => StoreSpec        RegistrySpec => RuleSpec => StoreSpec
    IngestSpec => FilesSpec                         IngestSpec => ArchiveSpec (assumptions in 5)

so what is proved of the claim tables holds while documents are extracted,
questions answered and rules evaluated, and what is proved of put and read holds
under ingestion. Most of the invariants below are not inductive as the runs check
them; for each, what had to be added.

**`ClaimStoreProofs`**, from `StoreAssumption` (the unknown value is not a known one):

- `TypeCorrect`: `TypeOK` is inductive. It includes the foreign keys, those the
  schema declares and those it does not: each row refers to a claim and a
  transaction that exist. One step per action; under it one per table the action
  writes, the rest follow because `ClaimIds` and `Txns` only grow.
- `DetectionIsExact`: the contradictions table holds a pair exactly when the later
  claim came from a source and the earlier, incompatible one was not withdrawn
  when the later one was recorded, *whatever has happened since*. The right-hand
  side is a fact about the past: `WithdrawnBefore(a, t)` reads only rows written
  before transaction `t`, and a step adds rows of the next transaction only
  (lemmas on `RowsBefore` and `WithdrawnBefore`). For pairs that existed, both
  sides are therefore unchanged. For pairs with the new claim, "before now" is
  "now", which is what `Priors` reads.
- `FactsAreVerifications` is inductive with `TypeOK`, which says that a new claim
  has neither a fact nor a review.
- `EstablishedHasFactAlways`: which row of a claim is the latest depends on
  timestamps that come in any order. `VerifiedRowsHaveFacts` is about all rows: a
  `verified` row of a claim from a source was written with a fact, so it does not
  matter which row is read.
- `CorrectionsTrace` is inductive with `TypeOK`: a correction adds a claim that no
  earlier row refers to (`TraceStays`).
- `TablesOnlyGrow`: each action is a `Commits` step, which appends one audit event
  and loses no row. The lemmas `RecordCommits`, `ReviewCommits` and so on are
  what the next two proofs use of the actions.
- `ContradictionsAreVisible`: what makes a pair visible (`Visible`) never goes
  away, and record_claim writes it for every pair it adds.
- `HistoryIsAccountable` goes both ways: a row of the history is explained by its
  transaction's event, an event has its rows. Rows of old transactions keep their
  explanation because nothing is removed; the new ones are those of one action.
- `LostVerificationIsFinal` and `OnlyReviewsRevive` are about steps: which rows
  each action can add to a claim that existed, and that these decide a change of
  its latest row. The first needs that a fact makes the second verifying review fail.

**`PipelineProofs`**, for any number of workers and any documents:

- `ServiceImplementsStore`: every step is one of the store's or leaves the tables
  alone. For that a request in flight must name a claim that exists
  (`RequestsOK`): claims only grow, so what get_claim found is still there.
- `ServiceTypeCorrect`: `ServiceTypeOK`, from the same invariant.
- `PipelineUsesService`, `PipelineImplementsStore`, `PipelineTypeCorrect`: the
  steps of an extraction are submissions, commits and failures of the service.
- `RepliesStayWhole`: `ExtractionsOK` ties an extraction to the request it has in
  flight: the claims it holds are those of the first fields of its document, in
  order, and the request, if any, is for the next field. A reply with claims is
  given only when none is left.
- `RepeatedExtractionsAgree` needs `ProvenanceOK` (a claim from a source has one
  origin, whose key and value it has), `ArrivalsCorroborate` (an arriving claim
  corroborates every like claim that was not withdrawn) and `DetectionExact` (it
  contradicts only claims unlike it). All three speak of the past, like
  `DetectionExact`, and so survive reviews and corrections.
- `EstablishedStaysGrounded`: `Answers` says what was read under the second lock
  in terms that no later step changes: a claim found verified has a fact, or is
  human. `EstablishedHasFact` is used at the instant of that lock.
- `ConflictStays`: claims are only appended and the values of those listed stay.

**`RuleWorkflowProofs`**, for any number of evaluators and rules:

- `RulesImplementStore`: the evaluators write no claim table, and a correction is
  given only evaluations that exist.
- `EvaluationsAreUnique` is inductive with the type invariant: the look for equal
  inputs and the insert are one step.
- `AffectedIsExact`: an evaluation keeps the transaction it came `after`, so the
  right-hand side, the evaluations stored before a correction, does not change
  when more are stored.
- `EvaluationsAreReproducible`: the outcome of a rule depends on its inputs only
  (`InputsSuffice`) and these are claims that never change (`ConclusionStays`).
  The invariant `AllConclude` speaks of the stored inputs, not of what the
  evaluator read, which is the point of the property. `WorkIsAlwaysJustified`
  follows from it with what "satisfied" means (`SatisfiedIsMet`: anchors that do
  not disagree are one day, because there are finitely many).
- `InputsWereOnceVerified`: `InputsWereVerified` adds what evaluators hold between
  their locks, claims that were verified after some transaction so far.

**`RuleRegistryProofs`**, for any order of the listing:

- `RegistryImplementsRules`: registration and questions touch no evaluation or claim.
- `RegistryStaysWhole`: `OneVersionEach` (a rule has a row exactly if one version
  of it is registered) and `OnlyRegistered` (also what evaluators and evaluations
  name is registered, and what is registered has conditions).
- `DeadlineAnswersTrace`: `ListsAll`, every evaluation is listed and nothing else
  is; inserting anywhere keeps it (`InsertAtFacts`). Among the positions with a
  task there is a last one (`LastExists`, by well-foundedness of the naturals).
  The rest of the property is `InputsWereOnceVerified` and `AffectedIsExact`.

**`IngestionProofs`**, for any number of threads, processes, contents and
temporary files, with crashes, failures, damage and loss of power:

- `FilesTypeCorrect`, `TempsStayOwned`: the invariant `FilesInv` adds to both
  properties that the number of every name in use, the names a thread is about to
  remove included, is below the counter of its process (`SequencesDrawn`), so the
  next name drawn is none of them.
  The steps of put and read are first brought to five forms (`Looks`, `Opens`,
  `Fills`, `Renames`, `Removes`), and each invariant is proved of the forms.
- `PublishedStaysWhole`: the only write to a final path is a rename of a file that
  its owner filled, and `TempsAreOwned` says that it still holds that.
- `SuccessIsWhole`, `PublishedStays`: the same, of single steps. Proving the
  second showed that the property, as it first stood, did not hold with two
  damages: a content that is damaged already may be damaged again. It now says so.
- `IngestTypeCorrect`, `SourcesStayDeliveries`, `LogStaysTrue`: `MetadataOK`, the
  foreign keys of the metadata, and that a commit is one event, one use and at
  most one version (`Commits`). `LogStaysTrue` is about the events of one artifact:
  the storing ones number its versions one by one, since the number is the count
  of versions in the transaction that logs it.
- `IngestionIsAnArchive`: with `PublishedIsWhole`, `DiskKeeps` (no rename can be
  lost and nothing is damaged) and `Readable` (the bytes of every version are at
  their path). A thread commits metadata only while it is at "stored", and
  `FilesTypeOK` says that its file is there still, whatever others did since.

**`MigrationsProofs`**, for any programs, versions and texts:

- `SchemaStaysRecorded`, `OpenedAlwaysAgrees`: `ProgramsAgree`, a program that
  looks at or applies version `v` has found the schema below `v` to be its own.
  The schema only grows, so a race can only let a program fail.

**`RecordsProofs`**, from `BundleAssumption` (a bundle has the fields of its type,
at most one temporal value, and variants for its enumerations), for any width of
integers and texts:

- `RowsAreReadBack`: the tables of texts that are written and parsed are inverse
  (`VariantsAreParsed`), so reading undoes writing for every bundle (`ParsedRow`).
  The readers refuse only negative positions, which the schema refused before, and
  what does not validate, which the domain refused (`AcceptedIsReadable`). The
  inductive invariant `StoredIsAccepted` says that a stored row passed both.

**`CalendarProofs`**, for every date and every number of days:

- The formulas count in years that begin with March. Their lemmas follow them: a
  day of an era is a century, a cycle of four years, a year and a day in it
  (`InEra`, `YearOfDay`), a day of a March year is a month and a day (`IsDayOf`,
  `MonthOfDay`), and the divisions of `civil_from_days` find both (`YearIsFound`,
  `MonthIsFound`, together `DayIsFound`). Nothing there is bounded by the calendar.
- The calendar that counts has a closed formula, `NewYear(y) + DaysTo(y, m) + d - 1`
  (`Number`), and `days_from_civil` is that number (`DaysAreCounted`). The number of
  a March day is the same (`MarchNumber`), so each formula undoes the other
  (`WayBack`, `WayThere`).
- `DatesAlwaysExact`: the inductive invariant `Counted` says that the counting
  arrives at `NewYear`; one step is the lemma `NextNewYear`. The recursive
  `DaysBefore` has twelve values, which are computed one from the other
  (`MonthsAdd`), so no induction over data is needed.
- `DatesReturn`, `EveryAdditionIsExact`: what the run checks of chosen offsets and
  three dates a year holds of all. `checked_add_days` finds the one valid date
  with the right number, or nothing if the number lies before 0001-01-01 or after
  9999-12-31; for the ends, the order of dates is the order of their numbers
  (`DaysOrderDates`).
- `FallbacksAreNeverTaken`: `civil_from_days` ends in `unwrap_or`, which the model
  leaves out. For no valid date and no `i32` can one of the three conversions
  fail, so the model loses nothing.

What only TLC checks:

- `NeverLeftHalfway`: liveness under fairness, which needs ENABLED.
- `CsvReadsWhatIsWritten`, `SpansHoldTheValue`, `NumbersAreExact`: what they say
  of a document is defined by folds and recursion over its symbols, of which
  there is no bound, so they need induction over data.
- The statements of the `doc_*` runs, which are false.

## 5. Assumptions

- SQLite transactions are atomic, isolated and durable (`synchronous = FULL`),
  and each repository method holds the connection mutex throughout, or once for
  each of its two reads (list_grounded_claims). A transaction that cannot have
  the database in time is `Abort`.
- Claims and rules are served by one instance, as documented. Transactions are
  deferred, so those of another process would be atomic or aborted, but the
  states that list_grounded_claims reads one by one could then differ in age.
- SHA-256 has no collisions, ids are unique.
- Values that are dates are days of the calendar (`Date::new`, `Date::parse_iso`);
  the HTTP interface does not ensure it.
- A rename is atomic for readers. Live processes that share an artifact
  directory have different process ids.
- For ingestion to implement the archive, in the `ingestion` run and in
  `IngestionIsAnArchive`: nobody damages files (`MaxDamage = 0`) and renames
  survive a power loss (`DirectorySynced = TRUE`). The first is outside the
  program; `doc_ingested_preserved` shows that the program does not ensure the
  second. The other theorems about the store and ingestion need neither.
- Claims, versions and audit events are not written by anything else. The
  triggers of migration 0004 refuse updates and deletes of them.

## 6. Not modelled, and the plan

- Path confinement, key parsing, size limits and the other input checks of
  ingestion are made before any state changes; create_case is one insert.
- The reasoning gateway is a sequential decision without state that nothing in
  the workspace calls. Configuration, clock, id generator and log records keep no
  state either; the assurance tool and the sample domain are not part of the
  running program.
- Of the HTTP API and the command line only what changes state and what an
  extraction is answered; routing, bodies and rendering are left out, and so is
  everything that only reads.
- Identifiers, confidences, currencies, and the tables that nothing writes
  (entities, relationships, events).
- Termination of put, evaluate and extract: each is a loop over a fixed number of
  steps that waits for nobody but the connection mutex.

Every safety property that a run checks is proved, except the three statements
about documents. Those would need induction over sequences of symbols, which the
provers do not have.
