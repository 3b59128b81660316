------------------------------ MODULE Ingestion ------------------------------
(***************************************************************************)
(* Ingestion: the service stores the bytes first and then commits their    *)
(* metadata in one repository transaction.  A failure or a crash between   *)
(* the two leaves a blob that nothing refers to.                           *)
(*                                                                         *)
(* An artifact key is a (case, source_key) pair of an existing case; a     *)
(* source is a (connector, locator, source_revision) triple of the same    *)
(* case.  Every step of the repository runs under the connection mutex.    *)
(***************************************************************************)
EXTENDS ArtifactStore, Sequences

CONSTANTS
    ArtifactKeys,  \* (case, source_key) pairs
    Sources,       \* (connector, locator, source_revision) triples
    Unrevised,     \* the sources whose source_revision is NULL
    MaxIngests     \* bound on the committed ingestions

ASSUME IngestAssumption ==
    /\ Purposes = [key : ArtifactKeys, source : Sources]
    /\ Unrevised \subseteq Sources
    /\ MaxIngests \in Nat

VARIABLES
    versions,  \* key -> contents of its artifact_versions, by version_number
    sources,   \* rows of sources, in the order of insertion
    uses,      \* rows of artifact_version_sources
    log        \* audit events of ingestion, in commit order

metadata == <<versions, sources, uses, log>>

ingestVars == <<files, metadata>>

Versions(k) == DOMAIN versions[k]

(***************************************************************************)
(* The repository's transaction.                                           *)
(***************************************************************************)

\* load_artifact_version_by_hash
Stored(k, c) == {i \in Versions(k) : versions[k][i] = c}

SourceRows(s) == {i \in DOMAIN sources : sources[i] = s}

\* INSERT OR IGNORE against UNIQUE(case_id, connector, locator,
\* source_revision): SQLite takes two NULL revisions to be different.
IsNewSource(s) == s \in Unrevised \/ SourceRows(s) = {}

\* Mutant: the id of the bundle is used even when its insert was ignored.
SourceRow_Bundle(s) == Len(sources) + 1

SourceRow(s) ==
    IF IsNewSource(s) THEN Len(sources) + 1
                      ELSE CHOOSE i \in SourceRows(s) : TRUE

\* Mutant: a duplicate is not associated with the source it came from.
Associate_NewOnly(k, version, row) ==
    uses' = IF version \in Versions(k) THEN uses
            ELSE uses \cup {[key |-> k, version |-> version, source |-> row]}

\* associate_source
Associate(k, version, row) ==
    uses' = uses \cup {[key |-> k, version |-> version, source |-> row]}

Event(op, k, version, row) ==
    [op |-> op, key |-> k, version |-> version, source |-> row]

AddSource(s) ==
    sources' = IF IsNewSource(s) THEN Append(sources, s) ELSE sources

CommitDuplicate(k, s, c) ==
    \E i \in Stored(k, c) :
        /\ UNCHANGED versions
        /\ Associate(k, i, SourceRow(s))
        /\ log' = Append(log, Event("artifact.duplicate", k, i, SourceRow(s)))

\* Mutant: the bundle's version number is kept.
NextVersion_Bundle(k) == 1

\* COALESCE(MAX(version_number), 0) + 1
NextVersion(k) == Len(versions[k]) + 1

CommitVersion(k, s, c) ==
    LET next == NextVersion(k)
    IN  /\ Stored(k, c) = {}
        /\ versions' = [versions EXCEPT ![k] = Append(@, c)]
        /\ Associate(k, next, SourceRow(s))
        /\ log' = Append(log, Event(IF versions[k] = <<>>
                                    THEN "artifact.ingest"
                                    ELSE "artifact.version",
                                    k, next, SourceRow(s)))

(***************************************************************************)
(* ingest_bytes and read_artifact_version                                  *)
(***************************************************************************)
BeginIngest(t, k, s, c) ==
    /\ BeginPut(t, c, [key |-> k, source |-> s])
    /\ UNCHANGED metadata

\* Mutant: the metadata is committed before the bytes are in the store.
Ready_Early(t) == thread[t].step \in {"synced", "stored"}

Ready(t) == At(t, "stored")

CommitIngest(t) ==
    LET k == thread[t].purpose.key
        s == thread[t].purpose.source
        c == thread[t].content
    IN  /\ Ready(t) /\ Len(log) < MaxIngests
        /\ CommitDuplicate(k, s, c) \/ CommitVersion(k, s, c)
        /\ AddSource(s)
        /\ Rest(t)
        /\ UNCHANGED <<blob, temp, counter, volatile, damaged>>

\* The transaction fails and is rolled back; the blob stays.
AbortIngest(t) == EndPut(t) /\ UNCHANGED metadata

BeginReadVersion(t, k) ==
    /\ \E i \in Versions(k) : BeginRead(t, versions[k][i])
    /\ UNCHANGED metadata

StoreStep(t) == (PutStep(t) \/ ReadStep(t)) /\ UNCHANGED metadata

IngestInit ==
    /\ FilesInit
    /\ versions = [k \in ArtifactKeys |-> <<>>]
    /\ sources = <<>> /\ uses = {} /\ log = <<>>

IngestNext ==
    \/ \E t \in Threads :
          \/ \E k \in ArtifactKeys, s \in Sources, c \in Contents :
                BeginIngest(t, k, s, c)
          \/ \E k \in ArtifactKeys : BeginReadVersion(t, k)
          \/ StoreStep(t) \/ CommitIngest(t) \/ AbortIngest(t)
    \/ Environment /\ UNCHANGED metadata

IngestSpec == IngestInit /\ [][IngestNext]_ingestVars

(***************************************************************************)
(* Properties                                                              *)
(***************************************************************************)
Operations == {"artifact.ingest", "artifact.version", "artifact.duplicate"}

IngestTypeOK ==
    /\ FilesTypeOK
    /\ versions \in [ArtifactKeys -> Seq(Contents)]
    /\ sources \in Seq(Sources)
    /\ \A u \in uses : /\ u.key \in ArtifactKeys /\ u.version \in Versions(u.key)
                       /\ u.source \in DOMAIN sources
    /\ log \in Seq([op : Operations, key : ArtifactKeys, version : Nat,
                    source : Nat])
    /\ \A i \in DOMAIN log : /\ log[i].version \in Versions(log[i].key)
                              /\ log[i].source \in DOMAIN sources

\* What ingestion promises (EvidenceArchive), for the bytes a reader finds.
Archive == INSTANCE EvidenceArchive WITH
    Artifacts <- ArtifactKeys,
    Bytes <- Contents,
    history <- versions,
    readable <- [k \in ArtifactKeys |->
                    [i \in Versions(k) |-> blob[versions[k][i]]]]

\* Ingestion implements the archive: metadata never refers to bytes that are
\* not in the store, through failures and crashes of any process, and no
\* content is two versions of an artifact (bytes first, metadata last).
ArchiveSpec == Archive!ArchiveSpec

EventsOf(k, ops) == {i \in DOMAIN log : log[i].key = k /\ log[i].op \in ops}

\* The audit log tells the history of every artifact: version n was stored by
\* exactly one event, versions in their order and the first by the only
\* "artifact.ingest", and a duplicate names a version stored before it.
LogTellsVersions ==
    \A k \in ArtifactKeys :
        LET new == EventsOf(k, {"artifact.ingest", "artifact.version"})
        IN  /\ \A n \in Versions(k) : \E i \in new :
                  /\ log[i].version = n
                  /\ log[i].op = "artifact.ingest" <=> n = 1
            /\ \A i, j \in new : i < j => log[i].version < log[j].version
            /\ \A i \in EventsOf(k, {"artifact.duplicate"}) : \E j \in new :
                  j < i /\ log[j].version = log[i].version

\* Where a version came from is on record: its sources are exactly those of
\* the ingestions that delivered it, duplicates included.
SourcesAreDeliveries ==
    uses = {[key |-> log[i].key, version |-> log[i].version,
             source |-> log[i].source] : i \in DOMAIN log}

(***************************************************************************)
(* What the documents say and the code does not do                         *)
(***************************************************************************)

\* CG-HLR-001: "preserve every ingested artifact".  The directory of a renamed
\* file is not synced, the metadata is.
IngestedIsPreserved ==
    \A k \in ArtifactKeys : \A i \in Versions(k) :
        blob[versions[k][i]] # Absent
=============================================================================
