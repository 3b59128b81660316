--------------------------- MODULE EvidenceArchive ---------------------------
(***************************************************************************)
(* What ingestion promises: each artifact is a sequence of versions that   *)
(* only grows, by contents it does not have yet, and the bytes of every    *)
(* version can be read back exactly as they were ingested.                 *)
(***************************************************************************)
EXTENDS Sequences

CONSTANTS
    Artifacts,  \* (case, source_key) pairs
    Bytes       \* contents

VARIABLES
    history,  \* artifact -> sequence of contents that were ingested
    readable  \* artifact -> sequence of contents that a reader would get

archive == <<history, readable>>

Holds(a, c) == \E i \in DOMAIN history[a] : history[a][i] = c

ArchiveInit ==
    /\ history = [a \in Artifacts |-> <<>>]
    /\ readable = history

\* A duplicate changes nothing and is a stuttering step here.
Extend(a, c) ==
    /\ ~Holds(a, c)
    /\ history' = [history EXCEPT ![a] = Append(@, c)]
    /\ readable' = history'

ArchiveNext == \E a \in Artifacts, c \in Bytes : Extend(a, c)

ArchiveSpec == ArchiveInit /\ [][ArchiveNext]_archive
=============================================================================
