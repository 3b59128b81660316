----------------------------- MODULE MCIngestion -----------------------------
(***************************************************************************)
(* Ingestion with small constants for TLC: one thread in each process.     *)
(***************************************************************************)
EXTENDS Ingestion, TLC

CONSTANTS t1, t2, p1, p2

MCProcessOf == t1 :> p1 @@ t2 :> p2
MCPurposes == [key : ArtifactKeys, source : Sources]

\* Contents are interchangeable, and so are the processes with their threads.
Swap == t1 :> t2 @@ t2 :> t1 @@ p1 :> p2 @@ p2 :> p1
Interchangeable == Permutations(Contents) \cup {Swap}
=============================================================================
