--------------------------- MODULE MCArtifactStore ---------------------------
(***************************************************************************)
(* The artifact store with small constants for TLC: two threads of one     *)
(* process and one thread of another.                                      *)
(***************************************************************************)
EXTENDS ArtifactStore, TLC

CONSTANTS t1, t2, t3, p1, p2

MCProcessOf == t1 :> p1 @@ t2 :> p1 @@ t3 :> p2
Interchangeable == Permutations({t1, t2})
=============================================================================
