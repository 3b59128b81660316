--------------------------- MODULE MCClaimService ---------------------------
(***************************************************************************)
(* The claim service with small constants for TLC.                         *)
(***************************************************************************)
EXTENDS ClaimService, TLC

\* Workers are interchangeable, and so are the known values.
Interchangeable == Permutations(Workers) \cup Permutations(Values)
=============================================================================
