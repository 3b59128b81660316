---------------------------- MODULE MCClaimStore ----------------------------
(***************************************************************************)
(* The claim tables with small constants for TLC.                          *)
(***************************************************************************)
EXTENDS ClaimStore, TLC

\* The known values are interchangeable, and so are the keys.
Interchangeable == Permutations(Values) \cup Permutations(Keys)
=============================================================================
