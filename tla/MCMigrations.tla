---------------------------- MODULE MCMigrations ----------------------------
(***************************************************************************)
(* Four programs for TLC: two of one version, an older one, and one that   *)
(* was built after the second migration was edited.                        *)
(***************************************************************************)
EXTENDS Migrations

CONSTANTS m1, m2, m3, m4, m2edited, new1, new2, old, changed

MCSources ==
    [p \in Programs |->
        CASE p \in {new1, new2} -> <<m1, m2, m3, m4>>
          [] p = old            -> <<m1, m2>>
          [] p = changed        -> <<m1, m2edited, m3, m4>>]
=============================================================================
