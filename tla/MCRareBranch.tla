---------------------------- MODULE MCRareBranch ----------------------------
(***************************************************************************)
(* Bounds for checking RareBranch: three branches, two queue entries that  *)
(* share branch 1.                                                         *)
(***************************************************************************)
EXTENDS RareBranch

MCTrace == [e \in {1, 2} |-> IF e = 1 THEN {0, 1} ELSE {1, 2}]
=============================================================================
