--------------------------- MODULE MCDeterministic ---------------------------
(***************************************************************************)
(* A six-byte entry for the deterministic stage.  Byte values are distinct *)
(* so that a token names where it came from; the keys and token sets give  *)
(* runs of equal checksum that end at a path change, at the end of the     *)
(* input, that are too short and too long for a token, and a branch that  *)
(* survives every candidate ({}), only some of them, or that an insertion  *)
(* at the end can break.                                                   *)
(***************************************************************************)
EXTENDS Deterministic

MCInput == <<7, 1, 2, 3, 9, 4>>
MCKeys == {{}, {2, 3, 4}, {6}}
MCTokenSets == {{}, {{4, 5, 6}}, {{1, 2, 3, 4, 5}}}
MCUserExtras == << <<1, 2>>, <<5, 5>>, <<5, 5, 2>> >>
MCAExtras == << <<9>>, <<3, 9>> >>
=============================================================================
