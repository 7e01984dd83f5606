------------------------------ MODULE MCHavoc ------------------------------
(***************************************************************************)
(* Bounds for checking Havoc with TLC.                                      *)
(***************************************************************************)
EXTENDS Havoc

\* The splice operators with one size-changing and one overwriting family,
\* for the run that re-enters havoc through the splice stage.
MCOpsSplice == {"SpliceOver", "SpliceInsert", "Delete", "Byte1"}
\* FLIP_BIT1 alone, for the run that checks the bytes it flips.
MCOpsFlipBit == {"FlipBit"}
=============================================================================
