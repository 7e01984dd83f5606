--------------------------- MODULE MaskCalibration ---------------------------
(***************************************************************************)
(* What the branch-mask builder promises (spec 4.B): for the entry's       *)
(* input and the target branch, the mask kept for the havoc stage          *)
(* (orig_branch_mask) is either the one allocated for a run that builds no *)
(* mask, or, set once from all zeroes, the mask whose byte i has           *)
(*   OVERWRITE iff the input with byte i XOR 0xFF still hits the branch,   *)
(*   DELETE    iff the input without byte i still hits it,                 *)
(*   INSERT    iff the input with a random byte inserted before i still    *)
(*             hits it (for i = 0 .. L; the random byte is any value),     *)
(* and whose byte L carries no OVERWRITE or DELETE bit.  The deterministic *)
(* stage builds it one candidate at a time; Deterministic shows that those *)
(* steps implement this single step.                                       *)
(***************************************************************************)
EXTENDS Target, BranchMask

VARIABLES
  key,          \* the bytes the target branch depends on
  mask,         \* orig_branch_mask
  calibrated    \* the mask has been built

absVars == <<key, mask, calibrated>>

ZeroMask == [p \in 1 .. L + 1 |-> 0]

IsSafeMask(k, m) ==
  /\ \A p \in 0 .. L - 1 :
       /\ HasFlag(m[p + 1], OVERWRITE) = Hits(k, FlipByte(Input, p))
       /\ HasFlag(m[p + 1], DELETE) = Hits(k, DelByte(Input, p))
  /\ ~HasFlag(m[L + 1], OVERWRITE) /\ ~HasFlag(m[L + 1], DELETE)
  /\ \A p \in 0 .. L :
       HasFlag(m[p + 1], INSERT) \in {Hits(k, InsByte(Input, p, v)) : v \in RandBytes}

AbsInit ==
  /\ key \in SUBSET (1 .. L)
  /\ mask \in {ZeroMask, AllocBranchMask(L + 1)}
  /\ calibrated = FALSE

Calibrate ==
  /\ ~calibrated
  /\ mask = ZeroMask
  /\ mask' \in [1 .. L + 1 -> Flags]
  /\ IsSafeMask(key, mask')
  /\ calibrated' = TRUE
  /\ UNCHANGED key

AbsSpec == AbsInit /\ [][Calibrate]_absVars
=============================================================================
