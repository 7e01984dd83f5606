---------------------------- MODULE AdwinWindow ----------------------------
(***************************************************************************)
(* What ADWIN promises an arm of the ADWIN-TS bandit (spec 4.F): it keeps  *)
(* a window of the arm's most recent rewards.  A reward joins the window   *)
(* at its new end; the detector may then forget the oldest rewards, but    *)
(* never so many that fewer than ADWIN_MIN_ELEM_TO_CHECK remain, or, with  *)
(* adaptive resetting, forget the whole window.                            *)
(***************************************************************************)
EXTENDS Integers, Sequences

CONSTANTS Arms, MinElemToCheck, AdaptiveResetting

VARIABLE wins   \* wins[i]: the rewards arm i's estimate is taken over

Forget(s) ==
  {s} \cup { SubSeq(s, k + 1, Len(s)) : k \in 1 .. Len(s) - MinElemToCheck }
      \cup (IF AdaptiveResetting THEN {<<>>} ELSE {})

Observe(i, r) == \E w \in Forget(Append(wins[i], r)) : wins' = [wins EXCEPT ![i] = w]

WindowInit == wins = [i \in Arms |-> <<>>]

WindowSpec == WindowInit /\ [][\E i \in Arms, r \in {0, 1} : Observe(i, r)]_wins
=============================================================================
