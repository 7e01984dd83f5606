------------------------------- MODULE Bandit -------------------------------
(***************************************************************************)
(* The operator-selector bandit of the havoc stage (afl-fuzz-one.c): the   *)
(* mask of illegal operators built for each iteration (3506-3531), the     *)
(* select_arm of the compiled-in MUT_ALG, the Exp3 skip of a masked pick   *)
(* (3534-3537, 4790-4797, 4921-4926), and the add_reward that follows      *)
(* each iteration (4802-4808, 4899-4905, 4917-4927), over many fuzz_one    *)
(* calls that share afl->mut_bandit.  The ADWIN-TS arms keep an ADWIN each *)
(* (Adwin).                                                                *)
(*                                                                         *)
(* The arms are the cases whose legality the mask decides, and FLIP_BIT1,  *)
(* which is always legal.  What select_arm computes in doubles (UCB and    *)
(* KL-UCB indices, Beta and categorical samples, Exp3 weights and trusts)  *)
(* is a nondeterministic choice among the arms the code can return; the    *)
(* integer counters and the control around them are exact.                 *)
(***************************************************************************)
EXTENDS Integers, Sequences, SequencesExt, FiniteSets, Adwin

CONSTANTS
  Algs,                 \* MUT_ALG values (one per behaviour, as compiled in)
  FLIP_BIT1, OVERWRITE_WITH_EXTRA, INSERT_EXTRA,
  SPLICE_OVERWRITE, SPLICE_INSERT,       \* arm indices (enum of the cases)
  ExtrasCnts,           \* values of afl->extras_cnt
  ReadyCounts,          \* values of afl->ready_for_splicing_count
  Lens,                 \* values of len for the entry being fuzzed
  MaxFile, BlkXL,       \* MAX_FILE, HAVOC_BLK_XL
  StageMax,             \* havoc iterations of one fuzz_one call
  MaxPicks              \* bound on select_arm calls in a behaviour

Arms == {FLIP_BIT1, OVERWRITE_WITH_EXTRA, INSERT_EXTRA, SPLICE_OVERWRITE, SPLICE_INSERT}
NArms == Cardinality(Arms)
NoArm == -1

ASSUME /\ Arms = 0 .. NArms - 1 /\ NArms = 5
       /\ Algs \subseteq {"uniform", "ucb", "klucb", "ts", "adsts", "dts", "dbe",
                          "exppp", "expix"}

ExpAlgs == {"exppp", "expix"}

VARIABLES
  alg,       \* MUT_ALG
  mask,      \* the arms mask[] marks illegal in this fuzz_one call
  bnd,       \* afl->mut_bandit: per-arm num_selected (pulls for Exp3),
             \* total_rewards, the adwin of ADWIN-TS arms, and t/time_step
  hist,      \* hist[i]: the rewards fed to ADWIN-TS arm i, oldest first
  phase,     \* "idle" between havoc stages, "havoc" inside the loop
  iter,      \* afl->stage_cur
  picks,     \* select_arm calls so far
  lastExec   \* the case the last iteration executed (NoArm if none)

vars == <<alg, mask, bnd, hist, phase, iter, picks, lastExec>>

\* The mask of 3506-3531, restricted to the modelled arms.
HavocMask(extras, ready, len) ==
  { i \in Arms :
      \/ extras = 0 /\ i \in {OVERWRITE_WITH_EXTRA, INSERT_EXTRA}
      \/ ready <= 1 /\ i \in {SPLICE_INSERT, SPLICE_OVERWRITE}
      \/ len + BlkXL >= MaxFile /\ i = SPLICE_INSERT
      \/ len < 2 /\ i = SPLICE_OVERWRITE }

Legal == Arms \ mask

\* ucb/klucb_select_arm: the loop breaks at the first legal arm never selected.
FirstUnseen == { i \in Legal : bnd.sel[i] = 0 /\ \A j \in Legal : j < i => bnd.sel[j] > 0 }

\* dbe_select_arm: the legal arms with dis_num_selected <= 0, i.e. never pulled.
Unpulled == { i \in Legal : bnd.sel[i] = 0 }

(***************************************************************************)
(* The arms select_arm(afl, mut_bandit, mask) can return.  ts, adsts and   *)
(* dts keep selected_idx = 0 when every arm is masked.  exppp plays arm    *)
(* t - 1 for its first n_arms calls; exppp and expix never read the mask.  *)
(***************************************************************************)
SelectArm ==
  CASE alg = "uniform"               -> Legal
    [] alg \in {"ucb", "klucb"}      -> IF FirstUnseen # {} THEN FirstUnseen ELSE Legal
    [] alg \in {"ts", "adsts", "dts"} -> IF Legal = {} THEN {0} ELSE Legal
    [] alg = "dbe"                   -> IF Unpulled # {} THEN Unpulled ELSE Legal
    [] alg = "exppp"                 -> IF bnd.t + 1 <= NArms THEN {bnd.t} ELSE Arms
    [] alg = "expix"                 -> Arms

\* (A variant in which no select_arm counts the pull.)
SelectedNone(b, i) == b

\* (A variant in which every select_arm counts the pull.)
SelectedAll(b, i) == [b EXCEPT !.t = @ + 1, !.sel[i] = @ + 1]

\* What select_arm itself changes: the Exp3 arms count t and pulls there.
Selected(b, i) ==
  IF alg \in ExpAlgs THEN [b EXCEPT !.t = @ + 1, !.sel[i] = @ + 1] ELSE b

\* ADD_REWARD(MUT_ALG)(mut_bandit, i, r): the bandits it can leave.
AddReward(b, i, r) ==
  CASE alg \in {"uniform", "ts", "dts", "dbe"} ->
         {[b EXCEPT !.sel[i] = @ + 1, !.rew[i] = @ + r]}
    [] alg \in {"ucb", "klucb"} ->
         {[b EXCEPT !.t = @ + 1, !.sel[i] = @ + 1, !.rew[i] = @ + r]}
    [] alg = "adsts" ->
         {[b EXCEPT !.sel[i] = @ + 1, !.rew[i] = @ + r, !.adw[i] = w] : w \in AddElem(b.adw[i], r)}
    [] alg \in ExpAlgs ->
         {[b EXCEPT !.rew[i] = @ + r]}

\* exp_invalid: an Exp3 pick of a masked case skips the mutation and the run.
ExpInvalidNever(i) == FALSE

ExpInvalid(i) == alg \in ExpAlgs /\ i \in mask

Init ==
  /\ alg \in Algs
  /\ mask = {}
  /\ bnd = [sel |-> [i \in Arms |-> 0], rew |-> [i \in Arms |-> 0], t |-> 0,
            adw |-> [i \in Arms |-> AdwinInit]]
  /\ hist = [i \in Arms |-> <<>>]
  /\ phase = "idle" /\ iter = 0 /\ picks = 0 /\ lastExec = NoArm

\* A fuzz_one call reaches the havoc stage with its entry's len.
StartHavoc ==
  /\ phase = "idle" /\ picks < MaxPicks
  /\ \E e \in ExtrasCnts, q \in ReadyCounts, l \in Lens : mask' = HavocMask(e, q, l)
  /\ phase' = "havoc" /\ iter' = 0 /\ lastExec' = NoArm
  /\ UNCHANGED <<alg, bnd, hist, picks>>

(***************************************************************************)
(* One havoc iteration: select, then either the Exp3 skip straight to the *)
(* zero reward at L_EXP_INVALID_2, or the run, whose outcome is an abandon *)
(* (reward 0, goto abandon_entry), a new queue entry (reward 1) or nothing *)
(* new (reward 0).                                                         *)
(***************************************************************************)
HavocIter ==
  /\ phase = "havoc" /\ iter < StageMax /\ picks < MaxPicks
  /\ \E i \in SelectArm, out \in {"abandon", "new", "none"} :
       LET r == IF out = "new" THEN 1 ELSE 0
       IN  /\ ExpInvalid(i) => out = "none"
           /\ \E b \in AddReward(Selected(bnd, i), i, r) : bnd' = b
           /\ hist' = IF alg = "adsts" THEN [hist EXCEPT ![i] = Append(@, r)] ELSE hist
           /\ lastExec' = IF ExpInvalid(i) THEN NoArm ELSE i
           /\ phase' = IF out = "abandon" THEN "idle" ELSE "havoc"
  /\ iter' = iter + 1 /\ picks' = picks + 1
  /\ UNCHANGED <<alg, mask>>

HavocEnd ==
  /\ phase = "havoc" /\ iter = StageMax
  /\ phase' = "idle"
  /\ UNCHANGED <<alg, mask, bnd, hist, iter, picks, lastExec>>

Next == StartHavoc \/ HavocIter \/ HavocEnd

Spec == Init /\ [][Next]_vars

-----------------------------------------------------------------------------

TypeOK ==
  /\ alg \in Algs /\ mask \subseteq Arms /\ phase \in {"idle", "havoc"}
  /\ bnd.sel \in [Arms -> 0 .. MaxPicks] /\ bnd.rew \in [Arms -> 0 .. MaxPicks]
  /\ bnd.t \in 0 .. MaxPicks
  /\ hist \in [Arms -> Seq({0, 1})]
  /\ iter \in 0 .. StageMax /\ picks \in 0 .. MaxPicks /\ lastExec \in Arms \cup {NoArm}

(***************************************************************************)
(* The havoc stage never runs a case the mask marks illegal (no extras    *)
(* loaded, no splice partner, too short, too long): each bandit honours   *)
(* the mask, and an Exp3 pick of a masked case is skipped.                *)
(***************************************************************************)
ExecutedLegal == lastExec # NoArm => lastExec \notin mask

(***************************************************************************)
(* Each havoc iteration counts exactly one pull, whichever of its exits it *)
(* takes (abandon, new path, nothing new, or the Exp3 skip): the arms'     *)
(* num_selected/pulls add up to the select_arm calls, no arm has more      *)
(* rewards than pulls, and the time step of UCB, KL-UCB and Exp3 is the    *)
(* number of calls.                                                        *)
(***************************************************************************)
PullsCounted ==
  /\ SumFunction(bnd.sel) = picks
  /\ \A i \in Arms : bnd.rew[i] <= bnd.sel[i]
  /\ alg \in {"ucb", "klucb"} \cup ExpAlgs => bnd.t = picks

\* The rewards ADWIN-TS arm i's adwin counts: the last W of those fed to it.
Window(i) ==
  LET h == hist[i]  w == bnd.adw[i].W
  IN  IF w <= Len(h) THEN SubSeq(h, Len(h) - w + 1, Len(h)) ELSE <<>>

(***************************************************************************)
(* Every ADWIN-TS arm's adwin summarises the arm's most recent rewards:    *)
(* W of them, in windows of 1 << exp rewards that fold and expire oldest   *)
(* first, with sum their total, nodes of at most ADWIN_M windows, and      *)
(* last_node_idx naming the tail.  adsts_select_arm's Beta parameter       *)
(* W - sum + 1 (a u64) is then never wrapped.                              *)
(***************************************************************************)
AdwinSummarisesWindow ==
  alg = "adsts" =>
    \A i \in Arms :
      LET a == bnd.adw[i]
      IN  /\ a.W <= Len(hist[i])
          /\ Summarises(a, Window(i))
          /\ a.sum = SumOf(Window(i))
          /\ a.last = Len(a.nodes) - 1
          /\ \A j \in 1 .. Len(a.nodes) : Len(a.nodes[j]) <= AdwinM

(***************************************************************************)
(* The per-arm adwins implement the sliding windows of AdwinWindow: a      *)
(* reward joins the arm's window, and a drop forgets only the oldest       *)
(* rewards and leaves at least ADWIN_MIN_ELEM_TO_CHECK of them.            *)
(***************************************************************************)
Windows == INSTANCE AdwinWindow
             WITH wins <- [i \in Arms |-> IF alg = "adsts" THEN Window(i) ELSE <<>>]

AdwinRefinement == Windows!WindowSpec
=============================================================================
