---------------------------- MODULE Deterministic ----------------------------
(***************************************************************************)
(* The deterministic stage of fuzz_one_original (afl-fuzz-one.c, 1837 to   *)
(* 3236): the walking bit flips with auto-extra induction, the effector    *)
(* map, the walking-byte flip that also builds the rare-branch mask with   *)
(* the rbrem8 and rbadd8 passes, the wider flips, arithmetic and           *)
(* interesting-value stages, and the dictionary stages.                    *)
(*                                                                         *)
(* One step is one iteration of a stage's outer loop (stage_cur or i).     *)
(* Every candidate is executed by common_fuzz_stuff and the loop restores  *)
(* out_buf before the next iteration, so out_buf is Input at every step    *)
(* boundary and is not a variable; a step records the positions its        *)
(* candidates overwrote (wrote) or inserted before (insAt).  A non-zero    *)
(* return of common_fuzz_stuff jumps to abandon_entry: the step sets       *)
(* aborted and nothing else happens.  The arithmetic and interesting-value *)
(* stages try many values per window; which of them run is decided by the  *)
(* redundancy predicates, and the step keeps only that its candidates      *)
(* write inside the window.                                                *)
(***************************************************************************)
EXTENDS Target, BranchMask

CONSTANTS
  Modes,          \* subset of {"vanilla", "rb", "rb_nomask", "shadow"}
  Keys,           \* candidate keys of the target branch
  TokenSets,      \* candidate token sets of the target
  MayAbandon,     \* common_fuzz_stuff may return 1
  NoArith,        \* afl->no_arith
  EffScale2, EffMinLen, EffMaxPerc,   \* EFF_MAP_SCALE2, EFF_MIN_LEN, EFF_MAX_PERC
  MinAutoExtra, MaxAutoExtra,         \* MIN_AUTO_EXTRA, MAX_AUTO_EXTRA
  UserExtras,     \* afl->extras, sorted by length as load_extras leaves them
  MaxDetExtras,   \* afl->max_det_extras
  AExtras,        \* afl->a_extras
  UseAutoExtras,  \* USE_AUTO_EXTRAS
  MaxFile         \* MAX_FILE

ASSUME /\ Modes \subseteq {"vanilla", "rb", "rb_nomask", "shadow"}
       /\ Keys \subseteq SUBSET (1 .. L) /\ Keys # {}
       /\ \A ts \in TokenSets : ts \subseteq SUBSET (1 .. L)
       /\ MinAutoExtra \in 1 .. MaxAutoExtra
       /\ \A e \in {UserExtras, AExtras} :
            /\ e \in Seq(Seq(0 .. 255))
            /\ \A j \in 1 .. Len(e) : Len(e[j]) >= 1
            /\ \A j \in 1 .. Len(e) - 1 : Len(e[j]) <= Len(e[j + 1])

VARIABLES
  mode,          \* vanilla AFL, rare-branch, rare-branch without mask, shadow pass
  key, tokens,   \* the target (fixed for the call)
  skipSimple,    \* skip_simple_bitflip
  rbSkipDet,     \* rb_skip_deterministic
  stage,         \* the stage whose loop runs, "havoc" once it is left
  cur,           \* stage_cur, or i for the loops over positions
  aborted,       \* a candidate's run returned 1: goto abandon_entry
  mask,          \* branch_mask
  origMask,      \* orig_branch_mask
  effMap,        \* eff_map, indexed by block 0 .. EFF_ALEN(len) - 1
  effCnt,        \* eff_cnt
  prevCksum,     \* prev_cksum
  aLen,          \* a_len
  aCollect,      \* a_collect[0 .. MIN(a_len, MAX_AUTO_EXTRA) - 1]
  offered,       \* the tokens passed to maybe_add_auto
  wrote,         \* positions the last step's candidates overwrote
  insAt          \* positions the last step's candidates inserted before

fixed == <<mode, key, tokens, skipSimple, rbSkipDet>>
induction == <<prevCksum, aLen, aCollect, offered>>
vars == <<fixed, stage, cur, aborted, mask, origMask, effMap, effCnt,
          induction, wrote, insAt>>

RbFuzzing == mode # "vanilla"                \* afl->rb_fuzzing
Calibrating == mode = "rb"  \* rb_fuzzing && !shadow_mode && use_branch_mask > 0
Exec == ExecCksum(key, tokens)

\* EFF_APOS, EFF_REM, EFF_ALEN.
EffApos(p) == p \div 2^EffScale2
EffRem(x) == x % 2^EffScale2
EffAlen(l) == EffApos(l) + (IF EffRem(l) # 0 THEN 1 ELSE 0)
EffBlocks == 0 .. EffAlen(L) - 1

\* The positions a w-byte window at i covers.
Window(i, w) == i .. i + w - 1

\* Some byte of the span has its effector block set (the !eff_map tests
\* and memchr(eff_map + EFF_APOS(i), 1, EFF_SPAN_ALEN(i, w))).
EffAny(i, w) == \E b \in EffApos(i) .. EffApos(i + w - 1) : effMap[b] = 1

\* Every byte of the span may be overwritten: branch_mask[p] & 1.
MaskAll(i, w) == \A p \in Window(i, w) : HasFlag(mask[p + 1], OVERWRITE)

\* goto abandon_entry after a candidate's run.
Abandon ==
  /\ MayAbandon
  /\ aborted' = TRUE
  /\ UNCHANGED <<fixed, stage, cur, mask, origMask, effMap, effCnt, induction,
                 wrote, insAt>>

(***************************************************************************)
(* Entry (1752-1843): the masks allocated for the call, the skip flags the *)
(* rare-branch selection or the main-node split leave, eff_cnt = 1 and     *)
(* a_len = 0 from the declarations.                                        *)
(***************************************************************************)
Init ==
  /\ mode \in Modes
  /\ key \in Keys
  /\ tokens \in TokenSets
  /\ skipSimple \in IF mode = "vanilla" THEN {FALSE} ELSE BOOLEAN
  /\ rbSkipDet \in IF skipSimple THEN BOOLEAN ELSE {FALSE}
  /\ stage = IF skipSimple THEN "eff" ELSE "flip1"
  /\ cur = 0
  /\ aborted = FALSE
  /\ mask = IF Calibrating THEN [p \in 1 .. L + 1 |-> 0] ELSE AllocBranchMask(L + 1)
  /\ origMask = mask
  /\ effMap = [b \in EffBlocks |-> 0]
  /\ effCnt = 1
  /\ prevCksum = Exec
  /\ aLen = 0
  /\ aCollect = <<>>
  /\ offered = {}
  /\ wrote = {}
  /\ insAt = {}
(***************************************************************************)
(* Auto-extra induction (1912-1966), run after the candidate that flips    *)
(* the least significant bit of a byte: ck is that run's checksum, b the   *)
(* byte.  A change of checksum (or the last byte, still on the same path)  *)
(* closes the collected run and offers it to maybe_add_auto when its       *)
(* length is in [MIN_AUTO_EXTRA, MAX_AUTO_EXTRA]; a byte whose flip        *)
(* changes the path at all is appended, at most MAX_AUTO_EXTRA of them.    *)
(***************************************************************************)
\* Mutant: a_collect written without the MAX_AUTO_EXTRA bound.
CollectUncapped(c, n, b) == Append(c, b)

Collect(c, n, b) == IF n < MaxAutoExtra THEN Append(c, b) ELSE c

Commit(off, c, n) == IF n \in MinAutoExtra .. MaxAutoExtra THEN off \cup {c} ELSE off

\* Mutant: no special case for the last byte.
InduceNoEof(ck, b) ==
  LET change == ck # prevCksum
      col1 == IF change THEN <<>> ELSE aCollect
      len1 == IF change THEN 0 ELSE aLen
  IN /\ offered' = IF change THEN Commit(offered, aCollect, aLen) ELSE offered
     /\ prevCksum' = IF change THEN ck ELSE prevCksum
     /\ aCollect' = IF ck # Exec THEN Collect(col1, len1, b) ELSE col1
     /\ aLen' = IF ck # Exec THEN len1 + 1 ELSE len1

Induce(ck, b) ==
  LET eof == cur = 8 * L - 1 /\ ck = prevCksum
      change == ~eof /\ ck # prevCksum
      col1 == IF eof THEN Collect(aCollect, aLen, b)
              ELSE IF change THEN <<>> ELSE aCollect
      len1 == IF eof THEN aLen + 1 ELSE IF change THEN 0 ELSE aLen
  IN /\ offered' = IF eof THEN Commit(offered, col1, len1)
                   ELSE IF change THEN Commit(offered, aCollect, aLen)
                   ELSE offered
     /\ prevCksum' = IF change THEN ck ELSE prevCksum
     /\ aCollect' = IF ck # Exec THEN Collect(col1, len1, b) ELSE col1
     /\ aLen' = IF ck # Exec THEN len1 + 1 ELSE len1

\* bitflip 1/1 (1861-1968): flip bit stage_cur, run, flip it back.
Flip1Step ==
  /\ ~aborted /\ stage = "flip1" /\ cur < 8 * L
  /\ \/ Abandon
     \/ /\ IF cur % 8 = 7
             THEN Induce(Cksum(key, tokens, FlipBit(Input, cur)), Input[cur \div 8 + 1])
             ELSE UNCHANGED induction
        /\ cur' = cur + 1
        /\ wrote' = {cur \div 8}
        /\ UNCHANGED <<fixed, stage, aborted, mask, origMask, effMap, effCnt, insAt>>

\* Loop exit of bitflip 1/1 (1970-1982), falling into skip_simple_bitflip.
Flip1Done ==
  /\ ~aborted /\ stage = "flip1" /\ cur = 8 * L
  /\ stage' = "eff" /\ cur' = 0 /\ wrote' = {}
  /\ UNCHANGED <<fixed, aborted, mask, origMask, effMap, effCnt, induction, insAt>>

(***************************************************************************)
(* skip_simple_bitflip (1979-2016): a fresh effector map with the first    *)
(* and the last block flagged; eff_cnt, never reset, counts the last one.  *)
(***************************************************************************)
EffInit ==
  /\ ~aborted /\ stage = "eff"
  /\ effMap' = [b \in EffBlocks |-> IF b = 0 \/ b = EffApos(L - 1) THEN 1 ELSE 0]
  /\ effCnt' = IF EffApos(L - 1) # 0 THEN effCnt + 1 ELSE effCnt
  /\ stage' = "flip8" /\ cur' = 0
  /\ UNCHANGED <<fixed, aborted, mask, origMask, induction, wrote, insAt>>

(***************************************************************************)
(* bitflip 8/8 (2016-2070): flip byte stage_cur, run; in rare-branch mode  *)
(* with a mask the byte is OVERWRITE-safe if the branch is still hit; a    *)
(* block not yet in the effector map joins it if the checksum changed (or  *)
(* always, for inputs shorter than EFF_MIN_LEN).                           *)
(***************************************************************************)
Flip8Step ==
  /\ ~aborted /\ stage = "flip8" /\ cur < L
  /\ \/ Abandon
     \/ LET fb == FlipByte(Input, cur)
            blk == EffApos(cur)
            setEff == effMap[blk] = 0 /\ (L < EffMinLen \/ Cksum(key, tokens, fb) # Exec)
        IN /\ mask' = IF Calibrating /\ Hits(key, fb)
                      THEN [mask EXCEPT ![cur + 1] = OVERWRITE] ELSE mask
           /\ effMap' = IF setEff THEN [effMap EXCEPT ![blk] = 1] ELSE effMap
           /\ effCnt' = IF setEff THEN effCnt + 1 ELSE effCnt
           /\ cur' = cur + 1
           /\ wrote' = {cur}
           /\ UNCHANGED <<fixed, stage, aborted, origMask, induction, insAt>>

\* Where the stage goes after the mask passes (2172).
AfterCalib == IF rbSkipDet THEN "havoc" ELSE "flip2"

(***************************************************************************)
(* Loop exit of bitflip 8/8 (2072-2098): an effector map more than         *)
(* EFF_MAX_PERC dense, but not full, is set entirely; the mask passes run  *)
(* only when rare-branch fuzzing with a mask.                              *)
(***************************************************************************)
Flip8Done ==
  /\ ~aborted /\ stage = "flip8" /\ cur = L
  /\ effMap' = IF effCnt # EffAlen(L) /\ (effCnt * 100) \div EffAlen(L) > EffMaxPerc
               THEN [b \in EffBlocks |-> 1] ELSE effMap
  /\ stage' = IF Calibrating THEN "rbrem8" ELSE AfterCalib
  /\ cur' = 0 /\ wrote' = {}
  /\ UNCHANGED <<fixed, aborted, mask, origMask, effCnt, induction, insAt>>

\* rbrem8 (2105-2120): run the input without byte stage_cur.
RbRem8Step ==
  /\ ~aborted /\ stage = "rbrem8" /\ cur < L
  /\ \/ Abandon
     \/ /\ mask' = IF Hits(key, DelByte(Input, cur))
                   THEN [mask EXCEPT ![cur + 1] = @ + DELETE] ELSE mask
        /\ cur' = cur + 1
        /\ UNCHANGED <<fixed, stage, aborted, origMask, effMap, effCnt, induction,
                       wrote, insAt>>

RbRem8Done ==
  /\ ~aborted /\ stage = "rbrem8" /\ cur = L
  /\ stage' = "rbadd8" /\ cur' = 0
  /\ UNCHANGED <<fixed, aborted, mask, origMask, effMap, effCnt, induction, wrote, insAt>>

\* rbadd8 (2124-2140): run the input with a random byte before stage_cur,
\* for stage_cur = 0 .. len.
RbAdd8Step ==
  /\ ~aborted /\ stage = "rbadd8" /\ cur <= L
  /\ \/ Abandon
     \/ \E v \in RandBytes :
          /\ mask' = IF Hits(key, InsByte(Input, cur, v))
                     THEN [mask EXCEPT ![cur + 1] = @ + INSERT] ELSE mask
          /\ cur' = cur + 1
          /\ UNCHANGED <<fixed, stage, aborted, origMask, effMap, effCnt, induction,
                         wrote, insAt>>

\* Mutant: the rbadd8 loop ends before the append position (< len).
RbAdd8DoneEarly ==
  /\ ~aborted /\ stage = "rbadd8" /\ cur = L
  /\ origMask' = mask
  /\ stage' = AfterCalib /\ cur' = 0
  /\ UNCHANGED <<fixed, aborted, mask, effMap, effCnt, induction, wrote, insAt>>

\* Loop exit of rbadd8 (2142-2172): the mask is saved for the havoc stage.
RbAdd8Done ==
  /\ ~aborted /\ stage = "rbadd8" /\ cur = L + 1
  /\ origMask' = mask
  /\ stage' = AfterCalib /\ cur' = 0
  /\ UNCHANGED <<fixed, aborted, mask, effMap, effCnt, induction, wrote, insAt>>

\* bitflip 2/1 (2179-2206) and 4/1 (2211-2242): no effector or mask test.
Flip2Step ==
  /\ ~aborted /\ stage = "flip2" /\ cur < 8 * L - 1
  /\ \/ Abandon
     \/ /\ wrote' = {cur \div 8, (cur + 1) \div 8}
        /\ cur' = cur + 1
        /\ UNCHANGED <<fixed, stage, aborted, mask, origMask, effMap, effCnt, induction, insAt>>

Flip4Step ==
  /\ ~aborted /\ stage = "flip4" /\ cur < 8 * L - 3
  /\ \/ Abandon
     \/ /\ wrote' = {(cur + k) \div 8 : k \in 0 .. 3}
        /\ cur' = cur + 1
        /\ UNCHANGED <<fixed, stage, aborted, mask, origMask, effMap, effCnt, induction, insAt>>

(***************************************************************************)
(* One position i of a stage over w-byte windows: skipped when no byte of  *)
(* the window is in the effector map, or, when maskTest holds, when some   *)
(* byte of it is not OVERWRITE-safe; otherwise its candidates run.         *)
(***************************************************************************)
WindowStep(st, w, maskTest) ==
  /\ ~aborted /\ stage = st /\ cur <= L - w
  /\ IF EffAny(cur, w) /\ (maskTest => MaskAll(cur, w))
     THEN \/ Abandon
          \/ /\ wrote' = Window(cur, w)
             /\ cur' = cur + 1
             /\ UNCHANGED <<fixed, stage, aborted, mask, origMask, effMap, effCnt,
                            induction, insAt>>
     ELSE /\ wrote' = {}
          /\ cur' = cur + 1
          /\ UNCHANGED <<fixed, stage, aborted, mask, origMask, effMap, effCnt,
                         induction, insAt>>

\* bitflip 16/8 (2247-2294): the mask is consulted under !afl->rb_fuzzing.
Flip16Step == WindowStep("flip16", 2, ~RbFuzzing)

\* bitflip 32/8 (2296-2346).
Flip32Step == WindowStep("flip32", 4, RbFuzzing)

\* arith 8/8 (2358-2445), arith 16/8 (2449-2585), arith 32/8 (2586-2721).
Arith8Step == WindowStep("arith8", 1, RbFuzzing)
Arith16Step == WindowStep("arith16", 2, RbFuzzing)
Arith32Step == WindowStep("arith32", 4, RbFuzzing)

\* interest 8/8 (2729-2795), 16/8 (2797-2891), 32/8 (2893-2990).
Int8Step == WindowStep("int8", 1, RbFuzzing)
Int16Step == WindowStep("int16", 2, RbFuzzing)
Int32Step == WindowStep("int32", 4, RbFuzzing)

\* buf with the bytes of e written from position i on (memcpy(out_buf + i, ...)).
Put(buf, i, e) == [p \in 1 .. Len(buf) |-> IF p - 1 - i \in 0 .. Len(e) - 1
                                          THEN e[p - i] ELSE buf[p]]

(***************************************************************************)
(* The inner loop of a dictionary overwrite stage at position i: extras    *)
(* j .. n in order, each skipped when dropped at random, when it does not  *)
(* fit, when out_buf (already clobbered by the shorter extras) holds it,   *)
(* when its span has no effector block, or, in rare-branch mode, when a    *)
(* byte of its span is not OVERWRITE-safe.  The set of extras that ran.    *)
(***************************************************************************)
\* (A variant whose memcmp leaves out the last byte of the extra.)
RECURSIVE OverwriteRunShortCmp(_, _, _, _, _, _)
OverwriteRunShortCmp(ex, n, drop, i, j, buf) ==
  IF j > n THEN {}
  ELSE LET e == ex[j]
           skip == \/ j \in drop
                   \/ Len(e) > L - i
                   \/ SubSeq(buf, i + 1, i + Len(e) - 1) = SubSeq(e, 1, Len(e) - 1)
                   \/ ~EffAny(i, Len(e))
                   \/ RbFuzzing /\ ~MaskAll(i, Len(e))
       IN IF skip THEN OverwriteRunShortCmp(ex, n, drop, i, j + 1, buf)
          ELSE {j} \cup OverwriteRunShortCmp(ex, n, drop, i, j + 1, Put(buf, i, e))

RECURSIVE OverwriteRun(_, _, _, _, _, _)
OverwriteRun(ex, n, drop, i, j, buf) ==
  IF j > n THEN {}
  ELSE LET e == ex[j]
           skip == \/ j \in drop
                   \/ Len(e) > L - i
                   \/ SubSeq(buf, i + 1, i + Len(e)) = e
                   \/ ~EffAny(i, Len(e))
                   \/ RbFuzzing /\ ~MaskAll(i, Len(e))
       IN IF skip THEN OverwriteRun(ex, n, drop, i, j + 1, buf)
          ELSE {j} \cup OverwriteRun(ex, n, drop, i, j + 1, Put(buf, i, e))

\* One position of an overwrite stage; the clobbered bytes are restored
\* from in_buf over the length of the last extra that ran, the longest.
OverwriteStep(st, ex, n, drops) ==
  /\ ~aborted /\ stage = st /\ cur < L
  /\ \E drop \in drops :
       LET ran == OverwriteRun(ex, n, drop, cur, 1, Input)
       IN IF ran = {}
          THEN /\ wrote' = {}
               /\ cur' = cur + 1
               /\ UNCHANGED <<fixed, stage, aborted, mask, origMask, effMap, effCnt,
                              induction, insAt>>
          ELSE \/ Abandon
               \/ /\ wrote' = UNION {Window(cur, Len(ex[j])) : j \in ran}
                  /\ cur' = cur + 1
                  /\ UNCHANGED <<fixed, stage, aborted, mask, origMask, effMap, effCnt,
                                 induction, insAt>>

\* user extras (UO) (2997-3075): with more extras than max_det_extras,
\* each is skipped when rand_below(extras_cnt) >= max_det_extras.
UserOverwriteStep ==
  OverwriteStep("extras_uo", UserExtras, Len(UserExtras),
                IF Len(UserExtras) > MaxDetExtras THEN SUBSET (1 .. Len(UserExtras))
                ELSE {{}})

\* auto extras (AO) (3144-3210): the first MIN(a_extras_cnt, USE_AUTO_EXTRAS).
AutoOverwriteStep ==
  OverwriteStep("extras_ao", AExtras,
                IF Len(AExtras) < UseAutoExtras THEN Len(AExtras) ELSE UseAutoExtras,
                {{}})

\* user extras (UI) (3079-3140): insert each extra before position i, for
\* i = 0 .. len, unless the file grows past MAX_FILE or branch_mask[i] lacks
\* INSERT (tested in every mode).
UserInsertStep ==
  /\ ~aborted /\ stage = "extras_ui" /\ cur <= L
  /\ LET ran == {j \in 1 .. Len(UserExtras) :
                   L + Len(UserExtras[j]) <= MaxFile /\ HasFlag(mask[cur + 1], INSERT)}
     IN IF ran = {}
        THEN /\ insAt' = {}
             /\ cur' = cur + 1
             /\ UNCHANGED <<fixed, stage, aborted, mask, origMask, effMap, effCnt,
                            induction, wrote>>
        ELSE \/ Abandon
             \/ /\ insAt' = {cur}
                /\ cur' = cur + 1
                /\ UNCHANGED <<fixed, stage, aborted, mask, origMask, effMap, effCnt,
                               induction, wrote>>

(***************************************************************************)
(* The order of the stages after bitflip 4/1 and the length and option     *)
(* tests that skip them (goto skip_bitflip, skip_arith, skip_interest,     *)
(* skip_user_extras, skip_extras); "havoc" is custom_mutator_stage.        *)
(***************************************************************************)
EnterAutoExtras == IF Len(AExtras) = 0 THEN "havoc" ELSE "extras_ao"
EnterUserExtras == IF Len(UserExtras) = 0 THEN EnterAutoExtras ELSE "extras_uo"
EnterArith == IF NoArith THEN "int8" ELSE "arith8"

After(st) ==
  CASE st = "flip2"     -> "flip4"
    [] st = "flip4"     -> IF L < 2 THEN EnterArith ELSE "flip16"
    [] st = "flip16"    -> IF L < 4 THEN EnterArith ELSE "flip32"
    [] st = "flip32"    -> EnterArith
    [] st = "arith8"    -> IF L < 2 THEN "int8" ELSE "arith16"
    [] st = "arith16"   -> IF L < 4 THEN "int8" ELSE "arith32"
    [] st = "arith32"   -> "int8"
    [] st = "int8"      -> IF NoArith \/ L < 2 THEN EnterUserExtras ELSE "int16"
    [] st = "int16"     -> IF L < 4 THEN EnterUserExtras ELSE "int32"
    [] st = "int32"     -> EnterUserExtras
    [] st = "extras_uo" -> "extras_ui"
    [] st = "extras_ui" -> EnterAutoExtras
    [] st = "extras_ao" -> "havoc"

\* The number of iterations of each stage's outer loop.
Bound(st) ==
  CASE st = "flip2" -> 8 * L - 1
    [] st = "flip4" -> 8 * L - 3
    [] st \in {"flip16", "arith16", "int16"} -> L - 1
    [] st \in {"flip32", "arith32", "int32"} -> L - 3
    [] st = "extras_ui" -> L + 1
    [] OTHER -> L

LoopStages == {"flip2", "flip4", "flip16", "flip32", "arith8", "arith16", "arith32",
               "int8", "int16", "int32", "extras_uo", "extras_ui", "extras_ao"}

\* The loop exit of one of those stages and the entry of the next.
StageDone ==
  /\ ~aborted /\ stage \in LoopStages /\ cur = Bound(stage)
  /\ stage' = After(stage) /\ cur' = 0 /\ wrote' = {} /\ insAt' = {}
  /\ UNCHANGED <<fixed, aborted, mask, origMask, effMap, effCnt, induction>>

Next ==
  \/ Flip1Step \/ Flip1Done \/ EffInit \/ Flip8Step \/ Flip8Done
  \/ RbRem8Step \/ RbRem8Done \/ RbAdd8Step \/ RbAdd8Done
  \/ Flip2Step \/ Flip4Step \/ Flip16Step \/ Flip32Step
  \/ Arith8Step \/ Arith16Step \/ Arith32Step \/ Int8Step \/ Int16Step \/ Int32Step
  \/ UserOverwriteStep \/ UserInsertStep \/ AutoOverwriteStep
  \/ StageDone

Spec == Init /\ [][Next]_vars


-----------------------------------------------------------------------------
Stages == {"flip1", "eff", "flip8", "rbrem8", "rbadd8", "havoc"} \cup LoopStages

TypeOK ==
  /\ mode \in Modes /\ key \in Keys /\ tokens \in TokenSets
  /\ skipSimple \in BOOLEAN /\ rbSkipDet \in BOOLEAN /\ aborted \in BOOLEAN
  /\ stage \in Stages /\ cur \in 0 .. 8 * L
  /\ mask \in [1 .. L + 1 -> Flags] /\ origMask \in [1 .. L + 1 -> Flags]
  /\ effMap \in [EffBlocks -> {0, 1}] /\ effCnt \in 1 .. EffAlen(L)
  /\ aLen \in 0 .. L + 1 /\ Len(aCollect) = IF aLen < MaxAutoExtra THEN aLen ELSE MaxAutoExtra
  /\ wrote \subseteq 0 .. L - 1 /\ insAt \subseteq 0 .. L

(***************************************************************************)
(* The mask calibration (flip8's hits, rbrem8, rbadd8 and the copy into    *)
(* orig_branch_mask) implements MaskCalibration: orig_branch_mask is the   *)
(* allocated mask, or goes once from zeroes to the mask whose bits say     *)
(* exactly which flip, delete and insert candidates still hit the branch.  *)
(***************************************************************************)
CalibDone == Calibrating /\ stage \notin {"flip1", "eff", "flip8", "rbrem8", "rbadd8"}

Abs == INSTANCE MaskCalibration WITH mask <- origMask, calibrated <- CalibDone

Calibration == Abs!AbsSpec

(***************************************************************************)
(* The reference for auto-extra induction (spec 4.G): lsb(p) is the        *)
(* checksum of the run that flips the least significant bit of byte p.  A  *)
(* token is a maximal run of bytes with the same lsb checksum, different   *)
(* from the entry's own, whose length is in [MIN_AUTO_EXTRA,               *)
(* MAX_AUTO_EXTRA].                                                        *)
(***************************************************************************)
LsbCksum(p) == Cksum(key, tokens, FlipBit(Input, 8 * p + 7))

IsTokenRun(s, e) ==
  /\ \A q \in s .. e : LsbCksum(q) = LsbCksum(s)
  /\ LsbCksum(s) # Exec
  /\ s = 0 \/ LsbCksum(s - 1) # LsbCksum(s)
  /\ e = L - 1 \/ LsbCksum(e + 1) # LsbCksum(s)
  /\ e - s + 1 \in MinAutoExtra .. MaxAutoExtra

RefTokens ==
  {SubSeq(Input, r[1] + 1, r[2] + 1) :
     r \in {r \in (0 .. L - 1) \X (0 .. L - 1) : r[1] <= r[2] /\ IsTokenRun(r[1], r[2])}}

(***************************************************************************)
(* The walking bit flip offers maybe_add_auto only tokens, and once it has *)
(* run to its end it has offered every token: the prev_cksum / a_len       *)
(* bookkeeping, the EOF case and the MAX_AUTO_EXTRA cut-off agree with the *)
(* reference over every key and token layout.                              *)
(***************************************************************************)
AutoExtrasAreTokens ==
  /\ offered \subseteq RefTokens
  /\ (~skipSimple /\ stage # "flip1") => offered = RefTokens

(***************************************************************************)
(* Spec 4.G: in rare-branch mode the 16- and 32-bit flips and the          *)
(* arithmetic stages skip any window with a byte that is not               *)
(* OVERWRITE-safe, so no candidate of theirs overwrites such a byte of the *)
(* calibrated mask.                                                        *)
(***************************************************************************)
MaskGatedStages == {"flip16", "flip32", "arith8", "arith16", "arith32"}

GatedWritesRespectMask ==
  (Calibrating /\ stage \in MaskGatedStages) =>
    \A p \in wrote : HasFlag(mask[p + 1], OVERWRITE)

(***************************************************************************)
(* The overwrite stages never restore out_buf between the extras of one    *)
(* position and test redundancy with memcmp against the clobbered buffer   *)
(* (3018-3031), relying on the extras being sorted by length.  At every    *)
(* position, each distinct buffer that an extra passing the other filters  *)
(* would produce, other than the input itself, is executed: the skip on    *)
(* the clobbered buffer only ever drops a buffer that already ran.         *)
(***************************************************************************)
\* The extras an overwrite stage walks, and how many of them.
OverwriteExtras(st) == IF st = "extras_uo" THEN UserExtras ELSE AExtras
OverwriteCount(st) ==
  IF st = "extras_uo" THEN Len(UserExtras)
  ELSE IF Len(AExtras) < UseAutoExtras THEN Len(AExtras) ELSE UseAutoExtras

OverwriteExecutesDistinct ==
  (~aborted /\ stage \in {"extras_uo", "extras_ao"} /\ cur < L) =>
    LET ex == OverwriteExtras(stage)
        n == OverwriteCount(stage)
        Result(j) == Put(Input, cur, ex[j])
        Eligible(drop) == {j \in 1 .. n \ drop :
                             /\ Len(ex[j]) <= L - cur
                             /\ EffAny(cur, Len(ex[j]))
                             /\ RbFuzzing => MaskAll(cur, Len(ex[j]))}
    IN \A drop \in SUBSET (1 .. n) :
         {Result(j) : j \in Eligible(drop)} \ {Input}
           \subseteq {Result(j) : j \in OverwriteRun(ex, n, drop, cur, 1, Input)}

=============================================================================
