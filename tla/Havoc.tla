------------------------------- MODULE Havoc --------------------------------
(***************************************************************************)
(* The havoc stage of fuzz_one_original (afl-fuzz-one.c 3388-4937) and the *)
(* splice stage that re-enters it (4958-5033), as they move out_buf,       *)
(* branch_mask, orig_branch_mask, position_map and the fine-grained        *)
(* restore slots mutation_pos / mutation_data32 together.                  *)
(*                                                                         *)
(* A byte of a buffer is a record: org is the index of the in_buf byte it  *)
(* stands at (FRESH for a byte a mutation inserted; EOB names the end of  *)
(* the buffer), val is its content: the original content of in_buf byte   *)
(* val.src with the bits in val.fl         *)
(* flipped, or, with src = WR, a value some mutation wrote.  Inserted      *)
(* bytes are all given the written value: they are dropped by every       *)
(* restore and no property reads them.                                     *)
(***************************************************************************)
EXTENDS BranchMask

CONSTANTS
  L,               \* queue_cur->len, the length of the entry being fuzzed
  TargetLens,      \* lengths of the other queue entries (splice partners)
  ExtraLens,       \* lengths of the dictionary extras ({} when none loaded)
  Stackings,       \* the use_stacking values the batch bandit can pick
  Ops,             \* the havoc operator families the operator bandit has
  StageMax0,       \* stage_max as computed at havoc entry
  SpliceStageMax,  \* stage_max as computed at splice entry
  OrigPerf,        \* perf_score from calculate_score
  HavocMaxMult,    \* afl->havoc_max_mult
  SpliceCycles,    \* SPLICE_CYCLES
  UseSplicing,     \* afl->use_splicing
  ReadyForSplicing,\* afl->ready_for_splicing_count
  MinLenOpt,       \* MIN_LEN_FOR_OPTIMIZED_RESTORE
  MaxFile,         \* MAX_FILE, scaled down
  BlkXL,           \* HAVOC_BLK_XL, scaled down
  RbMode,          \* the mask was calibrated (rare-branch, not shadow)
  FRESH, WR, EOB, JUNK, UB   \* model values

AllOps == {"FlipBit", "Byte1", "Rand8", "Word2", "Word4", "Clone",
           "InsertSame", "OverwriteChunk", "OverwriteSame", "Delete",
           "ExtraOver", "ExtraInsert", "SpliceOver", "SpliceInsert"}

ASSUME
  /\ L \in Nat \ {0}
  /\ TargetLens \subseteq 4 .. 32 /\ ExtraLens \subseteq 1 .. 32
  /\ Stackings \subseteq 1 .. 64 /\ Stackings # {}
  /\ Ops \subseteq AllOps
  /\ {StageMax0, SpliceStageMax, OrigPerf, HavocMaxMult, SpliceCycles,
      ReadyForSplicing, MinLenOpt, MaxFile, BlkXL} \subseteq Nat
  /\ BlkXL <= 32 /\ UseSplicing \in BOOLEAN /\ RbMode \in BOOLEAN

MaxStack == CHOOSE s \in Stackings : \A t \in Stackings : t <= s

VARIABLES
  buf,         \* out_buf[0 .. temp_len - 1]; temp_len is Len(buf)
  mask,        \* the branch_mask allocation
  origMask,    \* orig_branch_mask
  len,         \* len, the length of in_buf
  stageCur,    \* afl->stage_cur
  stageMax,    \* afl->stage_max
  perfScore,   \* perf_score
  spliceCycle, \* splice_cycle
  op,          \* the operator picked for this iteration
  stacking,    \* use_stacking
  step,        \* i, the stacked step under way
  mutSize,     \* mutation_size
  mutPos,      \* mutation_pos[]
  mutData,     \* the bytes of mutation_data32[] (data8/16/32 alias them)
  touched,     \* what the last step wrote, deleted or inserted before
  brokeEarly,  \* some stacked loop has left by a break
  phase

vars == <<buf, mask, origMask, len, stageCur, stageMax, perfScore, spliceCycle,
          op, stacking, step, mutSize, mutPos, mutData, touched, brokeEarly,
          phase>>

TempLen == Len(buf)

Written == [src |-> WR, fl |-> {}]

\* Byte p of in_buf.  After a splice in_buf is a new buffer, and its bytes
\* are numbered afresh.
InBuf(n) == [p \in 1 .. n |-> [org |-> p - 1, val |-> [src |-> p - 1, fl |-> {}]]]

\* choose_block_len(limit) for limit <= HAVOC_BLK_SMALL and the scaled XL.
ChooseBlockLen(limit) == 1 .. IF limit < BlkXL THEN limit ELSE BlkXL

MutSizeOf(o) ==
  CASE o = "FlipBit"              -> "BIT1"
    [] o \in {"Byte1", "Rand8"}   -> "BYTE1"
    [] o = "Word2"                -> "BYTE2"
    [] o = "Word4"                -> "BYTE4"
    [] OTHER                      -> "OTHER"

Width(s) == CASE s = "BYTE1" -> 1 [] s = "BYTE2" -> 2 [] OTHER -> 4

\* The operator bandit's mask (3506-3526): the operators it may return.
LegalOps ==
  { o \in Ops :
      /\ o \in {"ExtraOver", "ExtraInsert"} => ExtraLens # {}
      /\ o \in {"SpliceOver", "SpliceInsert"} => ReadyForSplicing > 1
      /\ o = "SpliceInsert" => len + BlkXL < MaxFile
      /\ o = "SpliceOver" => len >= 2 }

\* Bytes [from, from + Len(vs)) of b get the contents vs.
SetVals(b, from, vs) ==
  [p \in 1 .. Len(b) |->
     IF p - 1 >= from /\ p - 1 < from + Len(vs)
     THEN [b[p] EXCEPT !.val = vs[p - from]] ELSE b[p]]

FlipBit(b, bit) ==
  [b EXCEPT ![bit \div 8 + 1].val.fl =
              (@ \ {bit % 8}) \cup ({bit % 8} \ @)]

\* The in_buf byte (or the end) a write, delete or insert lands on.
Touch(from, n, kind) == { <<buf[p + 1].org, kind>> : p \in from .. from + n - 1 }

OrgAt(p) == IF p = TempLen THEN EOB ELSE buf[p + 1].org

(***************************************************************************)
(* One iteration of the havoc loop: the bandits pick the operator and      *)
(* use_stacking (3504-3775); mutation_size is set by the case entered.     *)
(***************************************************************************)
Pick ==
  /\ phase = "pick"
  /\ stageCur < stageMax
  /\ \E o \in LegalOps, s \in Stackings :
       /\ op' = o
       /\ stacking' = s
       /\ mutSize' = MutSizeOf(o)
  /\ step' = 0
  /\ touched' = {}
  /\ phase' = "mutate"
  /\ UNCHANGED <<buf, mask, origMask, len, stageCur, stageMax, perfScore,
                 spliceCycle, mutPos, mutData, brokeEarly>>

\* The loop's end condition fails: on to splicing.
HavocEnd ==
  /\ phase = "pick"
  /\ stageCur >= stageMax
  /\ phase' = "splice"
  /\ UNCHANGED <<buf, mask, origMask, len, stageCur, stageMax, perfScore,
                 spliceCycle, op, stacking, step, mutSize, mutPos, mutData,
                 touched, brokeEarly>>

(***************************************************************************)
(* How a stacked step ends: the next step, the end of the batch, a break   *)
(* out of the for loop, or the process dying in the position scan.         *)
(***************************************************************************)
Advance ==
  /\ step' = step + 1
  /\ phase' = IF step + 1 = stacking THEN "exec" ELSE "mutate"
  /\ UNCHANGED brokeEarly

Break ==
  /\ phase' = "exec"
  /\ brokeEarly' = TRUE
  /\ touched' = {}
  /\ UNCHANGED <<buf, mask, mutPos, mutData, step>>

Crash ==
  /\ phase' = "crashed"
  /\ touched' = {}
  /\ UNCHANGED <<buf, mask, mutPos, mutData, step, brokeEarly>>

(***************************************************************************)
(* A call of get_random_modifiable_posn followed by the caller's           *)
(* "if (pos == 0xffffffff) break;" and the use Act(pos) of the position.   *)
(***************************************************************************)
WithPosn(num, type, Act(_)) ==
  IF PosnMapOverflows(num, type, TempLen, mask) THEN Crash
  ELSE \E pos \in ModifiablePosns(num, type, TempLen, mask) :
         IF pos = NoPosn THEN Break ELSE Act(pos)

\* mutation_pos[i] = pos and the w-byte save into mutation_data8/16/32[i].
SaveFine(pos, w) ==
  /\ mutPos' = [mutPos EXCEPT ![step] = pos]
  /\ mutData' = [j \in DOMAIN mutData |->
                   IF j >= w * step /\ j < w * step + w
                   THEN buf[pos + j - w * step + 1].val ELSE mutData[j]]

\* FLIP_BIT1 (3811-3822): the position is a bit index, FLIP_BIT writes byte
\* pos >> 3.
StepFlipBit ==
  WithPosn(1, OVERWRITE, LAMBDA pos :
    /\ buf' = FlipBit(buf, pos)
    /\ mutPos' = [mutPos EXCEPT ![step] = pos]
    /\ touched' = {<<buf[pos \div 8 + 1].org, "bit">>}
    /\ UNCHANGED <<mask, mutData>>
    /\ Advance)

(***************************************************************************)
(* The fixed-width overwrites: INTERESTING8/16/32 (both endians), ARITH8,  *)
(* ARITH16/32 (both endians, both signs) and RAND8 (3833-4293).  They ask  *)
(* for a window of num / 8 bytes, save the w bytes they change and write   *)
(* them.  The 2- and 4-byte cases break before their loop when temp_len   *)
(* is shorter than the word.                                               *)
(***************************************************************************)
StepWord(num, w) ==
  IF TempLen < w THEN Break
  ELSE WithPosn(num, OVERWRITE, LAMBDA pos :
         /\ SaveFine(pos, w)
         /\ buf' = SetVals(buf, pos, [k \in 1 .. w |-> Written])
         /\ touched' = Touch(pos, w, "overwrite")
         /\ UNCHANGED mask
         /\ Advance)

(***************************************************************************)
(* The insertions (CLONE_BYTES, INSERT_SAME_BYTE, the two extras inserts   *)
(* and SPLICE_INSERT): get_random_insert_posn, a new mask of               *)
(* temp_len + n + 1 bytes from alloc_branch_mask, the head copied, the     *)
(* inserted part left at 7, the tail including the sentinel copied from    *)
(* branch_mask + to, temp_len += n.                                        *)
(***************************************************************************)
InsertMask(to, n) ==
  SubSeq(mask, 1, to) \o [k \in 1 .. n |-> 7] \o SubSeq(mask, to + 1, TempLen + 1)

DoInsert(n) ==
  \E to \in InsertPosns(TempLen, mask) :
    /\ buf' = SubSeq(buf, 1, to)
                \o [k \in 1 .. n |-> [org |-> FRESH, val |-> Written]]
                \o SubSeq(buf, to + 1, TempLen)
    /\ mask' = InsertMask(to, n)
    /\ touched' = {<<OrgAt(to), "insert">>}
    /\ UNCHANGED <<mutPos, mutData>>
    /\ Advance

\* Miscoding of CLONE_BYTES without its "temp_len + HAVOC_BLK_XL < MAX_FILE"
\* check.
StepCloneNoLimit == \E n \in ChooseBlockLen(TempLen) : DoInsert(n)

\* CLONE_BYTES (4287-4332) and INSERT_SAME_BYTE (4345-4391).
StepClone ==
  IF TempLen + BlkXL < MaxFile
  THEN \E n \in ChooseBlockLen(TempLen) : DoInsert(n)
  ELSE Break

StepInsertSame ==
  IF TempLen + BlkXL < MaxFile
  THEN \E n \in ChooseBlockLen(BlkXL) : DoInsert(n)
  ELSE Break

(***************************************************************************)
(* The block overwrites: OVERWRITE_WITH_CHUNK memmoves copy_len bytes from *)
(* copy_from (nothing when copy_from = copy_to), OVERWRITE_WITH_SAME_BYTE  *)
(* memsets them to a random byte or to a copy of a random byte of out_buf. *)
(* Both break before their loop when temp_len < 2.                         *)
(***************************************************************************)
StepOverwriteChunk ==
  IF TempLen < 2 THEN Break
  ELSE \E n \in ChooseBlockLen(TempLen - 1), from \in 0 .. TempLen - 1 :
         /\ from <= TempLen - n
         /\ WithPosn(n * 8, OVERWRITE, LAMBDA to :
              /\ buf' = IF from = to THEN buf
                        ELSE SetVals(buf, to, [k \in 1 .. n |-> buf[from + k].val])
              /\ touched' = IF from = to THEN {} ELSE Touch(to, n, "overwrite")
              /\ UNCHANGED <<mask, mutPos, mutData>>
              /\ Advance)

StepOverwriteSame ==
  IF TempLen < 2 THEN Break
  ELSE \E n \in ChooseBlockLen(TempLen - 1),
          v \in {Written} \cup {buf[k].val : k \in 1 .. TempLen} :
         WithPosn(n * 8, OVERWRITE, LAMBDA to :
           /\ buf' = SetVals(buf, to, [k \in 1 .. n |-> v])
           /\ touched' = Touch(to, n, "overwrite")
           /\ UNCHANGED <<mask, mutPos, mutData>>
           /\ Advance)

(***************************************************************************)
(* DELETE_BYTES (4473-4511): out_buf and branch_mask are memmoved left by  *)
(* del_len; the mask's move includes the sentinel and the allocation is    *)
(* not shrunk, so its last del_len bytes keep their old values.            *)
(***************************************************************************)
\* Miscodings of the mask's memmove: without the "+ 1" that carries the
\* sentinel along, and with the allocation shrunk to the new length.
DeleteMaskNoSentinel(from, n) ==
  SubSeq(mask, 1, from) \o SubSeq(mask, from + n + 1, TempLen)
    \o SubSeq(mask, TempLen - n + 1, Len(mask))

DeleteMaskShrunk(from, n) ==
  SubSeq(mask, 1, from) \o SubSeq(mask, from + n + 1, TempLen + 1)

DeleteMask(from, n) ==
  SubSeq(mask, 1, from) \o SubSeq(mask, from + n + 1, TempLen + 1)
    \o SubSeq(mask, TempLen - n + 2, Len(mask))

StepDelete ==
  IF TempLen < 2 THEN Break
  ELSE \E n \in ChooseBlockLen(TempLen - 1) :
         WithPosn(n * 8, DELETE, LAMBDA from :
           /\ buf' = SubSeq(buf, 1, from) \o SubSeq(buf, from + n + 1, TempLen)
           /\ mask' = DeleteMask(from, n)
           /\ touched' = Touch(from, n, "delete")
           /\ UNCHANGED <<mutPos, mutData>>
           /\ Advance)

\* OVERWRITE_WITH_EXTRA / _AEXTRA and INSERT_EXTRA / _AEXTRA (4516-4663).
StepExtraOver ==
  \E n \in ExtraLens :
    IF n > TempLen THEN Break
    ELSE WithPosn(n * 8, OVERWRITE, LAMBDA to :
           /\ buf' = SetVals(buf, to, [k \in 1 .. n |-> Written])
           /\ touched' = Touch(to, n, "overwrite")
           /\ UNCHANGED <<mask, mutPos, mutData>>
           /\ Advance)

StepExtraInsert ==
  \E n \in ExtraLens :
    IF TempLen + n >= MaxFile THEN Break ELSE DoInsert(n)

(***************************************************************************)
(* SPLICE_OVERWRITE / SPLICE_INSERT (4666-4780): a chunk of another entry  *)
(* of new_len >= 4 bytes.  Overwrite mode when temp_len >= 2 and r is odd  *)
(* (the SPLICE_OVERWRITE arm) or when an insert would pass MAX_FILE; the   *)
(* overwrite length is capped at temp_len.                                 *)
(***************************************************************************)
\* Miscoding that always inserts when r is even, even at MAX_FILE.
StepSpliceNoLimit ==
  \E newLen \in TargetLens :
    IF TempLen >= 2 /\ op = "SpliceOver"
    THEN \E c \in ChooseBlockLen(newLen - 1) :
           LET n == IF c > TempLen THEN TempLen ELSE c IN
           WithPosn(n * 8, OVERWRITE, LAMBDA to :
             /\ buf' = SetVals(buf, to, [k \in 1 .. n |-> Written])
             /\ touched' = Touch(to, n, "overwrite")
             /\ UNCHANGED <<mask, mutPos, mutData>>
             /\ Advance)
    ELSE \E n \in ChooseBlockLen(newLen) : DoInsert(n)

StepSplice ==
  \E newLen \in TargetLens :
    IF (TempLen >= 2 /\ op = "SpliceOver") \/ TempLen + BlkXL >= MaxFile
    THEN \E c \in ChooseBlockLen(newLen - 1) :
           LET n == IF c > TempLen THEN TempLen ELSE c IN
           WithPosn(n * 8, OVERWRITE, LAMBDA to :
             /\ buf' = SetVals(buf, to, [k \in 1 .. n |-> Written])
             /\ touched' = Touch(to, n, "overwrite")
             /\ UNCHANGED <<mask, mutPos, mutData>>
             /\ Advance)
    ELSE \E n \in ChooseBlockLen(newLen) : DoInsert(n)

\* One stacked step of the operator picked for this iteration.
Mutate ==
  /\ phase = "mutate"
  /\ \/ op = "FlipBit"        /\ StepFlipBit
     \/ op = "Byte1"          /\ StepWord(8, 1)
     \/ op = "Rand8"          /\ StepWord(32, 1)
     \/ op = "Word2"          /\ StepWord(16, 2)
     \/ op = "Word4"          /\ StepWord(32, 4)
     \/ op = "Clone"          /\ StepClone
     \/ op = "InsertSame"     /\ StepInsertSame
     \/ op = "OverwriteChunk" /\ StepOverwriteChunk
     \/ op = "OverwriteSame"  /\ StepOverwriteSame
     \/ op = "Delete"         /\ StepDelete
     \/ op = "ExtraOver"      /\ StepExtraOver
     \/ op = "ExtraInsert"    /\ StepExtraInsert
     \/ op \in {"SpliceOver", "SpliceInsert"} /\ StepSplice
  /\ UNCHANGED <<origMask, len, stageCur, stageMax, perfScore, spliceCycle,
                 op, stacking, mutSize>>

(***************************************************************************)
(* The optimized restore of the fine-grained cases (4815-4871): for j =    *)
(* use_stacking - 1 down to 0, FLIP_BIT(mutation_pos[j]) again or write    *)
(* mutation_data8/16/32[j] back at mutation_pos[j].  Every slot below      *)
(* use_stacking is replayed, also the ones this iteration did not fill     *)
(* because its loop broke: those hold what an earlier iteration left, or   *)
(* were never written (JUNK).  A junk or out-of-range position is a wild   *)
(* write (UB); junk data is some byte.                                     *)
(***************************************************************************)
ReplayOne(b, j) ==
  IF mutSize = "BIT1"
  THEN IF mutPos[j] = JUNK \/ mutPos[j] \div 8 >= Len(b) THEN UB
       ELSE FlipBit(b, mutPos[j])
  ELSE LET w == Width(mutSize) IN
       IF mutPos[j] = JUNK \/ mutPos[j] + w > Len(b) THEN UB
       ELSE SetVals(b, mutPos[j],
                    [k \in 1 .. w |-> IF mutData[w * j + k - 1] = JUNK THEN Written
                                      ELSE mutData[w * j + k - 1]])

\* Replaying the slots in the order they were filled.
RECURSIVE ReplayForward(_, _)
ReplayForward(b, j) ==
  IF j < 0 \/ b = UB THEN b
  ELSE ReplayForward(ReplayOne(b, stacking - 1 - j), j - 1)

RECURSIVE Replay(_, _)
Replay(b, j) ==
  IF j < 0 \/ b = UB THEN b ELSE Replay(ReplayOne(b, j), j - 1)

\* What the optimized path leaves in out_buf; the default case memcpys
\* in_buf back and sets temp_len = len, and branch_mask is left alone.
FineRestore ==
  CASE mutSize = "OTHER"                   -> InBuf(len)
    [] mutSize = "BYTE2" /\ TempLen < 2    -> buf
    [] mutSize = "BYTE4" /\ TempLen < 4    -> buf
    [] OTHER                               -> Replay(buf, stacking - 1)

\* The reward step (4895-4920): a new queue entry doubles stage_max and
\* perf_score while perf_score <= havoc_max_mult * 100.
Reward(found) ==
  IF found /\ perfScore <= HavocMaxMult * 100
  THEN /\ stageMax' = stageMax * 2
       /\ perfScore' = perfScore * 2
  ELSE UNCHANGED <<stageMax, perfScore>>

\* common_fuzz_stuff returns without abandoning; restore; reward; next.
Restore(newBuf, newMask) ==
  /\ buf' = newBuf
  /\ mask' = newMask
  /\ \E found \in BOOLEAN : Reward(found)
  /\ stageCur' = stageCur + 1
  /\ touched' = {}
  /\ phase' = "pick"
  /\ UNCHANGED <<origMask, len, spliceCycle, op, stacking, step, mutSize,
                 mutPos, mutData, brokeEarly>>

\* common_fuzz_stuff asks to abandon the entry: goto abandon_entry.
Abandon ==
  /\ phase = "exec"
  /\ phase' = "done"
  /\ touched' = {}
  /\ UNCHANGED <<buf, mask, origMask, len, stageCur, stageMax, perfScore,
                 spliceCycle, op, stacking, step, mutSize, mutPos, mutData,
                 brokeEarly>>

\* len < MIN_LEN_FOR_OPTIMIZED_RESTORE (4880-4893): out_buf and branch_mask
\* are copied back from in_buf and orig_branch_mask.
\* Miscoding of the full restore: branch_mask reallocated and copied with
\* len bytes.
RestoreFullShortMask ==
  /\ phase = "exec"
  /\ len < MinLenOpt
  /\ Restore(InBuf(len), SubSeq(origMask, 1, len))

RestoreFull ==
  /\ phase = "exec"
  /\ len < MinLenOpt
  /\ Restore(InBuf(len), origMask)

RestoreOptimized ==
  /\ phase = "exec"
  /\ len >= MinLenOpt
  /\ FineRestore # UB
  /\ Restore(FineRestore, mask)

RestoreWild ==
  /\ phase = "exec"
  /\ len >= MinLenOpt
  /\ FineRestore = UB
  /\ phase' = "ub"
  /\ touched' = {}
  /\ UNCHANGED <<buf, mask, origMask, len, stageCur, stageMax, perfScore,
                 spliceCycle, op, stacking, step, mutSize, mutPos, mutData,
                 brokeEarly>>

(***************************************************************************)
(* retry_splicing (4958-5033).  The condition increments splice_cycle;     *)
(* in_buf goes back to the entry's own bytes; locate_diffs over the common *)
(* prefix gives the first and last differing offsets f and l (-1 when the *)
(* prefixes are equal), which depend on contents: any pair can come out.   *)
(***************************************************************************)
SpliceCond ==
  UseSplicing /\ spliceCycle < SpliceCycles /\ ReadyForSplicing > 1 /\ L >= 4

Diffs(m) == {<<-1, -1>>} \cup { d \in (0 .. m - 1) \X (0 .. m - 1) : d[1] <= d[2] }

UsableDiff(d) == d[1] >= 0 /\ d[2] >= 2 /\ d[1] # d[2]

CommonLen(t) == IF L < t THEN L ELSE t

\* The difference is too narrow: goto retry_splicing.
SpliceRetry ==
  /\ phase = "splice"
  /\ SpliceCond
  /\ \E t \in TargetLens : \E d \in Diffs(CommonLen(t)) : ~UsableDiff(d)
  /\ spliceCycle' = spliceCycle + 1
  /\ len' = L
  /\ UNCHANGED <<buf, mask, origMask, stageCur, stageMax, perfScore, op,
                 stacking, step, mutSize, mutPos, mutData, touched,
                 brokeEarly, phase>>

(***************************************************************************)
(* The splice: in_buf becomes the first split_at bytes of the entry and    *)
(* the rest of the target, out_buf a copy of it; the new branch_mask is    *)
(* alloc_branch_mask(len + 1) with its first MIN(split_at, temp_len + 1)   *)
(* bytes copied from the current branch_mask, orig_branch_mask a copy of   *)
(* it; then havoc again (custom_mutator_stage jumps straight to it).       *)
(***************************************************************************)
\* Miscoding that allocates the spliced mask with len bytes.
SpliceMaskNoSentinel(t, split) ==
  [p \in 1 .. t |->
     IF p <= split /\ p <= TempLen + 1 THEN mask[p] ELSE AllocBranchMask(t)[p]]

SpliceMask(t, split) ==
  [p \in 1 .. t + 1 |->
     IF p <= split /\ p <= TempLen + 1 THEN mask[p] ELSE AllocBranchMask(t + 1)[p]]

SpliceStart ==
  /\ phase = "splice"
  /\ SpliceCond
  /\ \E t \in TargetLens : \E d \in Diffs(CommonLen(t)) :
       /\ UsableDiff(d)
       /\ \E split \in d[1] .. d[2] - 1 :
            /\ len' = t
            /\ buf' = InBuf(t)
            /\ mask' = SpliceMask(t, split)
            /\ origMask' = SpliceMask(t, split)
  /\ spliceCycle' = spliceCycle + 1
  /\ stageCur' = 0
  /\ stageMax' = SpliceStageMax
  /\ perfScore' = OrigPerf
  /\ phase' = "pick"
  /\ UNCHANGED <<op, stacking, step, mutSize, mutPos, mutData, touched,
                 brokeEarly>>

\* The condition fails: ret_val = 0 and the entry is done.
SpliceGiveUp ==
  /\ phase = "splice"
  /\ ~SpliceCond
  /\ spliceCycle' = IF UseSplicing THEN spliceCycle + 1 ELSE spliceCycle
  /\ phase' = "done"
  /\ UNCHANGED <<buf, mask, origMask, len, stageCur, stageMax, perfScore, op,
                 stacking, step, mutSize, mutPos, mutData, touched,
                 brokeEarly>>

\* The mask at havoc entry: the calibrated one in rare-branch mode, the
\* permissive one otherwise (1758-1759, 2005-2145).
Init ==
  /\ len = L
  /\ buf = InBuf(L)
  /\ mask \in IF RbMode THEN CalibratedMasks(L) ELSE {PermissiveMask(L)}
  /\ origMask = mask
  /\ stageCur = 0
  /\ stageMax = StageMax0
  /\ perfScore = OrigPerf
  /\ spliceCycle = 0
  /\ op = "FlipBit"
  /\ stacking = 1
  /\ step = 0
  /\ mutSize = "OTHER"
  /\ mutPos = [j \in 0 .. MaxStack - 1 |-> JUNK]
  /\ mutData = [j \in 0 .. 4 * MaxStack - 1 |-> JUNK]
  /\ touched = {}
  /\ brokeEarly = FALSE
  /\ phase = "pick"

Next ==
  \/ Pick \/ HavocEnd \/ Mutate
  \/ Abandon \/ RestoreFull \/ RestoreOptimized \/ RestoreWild
  \/ SpliceRetry \/ SpliceStart \/ SpliceGiveUp

\* fuzz_one returns in phase "done"; "crashed" and "ub" end the process.
Spec == Init /\ [][Next]_vars

-----------------------------------------------------------------------------
Orgs == (0 .. MaxFile) \cup {FRESH}
Vals == [src : (0 .. MaxFile) \cup {WR}, fl : SUBSET (0 .. 7)]
Kinds == {"overwrite", "delete", "insert", "bit"}

TypeOK ==
  /\ buf \in Seq([org : Orgs, val : Vals])
  /\ TempLen \in 1 .. MaxFile - 1
  /\ mask \in Seq(Flags) /\ origMask \in Seq(Flags)
  /\ len \in {L} \cup TargetLens
  /\ stacking \in Stackings /\ step \in 0 .. MaxStack
  /\ mutPos \in [0 .. MaxStack - 1 -> Nat \cup {JUNK}]
  /\ mutData \in [0 .. 4 * MaxStack - 1 -> Vals \cup {JUNK}]
  /\ touched \subseteq (Orgs \cup {EOB}) \X Kinds
  /\ phase \in {"pick", "mutate", "exec", "splice", "done", "crashed", "ub"}

\* The flags orig_branch_mask gives the in_buf byte o (7 for an inserted
\* byte, the sentinel for the end of the buffer).
Truth(o) ==
  CASE o = FRESH -> 7 [] o = EOB -> origMask[len + 1] [] OTHER -> origMask[o + 1]

FlagOf(kind) ==
  CASE kind = "delete" -> DELETE [] kind = "insert" -> INSERT [] OTHER -> OVERWRITE

(***************************************************************************)
(* The mask follows its bytes: while havoc works on a buffer, branch_mask  *)
(* holds for each byte of out_buf the flags orig_branch_mask has for the   *)
(* in_buf byte it came from (7 for inserted bytes), and after the last     *)
(* byte the sentinel of orig_branch_mask.  Clone, insert and delete steps  *)
(* rebuild the mask, and the restores must put it back.                    *)
(***************************************************************************)
MaskFollowsBytes ==
  phase \in {"pick", "mutate", "exec"} =>
    \A p \in 1 .. TempLen + 1 :
      mask[p] = Truth(IF p = TempLen + 1 THEN EOB ELSE buf[p].org)

(***************************************************************************)
(* Every byte a havoc byte-window overwrite writes, and every byte a       *)
(* delete removes, is an in_buf byte whose calibrated flags allow it, or   *)
(* an inserted one.  FLIP_BIT1's flip is left out: it is the subject of    *)
(* WritesRespectMask below, which TLC finds violated.                      *)
(***************************************************************************)
ByteWritesRespectMask ==
  \A t \in touched :
    t[2] \in {"overwrite", "delete"} => HasFlag(Truth(t[1]), FlagOf(t[2]))

(***************************************************************************)
(* The comment above get_random_modifiable_posn (1321-1323) and the spec   *)
(* (section 8): every byte havoc overwrites or removes, the single bit     *)
(* flips of FLIP_BIT1 (3817) included, lies inside the branch mask.        *)
(***************************************************************************)
WritesRespectMask ==
  \A t \in touched :
    t[2] \in {"overwrite", "delete", "bit"} => HasFlag(Truth(t[1]), FlagOf(t[2]))

(***************************************************************************)
(* branch_mask always has a byte for every byte of out_buf and one more:   *)
(* the position queries read mask[0 .. temp_len], across clones, deletes,  *)
(* restores that keep the old allocation, and splices.                     *)
(***************************************************************************)
MaskCoversBuffer == Len(mask) >= TempLen + 1

(***************************************************************************)
(* After each iteration's restore, out_buf is in_buf again, and no restore *)
(* writes outside out_buf.                                                 *)
(***************************************************************************)
RestoreRoundTrip == phase # "ub" /\ (phase = "pick" => buf = InBuf(len))

(***************************************************************************)
(* As long as every stacked loop ran all use_stacking steps, the reverse   *)
(* replay of mutation_pos / mutation_data restores out_buf exactly.        *)
(***************************************************************************)
RoundTripUnlessBroken == ~brokeEarly => RestoreRoundTrip

=============================================================================
