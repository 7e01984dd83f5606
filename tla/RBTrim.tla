------------------------------- MODULE RBTrim -------------------------------
(***************************************************************************)
(* The rare-branch trimmer trim_case_rb (afl-fuzz-one.c 1204-1300), its    *)
(* caller in fuzz_one_original (1603-1604, 1688-1706), and the two later   *)
(* readers of in_buf: the splice clean-up (4970-4975) and the next         *)
(* fuzz_one call on the same queue entry, which gets in_buf from the       *)
(* testcase cache (queue_testcase_get).                                    *)
(*                                                                         *)
(* A byte is its index in the queue testcase, so the testcase is           *)
(* Input = <<1, ..., qLen>>.  The branch being fuzzed is hit by an input   *)
(* iff it holds every byte of key (a target such as "byte 10 is 0x41"),    *)
(* or, when Flaky, by any execution at all: the target's variable          *)
(* behaviour that the comment at 1220 says is not checked for.             *)
(***************************************************************************)
EXTENDS Integers, Sequences, FiniteSets

CONSTANTS
  QLens,          \* possible afl->queue_cur->len of the entry
  Keys,           \* possible sets of bytes whose presence makes the branch hit
  Flaky,          \* the target's coverage of the branch is not deterministic
  CacheKeeps,     \* queue_testcase_get may return the buffer an earlier call used
  UseSplicing,    \* afl->use_splicing
  TargetLen,      \* length of the entry spliced with
  MaxSplices,     \* bound on splice iterations in one call
  MaxCalls,       \* bound on fuzz_one calls on the entry
  RunWithShadow,  \* afl->run_with_shadow
  TrimStartSteps, TrimEndSteps, TrimMinBytes   \* config.h

ASSUME /\ QLens \subseteq Nat \ {0}
       /\ \A q \in QLens : \E k \in Keys : k \subseteq 1..q
       /\ Flaky \in BOOLEAN /\ CacheKeeps \in BOOLEAN /\ UseSplicing \in BOOLEAN
       /\ RunWithShadow \in BOOLEAN
       /\ TrimMinBytes >= 1

MaxLen == CHOOSE m \in QLens : \A q \in QLens : q <= m

VARIABLES
  qLen,       \* afl->queue_cur->len, never changed by the code modelled
  key,        \* the target's condition for hitting the branch
  buf,        \* the cached testcase buffer orig_in points to (qLen bytes)
  len,        \* fuzz_one_original's len
  inLen,      \* trim_case_rb's in_len
  lenP2,      \* len_p2
  removeLen,  \* remove_len
  removePos,  \* remove_pos
  trimLen,    \* the value trim_case_rb returns
  scratch,    \* in_buf != orig_in: in_buf is afl->in_scratch_buf after a splice
  head,       \* the bytes of orig_in copied into in_scratch_buf (5006)
  splices,    \* splice_cycle
  calls,      \* fuzz_one calls on the entry so far
  shadowMode, \* afl->shadow_mode: this is the plain-AFL pass of a shadow run
  phase       \* "idle", "trim", "ret" (trim_case_rb returned), "fuzz"

trimVars   == <<inLen, lenP2, removeLen, removePos, trimLen>>
spliceVars == <<scratch, head, splices>>
vars == <<qLen, key, buf, len, trimVars, spliceVars, calls, shadowMode, phase>>

Input == [i \in 1..qLen |-> i]

MinOf(a, b) == IF a < b THEN a ELSE b
MaxOf(a, b) == IF a > b THEN a ELSE b

\* next_p2: the least power of two not below v.
RECURSIVE NextP2From(_, _)
NextP2From(v, p) == IF p >= v THEN p ELSE NextP2From(v, 2 * p)
NextP2(v) == NextP2From(v, 1)

\* The outer loop's bound at 1241.
EndBound(p2) == MaxOf(p2 \div TrimEndSteps, TrimMinBytes)

\* Whether an execution of s reaches the branch (hits_branch after
\* common_fuzz_stuff).
HitOutcomes(s) == IF Flaky THEN BOOLEAN ELSE {key \subseteq {s[i] : i \in DOMAIN s}}

\* The candidate the inner loop executes: HEAD and TAIL of in_buf (1260-1262).
Candidate(b, il, pos, avail) == SubSeq(b, 1, pos) \o SubSeq(b, pos + avail + 1, il)

\* Mutant: the memmove at 1281 moves one byte too few.
ShiftLeftShort(b, pos, avail, tail) ==
  [k \in DOMAIN b |-> IF pos < k /\ k < pos + tail THEN b[k + avail] ELSE b[k]]

\* memmove(in_buf + pos, in_buf + pos + avail, tail): in place, so the bytes
\* of the testcase past the new in_len keep their old values.
ShiftLeft(b, pos, avail, tail) ==
  [k \in DOMAIN b |-> IF pos < k /\ k <= pos + tail THEN b[k + avail] ELSE b[k]]

\* fuzz_one_original reads the entry (1603-1604) and, with rb_fuzzing and
\* trim_for_branch, enters trim_case_rb (1208-1236).  The cache may have
\* evicted the buffer, in which case it is read again from the file.
StartCall ==
  /\ phase = "idle" /\ calls < MaxCalls
  /\ \E b \in {Input} \cup (IF CacheKeeps /\ calls > 0 THEN {buf} ELSE {}) :
       buf' = b
  /\ len' = qLen /\ inLen' = qLen
  /\ lenP2' = NextP2(qLen)
  /\ removeLen' = MaxOf(NextP2(qLen) \div TrimStartSteps, TrimMinBytes)
  /\ removePos' = 0
  /\ IF qLen < 5 THEN phase' = "ret" /\ trimLen' = 0
                 ELSE phase' = "trim" /\ trimLen' = trimLen
  /\ scratch' = FALSE /\ head' = <<>> /\ splices' = 0
  /\ calls' = calls + 1
  /\ UNCHANGED <<qLen, key, shadowMode>>

\* One iteration of the inner loop (1254-1290): execute the input without
\* the window; stop on stop_soon or a fault; keep the shorter input if it
\* still hits the branch, otherwise move past the window.
TrimExec ==
  /\ phase = "trim"
  /\ removeLen >= EndBound(lenP2) /\ removePos < inLen
  /\ LET avail == MinOf(removeLen, inLen - removePos)
         tail  == inLen - removePos - avail
     IN \/ /\ phase' = "ret" /\ trimLen' = inLen
           /\ UNCHANGED <<buf, inLen, lenP2, removePos>>
        \/ /\ TRUE \in HitOutcomes(Candidate(buf, inLen, removePos, avail))
           /\ inLen' = inLen - avail
           /\ lenP2' = NextP2(inLen - avail)
           /\ buf' = ShiftLeft(buf, removePos, avail, tail)
           /\ UNCHANGED <<removePos, phase, trimLen>>
        \/ /\ FALSE \in HitOutcomes(Candidate(buf, inLen, removePos, avail))
           /\ removePos' = removePos + removeLen
           /\ UNCHANGED <<buf, inLen, lenP2, phase, trimLen>>
  /\ UNCHANGED <<qLen, key, len, removeLen, spliceVars, calls, shadowMode>>

\* Mutant: the outer loop forgets to halve remove_len.
TrimNextPassNoHalve ==
  /\ phase = "trim"
  /\ removeLen >= EndBound(lenP2) /\ removePos >= inLen
  /\ removePos' = 0
  /\ UNCHANGED <<qLen, key, buf, len, inLen, lenP2, removeLen, trimLen,
                 spliceVars, calls, shadowMode, phase>>

\* End of a pass of the outer loop (1293, then 1245 for the next one).
TrimNextPass ==
  /\ phase = "trim"
  /\ removeLen >= EndBound(lenP2) /\ removePos >= inLen
  /\ removeLen' = removeLen \div 2 /\ removePos' = 0
  /\ UNCHANGED <<qLen, key, buf, len, inLen, lenP2, trimLen,
                 spliceVars, calls, shadowMode, phase>>

\* The outer loop's condition fails (1241): return in_len (1296-1300).
TrimDone ==
  /\ phase = "trim" /\ removeLen < EndBound(lenP2)
  /\ phase' = "ret" /\ trimLen' = inLen
  /\ UNCHANGED <<qLen, key, buf, len, inLen, lenP2, removeLen, removePos,
                 spliceVars, calls, shadowMode>>

\* On the way to the stages the re_run block (1731-1737) enters the
\* plain-AFL pass first when run_with_shadow is set.
EnterStages ==
  /\ phase' = "fuzz"
  /\ shadowMode' = RunWithShadow

\* Mutant: the caller takes the result even when it is 0.
UseTrimUnguarded ==
  /\ phase = "ret"
  /\ len' = trimLen
  /\ EnterStages
  /\ UNCHANGED <<qLen, key, buf, trimVars, spliceVars, calls>>

\* The caller adopts a positive result as len (1690-1692); 0 means "not
\* trimmed" and len stays the entry's length.
UseTrim ==
  /\ phase = "ret"
  /\ len' = IF trimLen > 0 THEN trimLen ELSE len
  /\ EnterStages
  /\ UNCHANGED <<qLen, key, buf, trimVars, spliceVars, calls>>

\* One splice iteration (4959-5008).  If an earlier splice switched in_buf
\* to the scratch buffer, it first "cleans up": in_buf = orig_in and
\* len = queue_cur->len.  It then copies in_buf[0, split_at) into the
\* scratch buffer, f_diff <= split_at < l_diff < MIN(len, target->len);
\* which bytes differ from the other entry is abstracted to any such split.
Splice ==
  /\ phase = "fuzz" /\ UseSplicing /\ splices < MaxSplices /\ qLen >= 4
  /\ LET l == IF scratch THEN qLen ELSE len
     IN \E split \in 0..(MinOf(l, TargetLen) - 2) :
          /\ head' = SubSeq(buf, 1, split)
          /\ len' = TargetLen
  /\ scratch' = TRUE /\ splices' = splices + 1
  /\ UNCHANGED <<qLen, key, buf, trimVars, calls, shadowMode, phase>>

\* The end of the plain-AFL pass (5070): goto re_run, which resets the
\* statistics and virgin bits (1738-1748) and runs the stages again with
\* the in_buf, len and splice_cycle the first pass left.
ReRun ==
  /\ phase = "fuzz" /\ shadowMode
  /\ shadowMode' = FALSE
  /\ UNCHANGED <<qLen, key, buf, len, trimVars, spliceVars, calls, phase>>

\* fuzz_one returns (5072-5084); in_buf is not written again.
EndCall ==
  /\ phase = "fuzz" /\ ~shadowMode
  /\ phase' = "idle"
  /\ UNCHANGED <<qLen, key, buf, len, trimVars, spliceVars, calls, shadowMode>>

Init ==
  /\ qLen \in QLens /\ key \in {k \in Keys : k \subseteq 1..qLen}
  /\ buf = Input /\ len = qLen
  /\ inLen = qLen /\ lenP2 = NextP2(qLen) /\ removeLen = 0 /\ removePos = 0
  /\ trimLen = 0 /\ scratch = FALSE /\ head = <<>> /\ splices = 0
  /\ calls = 0 /\ shadowMode = FALSE /\ phase = "idle"

TrimStep == TrimExec \/ TrimNextPass \/ TrimDone \/ UseTrim

Next == StartCall \/ TrimStep \/ Splice \/ ReRun \/ EndCall

\* trim_case_rb is a sequential loop whose every execution returns
\* (common_fuzz_stuff has a timeout), so a trim step that stays enabled
\* is eventually taken.
Fairness == WF_vars(TrimStep)

Spec == Init /\ [][Next]_vars /\ Fairness

-----------------------------------------------------------------------------
(* Properties *)

\* Every variable has its type; in particular fuzz_one never goes on with
\* len 0 (the caller's trim_len > 0 test at 1691).
TypeOK ==
  /\ qLen \in QLens /\ key \in Keys
  /\ buf \in [1..qLen -> 1..qLen]
  /\ len \in 1..MaxOf(MaxLen, TargetLen)
  /\ inLen \in 0..qLen /\ trimLen \in 0..qLen
  /\ scratch \in BOOLEAN /\ splices \in 0..MaxSplices /\ calls \in 0..MaxCalls
  /\ shadowMode \in BOOLEAN
  /\ phase \in {"idle", "trim", "ret", "fuzz"}

\* The bytes fuzzing is based on: in_buf[0, len), or the part of orig_in a
\* splice copied.
Base == IF scratch THEN head ELSE SubSeq(buf, 1, len)

\* A subsequence of Input = <<1, ..., qLen>> is an increasing sequence.
IsTrimOfInput(s) == \A i \in 1..(Len(s) - 1) : s[i] < s[i + 1]

\* The input the stages fuzz is the queue testcase with some windows
\* deleted: trim_case_rb only removes bytes, and the queue input itself is
\* never changed (spec: "never mutated by the core").  Breaking it needs a
\* trim that rewrites orig_in in place followed by a reader that takes
\* orig_in at the untrimmed length.
FuzzedFromInput == phase = "fuzz" => IsTrimOfInput(Base)

\* What trim_case_rb hands back still reaches the branch being fuzzed: a
\* window is dropped only when the execution without it hit the branch.
TrimKeepsBranch ==
  (phase = "fuzz" /\ ~scratch) => key \subseteq {Base[i] : i \in DOMAIN Base}

\* Every rare-branch trim returns to fuzz_one: remove_pos advances or
\* in_len shrinks in each iteration, and remove_len halves in each pass.
TrimTerminates == (phase = "trim") ~> (phase = "fuzz")


=============================================================================
