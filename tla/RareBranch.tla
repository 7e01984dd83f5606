----------------------------- MODULE RareBranch -----------------------------
(***************************************************************************)
(* The rare-branch selector and the part of fuzz_one_original that uses    *)
(* it (afl-fuzz-one.c): get_lowest_hit_branch_ids, is_rb_hit_mini, the     *)
(* choice of afl->rb_fuzzing for the current queue entry, and the          *)
(* blacklist append after the mask calibration, across many fuzz_one      *)
(* calls while hit_bits keeps growing.                                     *)
(***************************************************************************)
EXTENDS Integers, Sequences, FiniteSets

CONSTANTS
  Branches,       \* the branch ids 0 .. map_size - 1
  Entries,        \* queue entries
  Trace,          \* Trace[e]: the branches the trace_mini of entry e holds
  MaxRare,        \* afl->max_rare_branches
  MaxHits,        \* bound on a hit_bits counter
  RareExps,       \* the values afl->rare_branch_exp can start with
  BlInit,         \* the initial afl->blacklist_size
  MaxBlacklist,   \* bound on the number of blacklist appends
  UseBranchMask,  \* afl->use_branch_mask > 0
  RunWithShadow   \* afl->run_with_shadow

ASSUME /\ Branches = 0 .. Cardinality(Branches) - 1
       /\ Trace \in [Entries -> SUBSET Branches]
       /\ MaxRare >= 2 /\ BlInit >= 2
       /\ UseBranchMask \in BOOLEAN /\ RunWithShadow \in BOOLEAN

\* INT_MAX, the "no branch seen" value of lowest_hob.
IntMax == 2^30

VARIABLES
  hitBits,      \* afl->hit_bits
  rareExp,      \* afl->rare_branch_exp
  blacklist,    \* afl->blacklist[0 .. blacklist_pos - 1]
  blSize,       \* afl->blacklist_size
  fuzzed,       \* fuzzed[e]: the bits set in e's fuzzed_branches
  cur,          \* afl->queue_cur
  rbFuzzing,    \* afl->rb_fuzzing (branch id + 1, 0 for none)
  shadowMode,   \* afl->shadow_mode
  phase,        \* "idle" between calls, "calib" in a pass of the pipeline
  sel,          \* what the last selection saw and computed (for properties)
  blWhy         \* blWhy[k]: the pass that appended blacklist[k] ran the calibration

vars == <<hitBits, rareExp, blacklist, blSize, fuzzed, cur, rbFuzzing,
          shadowMode, phase, sel, blWhy>>

Range(s) == { s[k] : k \in DOMAIN s }

MinOf(a, b) == IF a < b THEN a ELSE b

\* highest_order_bit of a non-zero counter: floor(log2(h)).
RECURSIVE Hob(_)
Hob(h) == IF h <= 1 THEN 0 ELSE 1 + Hob(h \div 2)

(***************************************************************************)
(* get_lowest_hit_branch_ids (1093-1136).  One step of the scan over       *)
(* branch i; the list is rare_branch_ids[0 .. ret_list_size).              *)
(***************************************************************************)
\* Miscoding that appends without resetting the list when the exponent drops.
ScanStepNoReset(st, i, hits, bl) ==
  IF hits[i] = 0 \/ i \in bl THEN st
  ELSE LET h == Hob(hits[i]) IN
       IF h < st.exp
       THEN [ids |-> Append(st.ids, i),
             exp |-> IF h < st.exp - 1 THEN h + 1 ELSE st.exp,
             lowest |-> MinOf(st.lowest, h)]
       ELSE [st EXCEPT !.lowest = MinOf(st.lowest, h)]

ScanStep(st, i, hits, bl) ==
  IF hits[i] = 0 \/ i \in bl THEN st
  ELSE LET h == Hob(hits[i]) IN
       IF h < st.exp
       THEN IF h < st.exp - 1
            THEN [ids |-> <<i>>, exp |-> h + 1, lowest |-> MinOf(st.lowest, h)]
            ELSE [st EXCEPT !.ids = Append(@, i), !.lowest = MinOf(@, h)]
       ELSE [st EXCEPT !.lowest = MinOf(@, h)]

\* The for loop: it stops at map_size or when the list holds max - 1 ids.
RECURSIVE ScanFrom(_, _, _, _)
ScanFrom(i, st, hits, bl) ==
  IF i >= Cardinality(Branches) \/ Len(st.ids) >= MaxRare - 1 THEN st
  ELSE ScanFrom(i + 1, ScanStep(st, i, hits, bl), hits, bl)

\* The result list and the rare_branch_exp the call leaves behind; an empty
\* list with some branch seen raises the exponent and calls itself again.
RECURSIVE GetLowestHitBranchIds(_, _, _)
GetLowestHitBranchIds(exp, hits, bl) ==
  LET st == ScanFrom(0, [ids |-> <<>>, exp |-> exp, lowest |-> IntMax], hits, bl)
  IN  IF st.ids = <<>> /\ st.lowest # IntMax
      THEN GetLowestHitBranchIds(st.lowest + 1, hits, bl)
      ELSE [ids |-> st.ids, exp |-> st.exp]

(***************************************************************************)
(* is_rb_hit_mini (1142-1196).  branch_cts and branch_ids are u32 arrays   *)
(* of max_rare_branches zeroed entries; the insertion memmoves             *)
(* min_hit_index - j BYTES, so element k > j takes byte b of element k - 1 *)
(* when 4 * (k - j - 1) + b < n and keeps its own byte otherwise.  The     *)
(* insertion loop has no break and the append after it always runs.       *)
(***************************************************************************)
Byte(v, b) == (v \div 2^(8 * b)) % 256

ByteShift(a, j, n) ==
  [k \in DOMAIN a |->
     IF k <= j THEN a[k]
     ELSE LET B(b) == IF 4 * (k - j - 1) + b < n THEN Byte(a[k - 1], b)
                      ELSE Byte(a[k], b)
          IN  B(0) + 256 * B(1) + 65536 * B(2) + 16777216 * B(3)]

InsertHit(st, h, id) ==
  LET RECURSIVE Loop(_, _)
      Loop(s, j) ==
        IF j >= s.m THEN s
        ELSE Loop(IF h <= s.cts[j]
                  THEN [s EXCEPT
                          !.cts = [ByteShift(s.cts, j, s.m - j) EXCEPT ![j] = h],
                          !.ids = [ByteShift(s.ids, j, s.m - j) EXCEPT ![j] = id]]
                  ELSE s, j + 1)
      s2 == Loop(st, 0)
  IN  [cts |-> [s2.cts EXCEPT ![s2.m] = h],
       ids |-> [s2.ids EXCEPT ![s2.m] = id],
       m   |-> s2.m + 1]

\* Miscoding that takes every branch of the trace, rare or not.
IsRbHitMiniAll(e, hits, rarest) ==
  LET Zero == [k \in 0 .. MaxRare - 1 |-> 0]
      RECURSIVE Walk(_, _)
      Walk(i, st) ==
        IF i >= Cardinality(Branches) THEN st
        ELSE Walk(i + 1, IF i \in Trace[e] THEN InsertHit(st, hits[i], i + 1) ELSE st)
      r == Walk(0, [cts |-> Zero, ids |-> Zero, m |-> 0])
  IN  [k \in 1 .. r.m |-> r.ids[k - 1]]

\* The returned ids (branch id + 1), <<>> standing for NULL.
IsRbHitMini(e, hits, rarest) ==
  LET Zero == [k \in 0 .. MaxRare - 1 |-> 0]
      RECURSIVE Walk(_, _)
      Walk(i, st) ==
        IF i >= Cardinality(Branches) THEN st
        ELSE Walk(i + 1, IF i \in Trace[e] /\ i \in Range(rarest)
                         THEN InsertHit(st, hits[i], i + 1) ELSE st)
      r == Walk(0, [cts |-> Zero, ids |-> Zero, m |-> 0])
  IN  [k \in 1 .. r.m |-> r.ids[k - 1]]

-----------------------------------------------------------------------------
(***************************************************************************)
(* The selection in fuzz_one_original (1517-1587): the first listed branch *)
(* not yet fuzzed for the entry is marked and chosen; when all are, the    *)
(* first one is chosen again.  A NULL list returns 1 at once.              *)
(***************************************************************************)
FirstUnfuzzed(l, fz) ==
  { k \in DOMAIN l : l[k] - 1 \notin fz /\ \A k2 \in 1 .. k - 1 : l[k2] - 1 \in fz }

SelectSkip(e) ==
  /\ phase = "idle"
  /\ LET r == GetLowestHitBranchIds(rareExp, hitBits, Range(blacklist)) IN
       /\ IsRbHitMini(e, hitBits, r.ids) = <<>>
       /\ rareExp' = r.exp
  /\ cur' = e
  /\ UNCHANGED <<hitBits, blacklist, blSize, fuzzed, rbFuzzing, shadowMode,
                 phase, sel, blWhy>>

Select(e) ==
  /\ phase = "idle"
  /\ LET r == GetLowestHitBranchIds(rareExp, hitBits, Range(blacklist))
         l == IsRbHitMini(e, hitBits, r.ids)
         ks == FirstUnfuzzed(l, fuzzed[e])
     IN  /\ l # <<>>
         /\ rareExp' = r.exp
         /\ IF ks # {}
            THEN LET k == CHOOSE x \in ks : TRUE IN
                 /\ rbFuzzing' = l[k]
                 /\ fuzzed' = [fuzzed EXCEPT ![e] = @ \cup {l[k] - 1}]
            ELSE /\ rbFuzzing' = l[1]
                 /\ UNCHANGED fuzzed
         /\ sel' = [hits |-> hitBits, bl |-> Range(blacklist), rarest |-> r.ids,
                    exp |-> r.exp, list |-> l, fz |-> fuzzed[e]]
  /\ cur' = e
  /\ shadowMode' = RunWithShadow
  /\ phase' = "calib"
  /\ UNCHANGED <<hitBits, blacklist, blSize, blWhy>>

(***************************************************************************)
(* One pass of the pipeline from re_run to the end of fuzz_one.  The      *)
(* calibration after flip8 calls hits_branch, which counts                 *)
(* successful_branch_tries, only when rb_fuzzing, not shadow_mode and      *)
(* use_branch_mask > 0 (2033, 2098); the count is reset at 1981.  At 2147 *)
(* a zero count appends the branch to the blacklist, doubling its size    *)
(* first when blacklist_pos >= blacklist_size - 1.  A goto abandon_entry  *)
(* before 2147 skips the append.  At the end a shadow pass jumps back to  *)
(* re_run (5070) with shadow_mode cleared.                                 *)
(***************************************************************************)
\* Miscoding of the growth test as blacklist_pos >= blacklist_size.
GrowBlacklistLate(pos, size) == IF pos >= size THEN 2 * size ELSE size

GrowBlacklist(pos, size) == IF pos >= size - 1 THEN 2 * size ELSE size

EndPass ==
  IF shadowMode
  THEN /\ shadowMode' = FALSE /\ phase' = "calib"
  ELSE /\ shadowMode' = FALSE /\ phase' = "idle"

\* Miscoding that appends rb_fuzzing itself, without the "- 1".
PassNoMinusOne ==
  /\ phase = "calib"
  /\ LET calibrated == UseBranchMask /\ ~shadowMode IN
     \E success \in (IF calibrated THEN BOOLEAN ELSE {FALSE}),
        abandoned \in BOOLEAN :
       IF success \/ abandoned
       THEN UNCHANGED <<blacklist, blSize, blWhy>>
       ELSE /\ Len(blacklist) < MaxBlacklist
            /\ blSize' = GrowBlacklist(Len(blacklist), blSize)
            /\ blacklist' = Append(blacklist, rbFuzzing)
            /\ blWhy' = Append(blWhy, calibrated)
  /\ EndPass
  /\ UNCHANGED <<hitBits, rareExp, fuzzed, cur, rbFuzzing, sel>>

Pass ==
  /\ phase = "calib"
  /\ LET calibrated == UseBranchMask /\ ~shadowMode IN
     \E success \in (IF calibrated THEN BOOLEAN ELSE {FALSE}),
        abandoned \in BOOLEAN :
       IF success \/ abandoned
       THEN UNCHANGED <<blacklist, blSize, blWhy>>
       ELSE /\ Len(blacklist) < MaxBlacklist
            /\ blSize' = GrowBlacklist(Len(blacklist), blSize)
            /\ blacklist' = Append(blacklist, rbFuzzing - 1)
            /\ blWhy' = Append(blWhy, calibrated)
  /\ EndPass
  /\ UNCHANGED <<hitBits, rareExp, fuzzed, cur, rbFuzzing, sel>>

\* The executions of the other stages add queue entries and bump hit_bits.
Hit(i) ==
  /\ hitBits[i] < MaxHits
  /\ hitBits' = [hitBits EXCEPT ![i] = @ + 1]
  /\ UNCHANGED <<rareExp, blacklist, blSize, fuzzed, cur, rbFuzzing,
                 shadowMode, phase, sel, blWhy>>

Init ==
  /\ hitBits \in { h \in [Branches -> 0 .. MaxHits] :
                     \A e \in Entries : \A i \in Trace[e] : h[i] >= 1 }
  /\ rareExp \in RareExps
  /\ blacklist = <<>> /\ blWhy = <<>>
  /\ blSize = BlInit
  /\ fuzzed = [e \in Entries |-> {}]
  /\ cur \in Entries
  /\ rbFuzzing = 0
  /\ shadowMode = FALSE
  /\ phase = "idle"
  /\ sel = [hits |-> hitBits, bl |-> {}, rarest |-> <<>>, exp |-> rareExp,
            list |-> <<>>, fz |-> {}]

Next ==
  \/ \E e \in Entries : Select(e) \/ SelectSkip(e)
  \/ Pass
  \/ \E i \in Branches : Hit(i)

Spec == Init /\ [][Next]_vars

-----------------------------------------------------------------------------
TypeOK ==
  /\ hitBits \in [Branches -> 0 .. MaxHits]
  /\ rareExp \in Nat
  /\ blacklist \in Seq(Branches) /\ blWhy \in Seq(BOOLEAN)
  /\ blSize \in Nat
  /\ fuzzed \in [Entries -> SUBSET Branches]
  /\ cur \in Entries
  /\ rbFuzzing \in 0 .. Cardinality(Branches)
  /\ phase \in {"idle", "calib"}

\* The non-blacklisted branches with hits at the last selection, and the
\* lowest highest_order_bit among them.
Seen == { i \in Branches : sel.hits[i] > 0 /\ i \notin sel.bl }
LowestHob == CHOOSE h \in { Hob(sel.hits[i]) : i \in Seen } :
               \A i \in Seen : h <= Hob(sel.hits[i])

(***************************************************************************)
(* get_lowest_hit_branch_ids returns the rarest class: after the scan,     *)
(* its lowering of rare_branch_exp mid-scan, the list resets and the       *)
(* retry, the list holds exactly the non-blacklisted hit branches whose    *)
(* highest_order_bit is the lowest, and rare_branch_exp is that plus one.  *)
(***************************************************************************)
RarestIsLowestClass ==
  phase = "calib" =>
    /\ Range(sel.rarest) = { i \in Seen : Hob(sel.hits[i]) = LowestHob }
    /\ sel.exp = LowestHob + 1

(***************************************************************************)
(* The branch fuzz_one goes on to fuzz is one the entry's trace_mini hits  *)
(* and one of the rarest branches, whatever is_rb_hit_mini's insertion    *)
(* and the fuzzed_branches fallback did.                                   *)
(***************************************************************************)
SelectionSound ==
  phase = "calib" =>
    /\ rbFuzzing - 1 \in Trace[cur]
    /\ rbFuzzing - 1 \in Range(sel.rarest)

(***************************************************************************)
(* When the entry hits rare branches it has not been fuzzed against yet,   *)
(* fuzz_one picks one of them, and one with the fewest hits (is_rb_hit_mini *)
(* promises its list "in decreasing order of rarity").                     *)
(***************************************************************************)
Unfuzzed == { i \in Trace[cur] \cap Range(sel.rarest) : i \notin sel.fz }

SelectsRarestUnfuzzed ==
  (phase = "calib" /\ Unfuzzed # {}) =>
    /\ rbFuzzing - 1 \in Unfuzzed
    /\ \A i \in Unfuzzed : sel.hits[rbFuzzing - 1] <= sel.hits[i]

(***************************************************************************)
(* The blacklist and its -1 terminator always fit in the blacklist_size    *)
(* ints allocated for it, across every append and doubling.                *)
(***************************************************************************)
BlacklistFits == Len(blacklist) + 1 <= blSize

(***************************************************************************)
(* A branch goes on the blacklist only after a pass in which the           *)
(* calibration really tried it: hits_branch was called on the flip8,       *)
(* rbrem8 and rbadd8 candidates and none of them hit it.                   *)
(***************************************************************************)
BlacklistJustified == \A k \in DOMAIN blWhy : blWhy[k]

=============================================================================
