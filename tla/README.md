# TLA+ models of the rare-branch fuzzing core (`src/src/afl-fuzz-one.c`)

This directory holds TLA+ models of the mutation and scheduling core of the
fuzzer. The core is `fuzz_one_original` in `src/src/afl-fuzz-one.c` and its
helpers. Each module is translated from that file. `PROJECT.json` maps every
modelled definition to the source lines it stands for. It also lists the
runs, the mutants, the findings and the hazards.

## 1. Inventory

The core is one thread. It makes one synchronous call at a time to the
executor (`common_fuzz_stuff`). Nothing in it runs concurrently. What is hard
here is therefore not interleaving of threads. It is:

* long sequences of legal steps over buffers that change size, where several
  arrays (`out_buf`, `branch_mask`, `orig_branch_mask`, `position_map`,
  `mutation_pos`/`mutation_data*`) must stay in step;
* state kept from one havoc iteration to the next, or from one queue entry to
  the next (`afl->rb_fuzzing`, `afl->blacklist`, `afl->rare_branch_exp`,
  `fuzzed_branches`, the stack slots of `mutation_pos`);
* unsigned arithmetic at the edges (`u32` wrap in the position scan, `u64`
  counters in the bandits and ADWIN);
* early exits: `goto abandon_entry` from any stage, `break` out of a stacked
  mutation loop, the `shadow_mode` re-run, splice retries.

### Components

| Id | Component | Source (afl-fuzz-one.c) | State it keeps | Operations |
|----|-----------|-------------------------|----------------|------------|
| A | Redundancy predicates | `could_be_bitflip` 842, `could_be_arith` 879, `could_be_interest` 983 | none (pure) | three predicates |
| B | Branch mask builder and position queries | `alloc_branch_mask` 1306, `get_random_modifiable_posn` 1326, `get_random_insert_posn` 1384, mask calibration 2005-2145 | `branch_mask`, `orig_branch_mask`, `position_map` | flip8 sets OVERWRITE, `rbrem8` adds DELETE, `rbadd8` adds INSERT, two position queries |
| C | Rare-branch selector | `contains_id` 1085, `get_lowest_hit_branch_ids` 1093, `is_rb_hit_mini` 1142, selection loop 1517-1587 | `afl->rare_branch_exp`, `afl->blacklist`, `queue_cur->fuzzed_branches`, `afl->rb_fuzzing` | scan, retry with raised exponent, sort by hits, pick first unfuzzed |
| D | RB trimmer | `trim_case_rb` 1204 and its caller 1688-1703 | `in_buf`, `in_len`, `remove_len`, `remove_pos` | delete a window, execute, keep it if the branch is still hit |
| E | Bandits | 35-240, 408-750 (uniform, UCB, KL-UCB, TS, DTS, DBE, ADWIN-TS, Exp3-PP, Exp3-IX) | per-arm counters, weights, trusts, `t` | `select_arm(mask)`, `add_reward(arm, r)` |
| F | ADWIN | 245-406 | node list of bucket sums, `W`, `sum`, `last_node_idx`, `num_add` | add element, normalise buckets, drop oldest bucket while a change is detected |
| G | Deterministic stage | 1843-3236 | `out_buf`, `eff_map`, `a_collect`/`a_len` | flip1/2/4/8/16/32, arith 8/16/32, interest 8/16/32, extras over/insert, auto-extras; mask gating when rare-branch fuzzing |
| H | Havoc stage | 3388-4937 | `out_buf`, `temp_len`, `branch_mask`, `position_map`, `mutation_pos`, `mutation_data32`, `stage_max`, `perf_score` | pick operator and batch size, stacked mutations, execute, restore, reward |
| I | Splice stage | 4958-5033 | `in_buf`, `len`, `splice_cycle`, masks | pick other entry, split between first and last difference, fresh mask, re-enter havoc |
| J | Fuzz-one driver | `fuzz_one_original` 1405-1840, 5035-5087; `fuzz_one` 7676 | `ret_val`, `shadow_mode`, `virgin_virgin_bits`, flags | skip policy, select branch, calibrate, trim, rb-trim, score, shadow re-run, stages, cleanup |
| K | MOpt pathway | `mopt_common_fuzzing` 5091, `pso_updating` 7581, `select_algorithm` 751 | swarm state | unreachable: `fuzz_one` returns `fuzz_one_original(afl)` on its first line |

External collaborators, not under `src/`: `common_fuzz_stuff`, `hits_branch`
(which also counts `successful_branch_tries`), `queue_testcase_get`,
`trim_case`, `calibrate_case`, `calculate_score`, `rand_below`, the gsl
samplers. The models treat an execution as a nondeterministic outcome
(abandon or not, new path queued or not, rare branch hit or not).

### How the components interact

The driver J asks C for the rarest branch the current entry hits. It asks D
to shrink the entry while the branch stays hit. In G it builds B's mask by
executing one candidate per byte: flip the byte, delete it, insert before it.
The flip8 pass, the deletions and the insertions also count
`successful_branch_tries`. If none of them hit the branch, the branch goes on
C's blacklist. H then loops. In each iteration it asks E for an operator and
a batch size, queries B for positions and mutates `out_buf` and
`branch_mask` together. It executes the candidate, restores both arrays and
rewards E. When havoc ends, I splices with another entry, makes a new mask and
re-enters H. With `run_with_shadow`, J runs the whole pipeline twice, first
with a permissive mask and then with the built one.

### Properties that make each component correct

* A: each predicate returns 1 exactly for values an earlier deterministic
  stage already tried.
* B: the mask has one byte per input byte plus one. Every position a query
  returns names a window whose bytes all carry the asked flag. The query never
  writes past `position_map`.
* C: the returned list holds only rare, unblacklisted branches the entry
  hits, sorted by hit count (the comment says "in decreasing order of
  rarity"). The chosen branch is one not yet fuzzed for this entry, if any is
  left.
* D: the adopted buffer always hits the branch. Its length never grows. The
  loop ends.
* E/F: counters stay consistent (`total_rewards <= num_selected`, ADWIN's
  `W` equals the sum of its bucket sizes and `sum` the sum of its buckets).
  Masked cases are never executed. Spec 4.E adds that an Exp3 masked pick
  does not advance `t`; the code does advance it (see the findings in section 3).
* G: the mask the calibration leaves in `orig_branch_mask` is the one spec
  4.B describes. A mask-gated deterministic candidate only writes bytes whose
  mask has OVERWRITE_SAFE when rare-branch fuzzing. The auto-extras handed to
  `maybe_add_auto` are tokens of the input. The stage reaches havoc or
  abandons the entry.
* H: each havoc write, delete or insert lands where the mask, built for that
  byte, allows it. The mask follows its bytes when the buffer changes size.
  After the restore, `out_buf == in_buf` and `branch_mask == orig_branch_mask`.
* I: after a splice the mask has `len + 1` bytes and ends in INSERT_SAFE.
* J: both shadow passes start from the entry's own bytes. Cleanup runs on
  every path.

## 2. Modules

| Module | Component | Models |
|--------|-----------|--------|
| `BranchMask.tla` | B | The mask is a sequence of 3-bit flag sets, where `mask[p+1]` stands for `branch_mask[p]`. The module defines `alloc_branch_mask` (`AllocBranchMask`), the masks the flip8/rbrem8/rbadd8 calibration can leave (`CalibratedMasks`) and the permissive mask of vanilla or shadow runs (`PermissiveMask`). `get_random_modifiable_posn` is modelled as `Runs`: the maximal flagged runs the scan closes. `RunBound` is the inner loop bound in `u32`, with `U32`/`UWidth`. `PosnMapLen`/`PosnMapOverflows` count the entries the scan writes against the `temp_len + 1` it has room for. `ModifiablePosns` is what the scan can return, `+ rand_below(8)` for `num_to_modify < 8` included. `get_random_insert_posn` is modelled as `InsertPosns`. |
| `Redundancy.tla` | A | `could_be_bitflip` (`CouldBeBitflip`, with the shift loop `ShiftOut`), `could_be_arith` (`CouldBeArith`, with `DiffBytes`, `DiffWords` and the cast comparison `Near`) and `could_be_interest` (`CouldBeInterest`). A window value is a natural number below `256^blen`, read little-endian. Shifts and casts are `\div` and `%`. |
| `MCReference.tla` | A, B | One variable, `arg`: the arguments of one call to a pure helper. `Init` takes every argument in the bounds. `Query` is the havoc stage asking for a new position. `NextValue` is a stage moving on to the next value of a window. For position queries it covers every mask of up to `MaxMapLen` bytes, both flags and several window widths, and `SafeWindows` is the reference: the window starts whose bytes all carry the flag. For the predicates the references are `FlipXors` (the xors of the walking 1/2/4-bit flips in `FLIP_BIT` order, and the byte-stepped 8/16-bit flips), `ArithRef` (arith 8 on each byte and arith 16 little- and big-endian) and `InterestRef` (interest 8 on each byte, and the little-endian interest 16 once it has run). |
| `Havoc.tla` | H, I | One `fuzz_one` call, from `havoc_stage` to the end of splicing (section 2.1). |
| `MCHavoc.tla` | H, I | The operator subset of the splice run. |
| `RareBranch.tla` | C, part of J | The selector across many `fuzz_one` calls while `hit_bits` grows (section 2.2). |
| `MCRareBranch.tla` | C | The traces of two entries over three branches. |
| `RBTrim.tla` | D, part of J | `trim_case_rb`, its caller, the splice clean-up and the next call on the same entry (section 2.3). |
| `Target.tla` | G | The entry's bytes and the target program the deterministic stage runs: `FlipBit`, `FlipByte`, `DelByte`, `InsByte`, `Hits` (`hits_branch`) and `Cksum` (`hash64` of the trace). |
| `MaskCalibration.tla` | B (abstract) | What the mask builder promises: from all zeroes, `orig_branch_mask` is set once to a mask satisfying `IsSafeMask` (spec 4.B). |
| `Deterministic.tla` | G, B's calibration | The deterministic stage, flip1 through the extras, with the mask calibration and the auto-extra induction (section 2.4). |
| `MCDeterministic.tla` | G | The input `<<7,1,2,3,9,4>>`, the target keys and tokens, and the user and auto extras. The user extras `<<1,2>>`, `<<5,5>>`, `<<5,5,2>>` include one the input already holds at offset 1. They also include one equal to the buffer clobbered by a shorter extra. |
| `Adwin.tla` | F | One `adwin_t` as a record, and every ADWIN operation as an operator on it (section 2.5). |
| `AdwinWindow.tla` | F (abstract) | What an arm's ADWIN promises: a sliding window of its rewards, to which a reward is appended and from which a drop forgets only the oldest rewards, leaving at least `ADWIN_MIN_ELEM_TO_CHECK`. |
| `Bandit.tla` | E, part of H | `mut_bandit` across many havoc stages: the mask, `select_arm`, the Exp3 skip and `add_reward` (section 2.5). |

### 2.1 Havoc and splice

`Havoc.tla` abstracts each byte of `out_buf` to a record:

* `org` is the `in_buf` index the byte came from, or `FRESH` for an inserted byte.
* `val` is its content: the original byte `src`, or `WR` for written data.
* `fl` is the set of bits flipped in it.

The variables and the code they stand for:

* `buf`: `out_buf[0 .. temp_len)`, so `TempLen == Len(buf)`.
* `mask`: `branch_mask`, including the bytes past `temp_len + 1` that a delete leaves behind.
* `origMask`: `orig_branch_mask`.
* `len`: `len`.
* `stageCur` and `stageMax`: `afl->stage_cur` and `afl->stage_max`.
* `perfScore`: `perf_score`.
* `spliceCycle`: `splice_cycle`.
* `op`, `stacking` and `mutSize`: the case chosen, `use_stacking` and `mutation_size`.
* `step`: the stacked loop's `i`.
* `mutPos` and `mutData`: `mutation_pos[]`, and the bytes of `mutation_data32[]`, which the 8-, 16- and 32-bit views alias. Nothing initializes these stack arrays. They start as `JUNK` and keep what earlier iterations stored.
* `phase`: where control is.
* `touched` and `brokeEarly`: history variables, used only by the properties.

The actions:

* `Pick`: the operator (`LegalOps`, the bandit mask) and `use_stacking`.
* `HavocEnd`: the end of the havoc loop.
* `Mutate`: one stacked step of the chosen case. This covers `StepFlipBit`, `StepWord`, `StepClone`, `StepInsertSame`, `StepOverwriteChunk`, `StepOverwriteSame`, `StepDelete`, `StepExtraOver`, `StepExtraInsert` and `StepSplice`. Each step is the whole loop body: the position query, the `0xffffffff` break (`Break`), the save into the slots, the write, and the rebuild of `branch_mask`.
* `Crash`: the overflowing scan.
* `Abandon`: a stop request.
* `RestoreFull`: the full restore.
* `RestoreOptimized` and `RestoreWild`: the replay restore, with `Reward`.
* `SpliceRetry`, `SpliceStart` and `SpliceGiveUp`: `retry_splicing`.

### 2.2 Rare-branch selection

The variables of `RareBranch.tla` and the code they stand for:

* `hitBits`: `afl->hit_bits`.
* `rareExp`: `afl->rare_branch_exp`.
* `blacklist` and `blSize`: the blacklist and its allocation.
* `fuzzed`: the bits of each entry's `fuzzed_branches`.
* `cur`: `queue_cur`.
* `rbFuzzing`: `afl->rb_fuzzing`.
* `shadowMode`: `afl->shadow_mode`.
* `sel` and `blWhy`: history variables, used only by the properties.

The code is modelled as follows:

* `get_lowest_hit_branch_ids` is the recursive scan `ScanFrom`/`ScanStep`, with `highest_order_bit` as `Hob`.
* `is_rb_hit_mini` is `IsRbHitMini`, with its byte-level memmove insertion (`InsertHit`, `ByteShift`).
* `Select` is the selection loop at 1517-1587: the retry with a raised exponent and the `fuzzed_branches` fallback.
* `Pass` is one pass of the pipeline. It holds the calibration outcome and the blacklist append with its doubling (`GrowBlacklist`).
* `EndPass` covers the shadow re-run.
* `Hit` is the executor raising a `hit_bits` counter.

### 2.3 RB trim

In `RBTrim.tla` a byte is its index in the queue testcase. `buf` is the cached testcase that `orig_in` points to, and `len` is `fuzz_one_original`'s `len`. The other variables are `trim_case_rb`'s locals (`inLen`, `lenP2`, `removeLen`, `removePos`) and the splice state (`scratch`, `head`, `splices`).

* `TrimExec` is one candidate: copy the window out, execute, and adopt the candidate with the `memmove` (`ShiftLeft`) if the branch is still hit.
* `TrimNextPass` halves `remove_len`. `TrimDone` returns.
* `UseTrim` is the caller's adoption at 1688-1706.
* `Splice` is the splice clean-up (4970-4975) and one splice.
* `ReRun` is the shadow re-run.
* `StartCall`/`EndCall` bracket a `fuzz_one` call. With `CacheKeeps` they re-read the cached buffer.

### 2.4 Deterministic stage

`Deterministic.tla` keeps the control of 1843-3236 and abstracts the bytes to `Target`'s model of the target. The target is fixed in `Init`: a key of bytes the rare branch tests, and tokens the program parses as units. `mode` is one of four runs: vanilla AFL, rare-branch with mask calibration, rare-branch with `use_branch_mask = 0`, or the shadow pass.

* `Flip1Step` runs one FLIP_BIT candidate. It includes the auto-extra induction on the last bit of each byte (`Induce`, `Collect`, `Commit`), along with its EOF branch at 1916. `Flip1Done` commits the final token.
* `EffInit` allocates `eff_map`. `Flip8Step` is the walking byte. It includes the effector-map update and, when `rb_fuzzing && !shadow_mode && use_branch_mask > 0`, the OVERWRITE bit. `Flip8Done` applies the density rule at 2076-2087.
* `RbRem8Step` and `RbAdd8Step` add DELETE and INSERT. `RbAdd8Done` copies the mask to `orig_branch_mask`. `AfterCalib` is the `rb_skip_deterministic` jump.
* `Flip2Step` and `Flip4Step` are ungated.
* `WindowStep(st, w, maskTest)` is the shared shape of flip16/32, arith8/16/32 and interest8/16/32. It skips a window that the effector map says is dead, or that the gate `maskTest` rejects for the mask. flip16 is instantiated with `~RbFuzzing`, as the code at 2267 does.
* `UserOverwriteStep`, `AutoOverwriteStep` (the recursive `OverwriteRun`) and `UserInsertStep` are the extras stages.
* `StageDone` moves from one stage to the next, following the code's order and its skips (`After`).
* `Abandon` is the `goto abandon_entry` of any candidate.

### 2.5 Bandits and ADWIN

An `adwin_t` in `Adwin.tla` is `[nodes, W, sum, last, numAdd]`. `nodes[1]` is
`head` and the last node `tail`. Each node is its `sum[0 .. size-1]`, oldest
first. A window of node `j` holds `1 << NodeExp(a, j)` rewards.

* `AddElem` is `adwin_add_elem`: the head window, `NormalizeBuckets` (the
  recursive `NormalizeFrom`, which folds the two oldest windows of a full
  node into the next node and appends a node with `AddTailNode`), the
  `ADWIN_DROP_INTERVAL` counter and `DropLastTillIdentical`.
* `DropLastTillIdentical` and `DropOutcomes` are the `while (1)` loop. `Scan`
  lists the windows the inner loops visit, tail to head. `CheckPoints` are the
  windows where `adwin_should_drop` is asked. `should_drop` compares doubles
  from `log` and `sqrt`, so at each pass the model lets it hold or not. A drop
  is `ExpireLastWindow`, or `AdwinInit` with `ADWIN_ADAPTIVE_RESETTING`.
  `AddElem` therefore returns the set of adwins the call can leave.

`Bandit.tla` has one variable per piece of state the havoc loop shares
with the bandit:

* `alg` is the compiled-in `MUT_ALG`. The config lets it be any of the nine.
* `mask` is the `mask[]` of 3507-3530, restricted to the arms it can set
  (`HavocMask`), plus `FLIP_BIT1`, which is always legal.
* `bnd` holds `num_selected` (`pulls` for Exp3), `total_rewards`, `t`
  (`time_step`) and one adwin per arm.
* `hist` is a history variable: the rewards fed to each ADWIN-TS arm.
* `lastExec` is a history variable: the case the last iteration executed.

The actions:

* `StartHavoc` is a `fuzz_one` call that reaches havoc with some
  `extras_cnt`, `ready_for_splicing_count` and `len`.
* `HavocIter` is one iteration. `SelectArm` is the set of arms the
  algorithm's `select_arm` can return. The indices and samples are doubles,
  so within the code's own rules (the first unseen legal arm for UCB/KL-UCB,
  an unpulled arm for DBE, round robin for the first `n_arms` Exp3-PP calls,
  arm 0 when all are masked) the choice is free. `Selected` is what Exp3's
  `select_arm` counts. `ExpInvalid` is the jump to `L_EXP_INVALID_2`. The
  outcome is an abandon (reward 0, the stage ends), a new path (reward 1) or
  nothing new (reward 0). `AddReward` is `ADD_REWARD(MUT_ALG)`.
* `HavocEnd` is the end of the loop.

## 3. Runs

| Run | Expect | What it shows |
|-----|--------|---------------|
| `pure_reference` | pass | Whenever the scan stays inside `position_map`, the query returns exactly the windows whose bytes all carry the flag. This holds for every mask of up to 5 bytes (`ChooserMatchesReference`). On 1-byte windows `could_be_bitflip` holds exactly for the flips' xors (`BitflipMatchesReference`). On 1- and 2-byte windows, `could_be_arith` holds exactly for the values arith 8/16 try, with the `u8`/`u16` wrap (`ArithMatchesReference`). `could_be_interest` holds exactly for the values interest 8, and with `check_le` the little-endian interest 16, tried (`InterestMatchesReference`). |
| `posn_map_overflow` | violation | A flagged run shorter than the window wraps the `u32` bound at 1351. The scan then writes far past `position_map`. |
| `havoc_full_restore` | pass | With all 14 operator families and the full restore, the mask follows its bytes across clones, inserts and deletes. Every byte-window overwrite and every delete is allowed by its byte's calibrated flags (`ByteWritesRespectMask`). `FLIP_BIT1` is not covered; it breaks the rule (see the findings below). |
| `havoc_opt_restore` | pass | The reverse replay gives back `in_buf` whenever no stacked loop broke early. The mask always covers the buffer. |
| `havoc_splice` | pass | Over two splice cycles, the fresh `len + 1`-byte mask covers the spliced buffer. The new mask is `alloc_branch_mask(len + 1)` with `MIN(split_at, temp_len + 1)` bytes copied from the old one (5019). |
| `opt_restore_replay` | violation | A stacked loop can break before filling its slots. The restore then replays `mutation_pos[0]`, which was never written (4820). |
| `rarebranch_select` | pass | The selector returns exactly the branches of the lowest hit class, and `rare_branch_exp` is that class plus one. The chosen branch is one the entry hits and is among the rarest. The blacklist and its `-1` fit its allocation across doublings. |
| `rbtrim` | pass | Every buffer `trim_case_rb` adopts still hits the branch, and the trim loop always returns (liveness). |
| `rbtrim_splice` | violation | `trim_case_rb` shifts the cached testcase in place (1281). The splice clean-up then reads `orig_in` at `queue_cur->len` and fuzzes bytes that are not the entry's. |
| `det_stage` | pass | In all four modes, the sequence of flip8/rbrem8/rbadd8 steps implements `MaskCalibration`: the refinement `Calibration`. Every token handed to `maybe_add_auto` is a maximal run of bytes whose last-bit flip changes the checksum. Once flip1 has run to its end, every such run of `MIN_AUTO_EXTRA .. MAX_AUTO_EXTRA` bytes has been offered. The dictionary overwrite stages never restore `out_buf` between the extras of one position, and test redundancy with `memcmp` against the clobbered buffer. Even so, every distinct buffer that an eligible extra would produce, other than the input, is executed (`OverwriteExecutesDistinct`). |
| `bandit` | pass | For every `MUT_ALG`, over five `select_arm` calls spread across havoc stages with varying masks, no masked case is executed (`ExecutedLegal`). Each iteration counts exactly one pull, whichever exit it takes, and `t` counts the calls (`PullsCounted`). Every ADWIN-TS arm's adwin summarises exactly its last `W` rewards: bucket sizes, bucket sums, `sum`, `last_node_idx` and `ADWIN_M` (`AdwinSummarisesWindow`), so the `u64` Beta parameter at 738 never wraps. The per-arm windows refine `AdwinWindow` (`AdwinRefinement`). |
| `flip16_mask_gate` | violation | bitflip 16/8 tests the mask under `if (!afl->rb_fuzzing)` (2267), the inverse of every other gated stage. In rare-branch mode it flips byte pairs the calibration found to break the branch. |

Each property of a passing run is broken by a mutant in `PROJECT.json`, which miscodes one mapped definition. Examples:

* a dropped `MAX_FILE` check;
* a mask memmove that loses the sentinel;
* a forward replay;
* a blacklist that doubles one append too late;
* a trim pass that never halves;
* an induction without its EOF branch;
* a calibration that copies the mask before rbadd8 is finished.

### Findings stated but not run

These disagreements were met while modelling. They are recorded here, but they have no run of their own, so that the runs stay within a small budget:

* **`BlacklistJustified`** (`RareBranch.tla`). With `run_with_shadow`, the shadow pass runs the blacklist append at 2147 without building a mask. `successful_branch_tries` is then 0, and the branch is blacklisted although no calibration tried it.
* **`SelectsRarestUnfuzzed`** (`RareBranch.tla`). The insertion loop of `is_rb_hit_mini` at 1162 has no `break`. Having shifted the list, it goes on comparing against the shifted copy, so the list is not "in decreasing order of rarity".
* **The INSERT sentinel.** Spec 4.B says position `len` always has INSERT set. The code sets it only when the insertion at the end hits the branch (rbadd8, 2124-2140). `MaskCalibration` follows the code.
* **`WritesRespectMask` and `FLIP_BIT1`** (`Havoc.tla`, `MCHavocFlipBit.cfg`). The comment above `get_random_modifiable_posn` (1321-1323) and spec section 8 say havoc only modifies bytes inside the branch mask. `FLIP_BIT1` (3817) asks for a 1-byte window and adds `rand_below(8)` (1375). `FLIP_BIT` then reads the result as a bit index and flips byte `pos >> 3`, which the mask was never asked about. With mask `<<0, 1, 4>>`, the scan returns window 1, `pos = 1`, and a bit of byte 0 is flipped, although byte 0 lacks OVERWRITE. `ByteWritesRespectMask`, which `havoc_full_restore` checks, is the same rule with `FLIP_BIT1` left out.
* **`ByteWritesRespectMask` under the optimized restore.** The optimized restore (`len >= MIN_LEN_FOR_OPTIMIZED_RESTORE`, 4815) never copies `orig_branch_mask` back. After a clone, the shifted mask lets a later overwrite hit a byte whose calibrated flags forbid it. Spec 4.B says `branch_mask == orig_branch_mask` after a restore. `MCHavocOpt.cfg` with `ByteWritesRespectMask` added as an invariant shows the trace.
* **The Exp3 masked pick.** Spec 4.E says a masked Exp3 pick takes a no-op path on which the reward is not applied and `t` does not advance. In the code, `exppp_select_arm`/`expix_select_arm` have already incremented `t` and `pulls` (190, 201), and `L_EXP_INVALID_2` (4922) applies `ADD_REWARD(MUT_ALG)(mut_bandit, selected_case, 0)`. `Bandit.tla` follows the code. The masked case is still never executed, which `ExecutedLegal` checks.
* **`BitflipSound`** (`MCReference.tla`, `MCReferenceBitflip.cfg`). The comment says `could_be_bitflip` recognises "a product of deterministic bit flips with the lengths and stepovers attempted by afl-fuzz". It accepts any contiguous run of 1, 2 or 4 set bits (859). But `FLIP_BIT` walks each byte from its top bit, so in a little-endian 2-byte value a walking flip across a byte boundary sets bit 0 of the low byte and bit 15. TLC finds `xor_val = 0x180` accepted, although no flip produces it. In arith 16 (2493), the word `0x00e0` plus 32 gives xor `0x1e0`, so that value is skipped although no stage ran it. Interest 16 skips such values too (2838).
* **The shadow re-run carry-overs.** The shadow re-run (`re_run`, 1731) jumps back without restoring `in_buf`/`len` after `trim_case_rb`, and without resetting `a_len`/`eff_cnt` (declared once at 1412/1417).

## 4. Bounds and why they are enough

* `UWidth = 16`: the `u32` wrap lands at `2^16 - k`, far beyond every buffer, and that is all the scan depends on.
* Havoc:
  * `MaxFile = 4` with one-byte blocks, so clones reach `MAX_FILE` within two steps.
  * `L = 2` bytes, with every calibrated mask.
  * Stacking of 1 or 2, the least that makes the replay order matter.
  * One doubling of `stage_max`, so two iterations share the slots.
  * The splice run uses `L = 4` (the code's minimum) and two cycles.
* RareBranch:
  * Three branches and two entries whose traces overlap.
  * Hit counts up to 4, which spans three `highest_order_bit` classes.
  * Starting exponents 1 and 3, so that both the retry and the first try succeed.
  * `BlInit = 2` with three appends, so the blacklist doubles.
* RBTrim:
  * Entries of 4 and 9 bytes. With `TRIM_MIN_BYTES = 4`, the 9-byte entry takes two passes and the 4-byte one none.
  * Keys at the start, in the middle, split, and on the last byte.
  * Two splices and two calls.
* Deterministic:
  * The 6-byte input `<<7,1,2,3,9,4>>`.
  * Keys empty, in the middle, or on the last byte, so that rbadd8's insertion at the end can hit.
  * Tokens of 3 and 5 bytes, one of which ends at EOF.
  * Two random insert bytes.
  * `EFF_MAP_SCALE2`, `EFF_MIN_LEN`, `EFF_MAX_PERC` and `MAX_AUTO_EXTRA` scaled down to 1, 4, 50% and 4. With these values, the effector map has several blocks, the density memset fires, and a token can hit the `MAX_AUTO_EXTRA` cap on a 6-byte input.
  * Three user extras with `max_det_extras = 1`, so the random skip of extras applies. One of them equals the buffer after a shorter extra has been written, so the skip on the clobbered buffer is exercised.

* Bandit:
  * All nine `MUT_ALG`s in one run, five arms and five `select_arm` calls, with stages of at most three iterations.
  * Masks from `extras_cnt` in {0,1}, `ready_for_splicing_count` in {1,2} and `len` in {1,3} with `MAX_FILE = 4`. This gives the empty mask, the full splice mask and the extras mask.
  * `ADWIN_M = 2`, `ADWIN_MIN_ELEM_TO_START_DROP = 4`, `ADWIN_MIN_ELEM_TO_CHECK = 2` and `ADWIN_DROP_INTERVAL = 2`. The header holding the real values is not in the repository. With these values, five rewards to one arm fold buckets into further nodes, and a drop at `W = 4` expires a whole tail node.

* Reference (`MCReference`):
  * Position queries: as before, every mask of up to 5 bytes with block sizes of 1 to 4 bytes.
  * Predicates: every `xor_val` of one byte, and every old/new pair of one byte, for both values of `check_le`.
  * For 2-byte windows: every new value, and the old values `0x00e0` and `0xff00`. These are where the little-endian and big-endian arith 16 carry into the other byte, and where a run of set bits crosses the byte boundary.
  * `ARITH_MAX = 35` and AFL's `interesting_8`/`interesting_16` lists, which are in `config.h`, outside the repository.

## 5. Fairness

`Havoc`, `RareBranch`, `Bandit` and `Deterministic` check safety only. `Deterministic`'s stages are counted `for` loops, so their termination says nothing about the code and is not checked. `RBTrim` assumes weak fairness on the trim steps. The trim is a sequential loop in one thread. The only other thing that can happen at those points is an abandon or an end of the call, which is itself a step. A loop that stays enabled therefore does take its next step. `CHECK_DEADLOCK FALSE` is set where the modelled call really stops: `fuzz_one` returns, or the stage hands over to havoc.

## 6. Not modelled

* **The 4-byte windows of A.** `Redundancy` translates the `blen = 4` branches of `could_be_arith` and `could_be_interest`, but `MCReference` does not evaluate them: a `u32` exceeds TLC's integers. `Deterministic` still does not call the predicates. `WindowStep` keeps the window-level control (the effector-map skip, the mask gate and the abandon) and treats a window's candidates as one step.
* **The doubles of E.** The UCB/KL-UCB indices, the Beta samples, DTS/DBE's discounting of `total_rewards`/`dis_num_selected` by `gamma`, and Exp3's weights, trusts and losses are not modelled. `SelectArm` chooses among the arms the code's control allows. No property is about their values.
* **The batch-size bandit (`BATCHSIZE_BANDIT`) and `MOPTWISE_BANDIT_FINECOARSE`.** They are other compile-time configurations. The havoc model picks `use_stacking` freely.
* **The stage-length doubling in `Bandit`.** `stage_max *= 2` on a new path only lengthens a stage. `Bandit` ends a stage after at most `StageMax` iterations, and `Havoc` models the doubling.
* **`ADWIN_M = 1`.** With one window per node, normalisation leaves empty middle nodes, and `adwin_expire_last_window` (286) would read `sum[0]` of an empty tail. This is listed as a hazard and not run, because the value of `ADWIN_M` is not in the repository.
* **The rest of J.** Calibration, `trim_case` and `calculate_score` are external. The driver's composition of the components is not a module. Its parts are modelled in `RareBranch` and `RBTrim`.
* **K, MOpt.** It is unreachable, because `fuzz_one` returns `fuzz_one_original(afl)` on its first line.
* **Custom mutators and the `ATOMIZE_CASES` mapping.** No custom mutator is loaded by default, and the havoc model picks the case directly.
