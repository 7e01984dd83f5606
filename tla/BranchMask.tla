----------------------------- MODULE BranchMask -----------------------------
(***************************************************************************)
(* The per-byte branch mask of rare-branch fuzzing and the two position    *)
(* queries the havoc stage makes through it (afl-fuzz-one.c).              *)
(*                                                                         *)
(* A mask is a TLA+ sequence: mask[p + 1] is the C byte branch_mask[p].    *)
(* Each byte is a 3-bit set of flags: OVERWRITE = 1, DELETE = 2 and        *)
(* INSERT = 4 (insert before this byte is safe).  A buffer of n bytes has  *)
(* a mask of n + 1 bytes; the last one says whether appending is safe.     *)
(***************************************************************************)
EXTENDS Integers, Sequences, FiniteSets, Bitwise

OVERWRITE == 1
DELETE    == 2
INSERT    == 4

Flags == 0 .. 7

(***************************************************************************)
(* The width of C's u32.  TLC's integers are 32-bit signed, so a model     *)
(* gives UWidth a smaller value (16): the wrap below zero then lands near  *)
(* 2^16 instead of 2^32, far beyond every buffer the model holds, which    *)
(* is the only thing the scan's behaviour depends on.                      *)
(***************************************************************************)
CONSTANT UWidth

ASSUME UWidth \in 8 .. 30

\* C unsigned arithmetic modulo 2^UWidth.
U32(x) == x % 2^UWidth

\* The sentinel get_random_modifiable_posn returns when nothing is legal
\* (0xffffffff).
NoPosn == 2^UWidth - 1

HasFlag(m, f) == (m & f) # 0

(***************************************************************************)
(* alloc_branch_mask(size): every byte 7, the last one 4, NULL for 0.      *)
(***************************************************************************)
AllocBranchMask(size) ==
  [p \in 1 .. size |-> IF p = size THEN INSERT ELSE 7]

(***************************************************************************)
(* The masks the calibration at the end of the walking-byte stage can      *)
(* leave in branch_mask for an input of n bytes, when rare-branch fuzzing  *)
(* with use_branch_mask > 0 and not in shadow mode.  The mask starts as    *)
(* ck_alloc zeroes; the flip8 pass sets byte i to 1 if flipping it still   *)
(* hits the branch, the rbrem8 pass adds 2 if deleting byte i still hits   *)
(* it, the rbadd8 pass adds 4 for each of the n + 1 insert positions that  *)
(* still hit it.  Which candidates hit the branch is up to the target, so  *)
(* every combination can come out; the last byte gets only the insert bit. *)
(***************************************************************************)
CalibratedMasks(n) ==
  { m \in [1 .. n + 1 -> Flags] : m[n + 1] \in {0, INSERT} }

(***************************************************************************)
(* The mask the driver allocates when the rare-branch mask is not built    *)
(* (vanilla mode, shadow pass, or use_branch_mask = 0).                    *)
(***************************************************************************)
PermissiveMask(n) == AllocBranchMask(n + 1)

(***************************************************************************)
(* get_random_modifiable_posn(num_to_modify, mod_type, map_len, mask, pm). *)
(* The scan walks bytes 0 .. map_len - 1 and, for every maximal run        *)
(* [s, e) of bytes carrying mod_type, appends j = s, s + 1, ... while      *)
(* j < e - num_bytes + 1, with that bound computed in u32: a run that ends *)
(* before index num_bytes - 1 makes the bound wrap to nearly 2^32.  A run  *)
(* is closed by the first byte without the flag, or by the end of the map. *)
(***************************************************************************)
NumBytes(numToModify) == IF numToModify \div 8 > 1 THEN numToModify \div 8 ELSE 1

\* Miscoding of the test as "if (branch_mask[i])", any flag at all.
FlaggedAny(mask, modType, p) == mask[p + 1] # 0

Flagged(mask, modType, p) == HasFlag(mask[p + 1], modType)

\* Miscoding of the scan that forgets the trailing "if (!in_0_block)" block:
\* a run reaching the end of the map is never added.
RunsNoTail(mask, modType, mapLen) ==
  { r \in (0 .. mapLen - 1) \X (1 .. mapLen - 1) :
      /\ r[1] < r[2]
      /\ \A p \in r[1] .. r[2] - 1 : Flagged(mask, modType, p)
      /\ r[1] = 0 \/ ~Flagged(mask, modType, r[1] - 1)
      /\ ~Flagged(mask, modType, r[2]) }

\* The maximal runs <<s, e>> of flagged bytes among 0 .. mapLen - 1.
Runs(mask, modType, mapLen) ==
  { r \in (0 .. mapLen - 1) \X (1 .. mapLen) :
      LET s == r[1]  e == r[2] IN
      /\ s < e
      /\ \A p \in s .. e - 1 : Flagged(mask, modType, p)
      /\ s = 0 \/ ~Flagged(mask, modType, s - 1)
      /\ e = mapLen \/ ~Flagged(mask, modType, e) }

\* The exclusive bound of the inner j loop, u32 as the code computes it.
RunBound(r, nb) == U32(r[2] - nb + 1)

\* How many entries the scan appends for one run.
RunCount(r, nb) == IF RunBound(r, nb) > r[1] THEN RunBound(r, nb) - r[1] ELSE 0

RECURSIVE SumCounts(_, _)
SumCounts(rs, nb) ==
  IF rs = {} THEN 0
  ELSE LET r == CHOOSE x \in rs : TRUE
       IN  RunCount(r, nb) + SumCounts(rs \ {r}, nb)

\* Number of entries written into position_map.
PosnMapLen(numToModify, modType, mapLen, mask) ==
  SumCounts(Runs(mask, modType, mapLen), NumBytes(numToModify))

(***************************************************************************)
(* position_map is allocated with room for map_len + 1 entries (it is      *)
(* ck_alloc'ed / ck_realloc'ed to sizeof(u32) * (temp_len + 1)).  A scan  *)
(* that appends more writes past it: with a wrapped bound it runs for     *)
(* about 2^32 iterations and the process dies.                            *)
(***************************************************************************)
PosnMapOverflows(numToModify, modType, mapLen, mask) ==
  PosnMapLen(numToModify, modType, mapLen, mask) > mapLen + 1

\* The entries of position_map, when it does not overflow.
PosnMapEntries(numToModify, modType, mapLen, mask) ==
  UNION { r[1] .. RunBound(r, NumBytes(numToModify)) - 1 :
            r \in Runs(mask, modType, mapLen) }

(***************************************************************************)
(* The values get_random_modifiable_posn can return when the scan stays    *)
(* inside position_map: a random entry, or, for num_to_modify < 8, a       *)
(* random entry plus rand_below(8); NoPosn when the map is empty.          *)
(***************************************************************************)
ModifiablePosns(numToModify, modType, mapLen, mask) ==
  LET pm == PosnMapEntries(numToModify, modType, mapLen, mask) IN
  IF pm = {} THEN {NoPosn}
  ELSE IF numToModify >= 8 THEN pm
  ELSE { x + r : x \in pm, r \in 0 .. 7 }

(***************************************************************************)
(* get_random_insert_posn(map_len, mask, pm): a random i in 0 .. map_len   *)
(* whose byte carries INSERT; map_len itself when there is none.           *)
(***************************************************************************)
InsertPosns(mapLen, mask) ==
  LET pm == { i \in 0 .. mapLen : HasFlag(mask[i + 1], INSERT) } IN
  IF pm = {} THEN {mapLen} ELSE pm

=============================================================================
