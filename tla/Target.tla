------------------------------- MODULE Target -------------------------------
(***************************************************************************)
(* The queue entry and the target program as the deterministic stage of    *)
(* fuzz_one_original (afl-fuzz-one.c) sees them.                           *)
(*                                                                         *)
(* Input is in_buf (= out_buf at the start of the stage), a sequence of    *)
(* byte values; position p of the C buffer is Input[p + 1].  The target is *)
(* what common_fuzz_stuff runs and what hits_branch and hash64 observe:    *)
(* it is described by a key, the set of (1-based) positions whose bytes    *)
(* the rare branch tests, and a set of tokens, intervals of positions the  *)
(* program parses as one unit.  Both live outside this repository; they    *)
(* are chosen in Init from small sets so that every outcome of a           *)
(* candidate (hit or miss, path changed or not) occurs.                    *)
(***************************************************************************)
EXTENDS Integers, Sequences, Bitwise

CONSTANTS
  Input,      \* in_buf of the queue entry
  RandBytes   \* values rand_below(afl, 256) can return

ASSUME /\ Input \in Seq(0 .. 255) /\ Len(Input) >= 1
       /\ RandBytes \subseteq 0 .. 255 /\ RandBytes # {}

L == Len(Input)

\* FLIP_BIT(_ar, _b): _ar[_b >> 3] ^= (128 >> (_b & 7)).
FlipBit(buf, b) == [buf EXCEPT ![b \div 8 + 1] = @ ^^ (128 \div 2^(b % 8))]

\* The walking-byte candidate: out_buf[stage_cur] ^= 0xFF.
FlipByte(buf, p) == [buf EXCEPT ![p + 1] = @ ^^ 255]

\* The rbrem8 candidate: tmp_buf is buf without byte p (length len - 1).
DelByte(buf, p) == SubSeq(buf, 1, p) \o SubSeq(buf, p + 2, Len(buf))

\* The rbadd8 candidate: byte v inserted before position p (length len + 1).
InsByte(buf, p, v) == SubSeq(buf, 1, p) \o <<v>> \o SubSeq(buf, p + 1, Len(buf))

\* hits_branch after running b: the branch is taken when every key byte
\* is still there with its original value.
Hits(key, b) == \A k \in key : k <= Len(b) /\ b[k] = Input[k]

(***************************************************************************)
(* hash64 of the trace bits after running b: the path records whether the  *)
(* branch was hit and which tokens no longer parse.  Two runs have the     *)
(* same checksum exactly when they take the same path.                     *)
(***************************************************************************)
Cksum(key, tokens, b) ==
  << Hits(key, b),
     {t \in tokens : \E p \in t : p > Len(b) \/ b[p] # Input[p]} >>

\* queue_cur->exec_cksum: the checksum of the unmodified entry.
ExecCksum(key, tokens) == Cksum(key, tokens, Input)
=============================================================================
