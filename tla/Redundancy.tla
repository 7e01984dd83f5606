----------------------------- MODULE Redundancy -----------------------------
(***************************************************************************)
(* The redundancy predicates of the deterministic stage (afl-fuzz-one.c    *)
(* 842-1052): could_be_bitflip, could_be_arith and could_be_interest.  A  *)
(* value is the unsigned integer the code compares, read little-endian     *)
(* from a window of blen bytes, as a natural number below 256^blen.        *)
(* Shifts, masks and casts are the arithmetic they stand for: x >> 8*i     *)
(* keeps (x \div 256^i), a cast to u8/u16/u32 is % 2^8/2^16/2^32.          *)
(***************************************************************************)
EXTENDS Integers

CONSTANTS
  ArithMax,        \* ARITH_MAX
  Interesting8,    \* (u8)interesting_8[j], as values 0 .. 255
  Interesting16,   \* (u16)interesting_16[j], as values 0 .. 65535
  Interesting32    \* (u32)interesting_32[j]

ASSUME /\ ArithMax \in Nat
       /\ Interesting8 \subseteq 0 .. 255 /\ Interesting16 \subseteq 0 .. 65535

\* (u8)(x >> (8 * i)) and (u16)(x >> (16 * i)).
Byte(x, i) == (x \div 256^i) % 256
Word(x, i) == (x \div 65536^i) % 65536

\* (x & ~(0xff << (i * 8))) | (b << (i * 8)), and the same for a u16 at
\* byte offset i.
SetByte(x, i, b) == x - Byte(x, i) * 256^i + b * 256^i
SetWord(x, i, w) == x - ((x \div 256^i) % 65536) * 256^i + w * 256^i

\* SWAP16 and SWAP32 of a u16 and a u32.
Swap16(x) == Byte(x, 0) * 256 + Byte(x, 1)
Swap32(x) == Byte(x, 0) * 2^24 + Byte(x, 1) * 2^16 + Byte(x, 2) * 256 + Byte(x, 3)

\* (A variant that compares the differences without the u8/u16 cast.)
NearUncast(a, b, m) == a - b <= ArithMax \/ b - a <= ArithMax

\* |(u8)(a - b)| style tests: a - b or b - a, wrapped to m, is at most ARITH_MAX.
Near(a, b, m) == (a - b) % m <= ArithMax \/ (b - a) % m <= ArithMax

\* The loop that shifts xor_val right until its lowest bit is set:
\* <<xor_val after the loop, sh>>.
RECURSIVE ShiftOut(_, _)
ShiftOut(v, sh) == IF v % 2 = 1 THEN <<v, sh>> ELSE ShiftOut(v \div 2, sh + 1)

\* (A variant that takes 7 for the 4-bit pattern.)
CouldBeBitflipSeven(x) ==
  x = 0 \/
  LET v == ShiftOut(x, 0)[1]  sh == ShiftOut(x, 0)[2]
  IN  \/ v \in {1, 3, 7}
      \/ sh % 8 = 0 /\ v \in {255, 65535}

(***************************************************************************)
(* could_be_bitflip(xor_val): zero, or a run of 1, 2 or 4 set bits at any  *)
(* shift, or of 8, 16 or 32 set bits at a shift divisible by 8.  The last *)
(* disjunct is 0xffffffff, written so that it is only evaluated for values *)
(* wider than 16 bits.                                                     *)
(***************************************************************************)
CouldBeBitflip(x) ==
  x = 0 \/
  LET v == ShiftOut(x, 0)[1]  sh == ShiftOut(x, 0)[2]
  IN  \/ v \in {1, 3, 15}
      \/ /\ sh % 8 = 0
         /\ \/ v \in {255, 65535}
            \/ v > 65535 /\ v + 1 = 2^32

\* The bytes, and the u16 words, on which old_val and new_val differ.
DiffBytes(o, n, blen) == { i \in 0 .. blen - 1 : Byte(o, i) # Byte(n, i) }
DiffWords(o, n, blen) == { i \in 0 .. blen \div 2 - 1 : Word(o, i) # Word(n, i) }

(***************************************************************************)
(* could_be_arith(old_val, new_val, blen): equal values; one differing     *)
(* byte within ARITH_MAX (wrapping in u8); for blen > 1 one differing      *)
(* word within ARITH_MAX, little- or big-endian; for blen = 4 the whole    *)
(* dword within ARITH_MAX, little- or big-endian.                          *)
(***************************************************************************)
CouldBeArith(o, n, blen) ==
  \/ o = n
  \/ \E i \in DiffBytes(o, n, blen) :
       DiffBytes(o, n, blen) = {i} /\ Near(Byte(o, i), Byte(n, i), 256)
  \/ /\ blen # 1
     /\ \E i \in DiffWords(o, n, blen) :
          /\ DiffWords(o, n, blen) = {i}
          /\ \/ Near(Word(o, i), Word(n, i), 65536)
             \/ Near(Swap16(Word(o, i)), Swap16(Word(n, i)), 65536)
  \/ /\ blen = 4
     /\ Near(o, n, 2^32) \/ Near(Swap32(o), Swap32(n), 2^32)

\* (A variant without the bail-out for blen = 2 and a clear check_le.)
CouldBeInterestNoBail(o, n, blen, checkLe) ==
  \/ o = n
  \/ \E i \in 0 .. blen - 1, v \in Interesting8 : n = SetByte(o, i, v)
  \/ \E i \in 0 .. blen - 2, v \in Interesting16 : n = SetWord(o, i, v)

(***************************************************************************)
(* could_be_interest(old_val, new_val, blen, check_le): equal values; one  *)
(* byte of old_val overwritten by an interesting_8 value; unless blen = 2  *)
(* and check_le is clear, a u16 at a byte offset below blen - 1 replaced   *)
(* by an interesting_16 value (and, for blen > 2, by its SWAP16); for      *)
(* blen = 4 and check_le, an interesting_32 value.                         *)
(***************************************************************************)
CouldBeInterest(o, n, blen, checkLe) ==
  \/ o = n
  \/ \E i \in 0 .. blen - 1, v \in Interesting8 : n = SetByte(o, i, v)
  \/ /\ ~(blen = 2 /\ ~checkLe)
     /\ \/ \E i \in 0 .. blen - 2, v \in Interesting16 :
             \/ n = SetWord(o, i, v)
             \/ blen > 2 /\ n = SetWord(o, i, Swap16(v))
        \/ blen = 4 /\ checkLe /\ n \in Interesting32
=============================================================================
