---------------------------- MODULE MCReference -----------------------------
(***************************************************************************)
(* Checks the pure helpers of afl-fuzz-one.c against reference            *)
(* definitions over bounded inputs: get_random_modifiable_posn over every *)
(* mask of up to MaxMapLen bytes, every modification type and the          *)
(* num_to_modify values the havoc stage passes (8 * block length); and the *)
(* redundancy predicates over the windows of 1 and 2 bytes their callers   *)
(* pass them: every xor_val, and every new_val for each old_val.  The      *)
(* state is one input.                                                     *)
(***************************************************************************)
EXTENDS BranchMask, Redundancy, FiniteSetsExt

CONSTANTS
  MaxMapLen, NumsToModify,  \* position queries
  FlipBlens,                \* window widths given to could_be_bitflip
  PredBlens,                \* window widths given to could_be_arith/interest
  OldWords                  \* old_val of the 2-byte windows

ASSUME /\ MaxMapLen \in Nat \ {0} /\ NumsToModify \subseteq Nat
       /\ FlipBlens \subseteq {1, 2} /\ PredBlens \subseteq {1, 2}
       /\ OldWords \subseteq 0 .. 65535

\* A query: map length, flag, num_to_modify and the mask bytes.  Only the
\* asked flag matters to the scan, so mask bytes are 0 or that flag.
Queries ==
  { q \in [len : 1 .. MaxMapLen, type : {OVERWRITE, DELETE}, num : NumsToModify,
           mask : UNION { [1 .. n + 1 -> {0, 1, 2}] : n \in 1 .. MaxMapLen }] :
      /\ Len(q.mask) = q.len + 1
      /\ \A p \in 1 .. q.len + 1 : q.mask[p] \in {0, q.type} }

Olds(blen) == IF blen = 1 THEN 0 .. 255 ELSE OldWords

\* The arith and interest arguments of the windows of blen bytes: every
\* new_val the window can hold.
PredInputs(b) ==
  [kind : {"arith"}, blen : {b}, o : Olds(b), n : 0 .. 256^b - 1]
  \cup [kind : {"interest"}, blen : {b}, o : Olds(b), n : 0 .. 256^b - 1, le : BOOLEAN]

PosnInputs == { [kind |-> "posn", q |-> x] : x \in Queries }

Inputs ==
  PosnInputs
  \cup UNION { [kind : {"flip"}, blen : {b}, x : 0 .. 256^b - 1] : b \in FlipBlens }
  \cup UNION { PredInputs(b) : b \in PredBlens }

VARIABLE arg

Init == arg \in Inputs

\* The havoc stage asks for a position again, with fresh arguments.
Query == arg.kind = "posn" /\ arg' \in PosnInputs

\* A deterministic stage goes on to the next value of the window.
NextValue ==
  /\ arg.kind # "posn"
  /\ arg' = IF arg.kind = "flip" THEN [arg EXCEPT !.x = (@ + 1) % 256^arg.blen]
            ELSE [arg EXCEPT !.n = (@ + 1) % 256^arg.blen]

Next == Query \/ NextValue

Spec == Init /\ [][Next]_arg

TypeOK == arg \in Inputs

qry == arg.q

\* Reference: the first bytes of windows of NumBytes(num) bytes, lying
\* inside the map, all of whose bytes carry the flag.
SafeWindows(num, type, mapLen, mask) ==
  { j \in 0 .. mapLen - NumBytes(num) :
      \A k \in j .. j + NumBytes(num) - 1 : Flagged(mask, type, k) }

(***************************************************************************)
(* For block sizes of at least one byte, whenever the scan of              *)
(* get_random_modifiable_posn stays inside position_map, the positions it  *)
(* can return are exactly the windows of the block size that lie in the   *)
(* buffer and whose every byte carries the flag, and NoPosn when there is  *)
(* none.                                                                   *)
(***************************************************************************)
ChooserMatchesReference ==
  arg.kind = "posn" /\ ~PosnMapOverflows(qry.num, qry.type, qry.len, qry.mask) =>
    ModifiablePosns(qry.num, qry.type, qry.len, qry.mask) =
      IF SafeWindows(qry.num, qry.type, qry.len, qry.mask) = {} THEN {NoPosn}
      ELSE SafeWindows(qry.num, qry.type, qry.len, qry.mask)

(***************************************************************************)
(* The scan of get_random_modifiable_posn never appends more than the      *)
(* map_len + 1 entries position_map has room for.                         *)
(***************************************************************************)
NoPosnMapOverflow == arg.kind = "posn" => ~PosnMapOverflows(qry.num, qry.type, qry.len, qry.mask)

(***************************************************************************)
(* References for the redundancy predicates: the window values the earlier *)
(* deterministic stages try.  FLIP_BIT(_ar, _b) flips bit 128 >> (_b & 7)  *)
(* of byte _b >> 3, so the walking flips of 1, 2 and 4 bits go from the    *)
(* top bit of a byte down and then on to the top bit of the next byte;     *)
(* ValueBit maps a walking position to its bit in the little-endian value. *)
(* The 8-, 16- and 32-bit flips step one byte.  Only flips that lie wholly *)
(* inside the window leave the bytes around it as they are.                *)
(***************************************************************************)
ValueBit(b) == 8 * (b \div 8) + 7 - (b % 8)

FlipXors(blen) ==
  LET Walk(w)    == { SumSet({ 2^ValueBit(b + k) : k \in 0 .. w - 1 }) : b \in 0 .. 8 * blen - w }
      Aligned(w) == { (2^w - 1) * 256^i : i \in 0 .. blen - w \div 8 }
  IN  UNION { Walk(w) : w \in {1, 2, 4} }
      \cup UNION { Aligned(w) : w \in { w8 \in {8, 16, 32} : w8 <= 8 * blen } }

BitflipRef(x, blen) == x = 0 \/ x \in FlipXors(blen)

\* arith 8 on each byte of the window and, for two bytes, arith 16 on the
\* word, little- and big-endian, adding or subtracting 1 .. ARITH_MAX.
ArithRef(o, n, blen) ==
  \/ n = o
  \/ \E j \in 1 .. ArithMax, sg \in {-1, 1} :
       \/ \E i \in 0 .. blen - 1 : n = SetByte(o, i, (Byte(o, i) + sg * j) % 256)
       \/ blen = 2 /\ n = (o + sg * j) % 65536
       \/ blen = 2 /\ n = Swap16((Swap16(o) + sg * j) % 65536)

\* interesting 8 on each byte of the window and, when the caller has
\* already run the little-endian interesting 16 on it, that value.
InterestRef(o, n, blen, le) ==
  \/ n = o
  \/ \E i \in 0 .. blen - 1, v \in Interesting8 : n = SetByte(o, i, v)
  \/ blen = 2 /\ le /\ n \in Interesting16

(***************************************************************************)
(* On a 1-byte window, could_be_bitflip(xor_val) holds exactly when        *)
(* xor_val is zero or the xor of a walking 1-, 2- or 4-bit flip or of the  *)
(* byte flip: arith 8 (2396) and interest 8 (2765) skip exactly the values *)
(* the bit flips already ran.                                              *)
(***************************************************************************)
BitflipMatchesReference ==
  arg.kind = "flip" /\ arg.blen = 1 => (CouldBeBitflip(arg.x) <=> BitflipRef(arg.x, 1))

(***************************************************************************)
(* could_be_bitflip(xor_val) holds only for values some bit flip stage     *)
(* produced in the window ("could be a product of deterministic bit flips  *)
(* with the lengths and stepovers attempted by afl-fuzz"), so that arith   *)
(* 16 (2493-2554) and interest 16 (2838, 2861) never skip a value no stage *)
(* ran.                                                                    *)
(***************************************************************************)
BitflipSound ==
  arg.kind = "flip" => (CouldBeBitflip(arg.x) => BitflipRef(arg.x, arg.blen))

(***************************************************************************)
(* could_be_arith(old_val, new_val, blen) holds exactly when new_val is    *)
(* old_val or a value arith 8 or arith 16 tries on the window, with the    *)
(* u8/u16 wrap: interest 8 and interest 16 skip exactly those.             *)
(***************************************************************************)
ArithMatchesReference ==
  arg.kind = "arith" =>
    (CouldBeArith(arg.o, arg.n, arg.blen) <=> ArithRef(arg.o, arg.n, arg.blen))

(***************************************************************************)
(* could_be_interest(old_val, new_val, blen, check_le) holds exactly when  *)
(* new_val is old_val, an interesting 8 value on one byte, or, with        *)
(* check_le, the little-endian interesting 16 value: the big-endian        *)
(* interest 16 (2861) skips exactly what the earlier runs tried.           *)
(***************************************************************************)
InterestMatchesReference ==
  arg.kind = "interest" =>
    (CouldBeInterest(arg.o, arg.n, arg.blen, arg.le) <=> InterestRef(arg.o, arg.n, arg.blen, arg.le))

=============================================================================
