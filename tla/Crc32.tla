------------------------------- MODULE Crc32 -------------------------------
(***************************************************************************)
(* The checksum of the frames, twice: by table in the library              *)
(* (src/src/codec/crc32.ts) and bit by bit in the firmware                 *)
(* (src/firmware/boatconnect_crc32.c).                                     *)
(*                                                                         *)
(* A 32-bit word is the set of the numbers of its bits, so that exclusive  *)
(* or is symmetric difference.  Data are sequences of numbers below 256.   *)
(***************************************************************************)
EXTENDS Integers, Sequences

Ones == 0..31
Poly == {31, 30, 29, 27, 26, 24, 23, 21, 20, 19, 15, 9, 8, 5}   \* 0xEDB88320

Byte(x) == {i \in 0..7 : (x \div 2^i) % 2 = 1}
Xor(v, w) == (v \ w) \cup (w \ v)
Shift(w, n) == {i - n : i \in {j \in w : j >= n}}

\* One round of the loops over bits, the same on both sides.
Round(c) == IF 0 \in c THEN Xor(Poly, Shift(c, 1)) ELSE Shift(c, 1)

EightRounds[c \in SUBSET Ones] ==
  LET r[k \in 0..8] == IF k = 0 THEN c ELSE Round(r[k - 1]) IN r[8]

TABLE == [b \in SUBSET (0..7) |-> EightRounds[b]]

\* The loop over the bytes, from the value initial.
Loop(step, initial, data) ==
  LET crc[i \in 0..Len(data)] ==
        IF i = 0 THEN initial ELSE step[crc[i - 1]][Byte(data[i])]
  IN  crc[Len(data)]

TableStep[crc \in SUBSET Ones] ==
  [x \in SUBSET (0..7) |-> Xor(TABLE[Xor(crc, x) \cap (0..7)], Shift(crc, 8))]

crc32(data, initial) == Xor(Loop(TableStep, initial, data), Ones)

BitwiseStep[crc \in SUBSET Ones] == [x \in SUBSET (0..7) |-> EightRounds[Xor(crc, x)]]

bc_crc32(data) == Xor(Loop(BitwiseStep, Ones, data), Ones)
=============================================================================
