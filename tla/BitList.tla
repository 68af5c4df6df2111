------------------------------ MODULE BitList ------------------------------
(***************************************************************************)
(* The bit list (internal/bitlist/bitlist.go) of an attestation: bytes of  *)
(* which the last one holds, above the bits in use, a bit that marks the   *)
(* length.  Bytes are numbers; the bit operations are done by arithmetic.  *)
(***************************************************************************)
EXTENDS Integers, Sequences

CONSTANTS Sizes   \* the lengths of the lists that are made

ASSUME BitListAssumption == Sizes \subseteq Nat

VARIABLES
  bytes,    \* the list
  size,     \* history: the length it was made with
  bitsSet   \* history: the positions set and not cleared since

bitVars == <<bytes, size, bitsSet>>

\* 1 << k.
Bit(k) == <<1, 2, 4, 8, 16, 32, 64, 128, 256>>[k + 1]

HasBit(b, k) == (b \div Bit(k)) % 2 = 1

\* b | bit and b &^ bit.
Or(b, k) == IF HasBit(b, k) THEN b ELSE b + Bit(k)
AndNot(b, k) == IF HasBit(b, k) THEN b - Bit(k) ELSE b

\* The bit k of b becomes val.
Put(b, k, val) == IF val THEN Or(b, k) ELSE AndNot(b, k)

NewBitlist(n) == [i \in 1 .. (n \div 8 + 1) |-> IF i = n \div 8 + 1 THEN Bit(n % 8) ELSE 0]

\* bits.Len8: the bits needed for b.
Len8(b) == CHOOSE k \in 0 .. 8 : b < Bit(k) /\ (k = 0 \/ b >= Bit(k - 1))

BitLen(s) ==
  IF s = <<>> \/ Len8(s[Len(s)]) = 0 THEN 0
  ELSE 8 * (Len(s) - 1) + Len8(s[Len(s)]) - 1

BitAt(s, i) == i < BitLen(s) /\ HasBit(s[i \div 8 + 1], i % 8)

BitInit ==
  /\ size \in Sizes
  /\ bytes = NewBitlist(size)
  /\ bitsSet = {}

\* Mutant of SetBitAt: the position after the last one is not refused.
SetBitAtEnd(i, val) ==
  /\ bytes' = IF i > BitLen(bytes) THEN bytes
              ELSE [bytes EXCEPT ![i \div 8 + 1] = Put(@, i % 8, val)]
  /\ bitsSet' = IF val THEN bitsSet \cup {i} ELSE bitsSet \ {i}
  /\ UNCHANGED size

\* A position that is not in the list is ignored.
SetBitAt(i, val) ==
  /\ bytes' = IF i >= BitLen(bytes) THEN bytes
              ELSE [bytes EXCEPT ![i \div 8 + 1] = Put(@, i % 8, val)]
  /\ bitsSet' = IF val THEN bitsSet \cup {i} ELSE bitsSet \ {i}
  /\ UNCHANGED size

BitNext == \E i \in 0 .. size + 1, val \in BOOLEAN : SetBitAt(i, val)

BitSpec == BitInit /\ [][BitNext]_bitVars

-----------------------------------------------------------------------------
(* Properties                                                               *)

\* The list keeps the length it was made with, across the boundary of a byte
\* and whatever positions are written, and each position below it has the value
\* that was last written there; the mark of the length is never a position.
BitsExact ==
  /\ BitLen(bytes) = size
  /\ \A i \in 0 .. size + 8 : BitAt(bytes, i) <=> i < size /\ i \in bitsSet
  /\ \A i \in 1 .. Len(bytes) : bytes[i] \in 0 .. 255
=============================================================================
