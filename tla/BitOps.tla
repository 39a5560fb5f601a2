------------------------------- MODULE BitOps -------------------------------
(***************************************************************************)
(* The byte and bit helpers of pkg/topology/kademlia/binprefix.go: uint8  *)
(* conversion, bits.Reverse8, clearBit, setBit, hasBit, and the idiom     *)
(* that combines them to address one bit of a byte slice counted from the *)
(* most significant bit of byte 0.                                        *)
(*                                                                         *)
(* A byte is a function from bit position (0 = least significant, the    *)
(* numbering of setBit and hasBit) to {0,1}; a byte slice is a function   *)
(* from index 0..n-1 to bytes.                                             *)
(***************************************************************************)
EXTENDS Integers

Bit == {0, 1}
Byte == [0..7 -> Bit]

\* uint8(n): the eight low bits of n
ToUint8(n) == [p \in 0..7 |-> (n \div (2 ^ p)) % 2]

\* bits.Reverse8
Reverse8(b) == [p \in 0..7 |-> b[7 - p]]

\* clearBit(n, pos), setBit(n, pos)
clearBit(n, pos) == [n EXCEPT ![pos] = 0]
setBit(n, pos) == [n EXCEPT ![pos] = 1]

\* hasBit(n, pos) is n&(1<<pos) > 0; a uint8 shifted by 8 or more is 0
hasBit(n, pos) == pos < 8 /\ n[pos] = 1

\* The idiom a[l/8] = Reverse8(setBit(Reverse8(a[l/8]), l%8)) and its
\* clearBit twin: they set (clear) bit l counted from the most significant
\* bit of byte 0.
SetAt(a, l) == [a EXCEPT ![l \div 8] = Reverse8(setBit(Reverse8(a[l \div 8]), l % 8))]
ClearAt(a, l) == [a EXCEPT ![l \div 8] = Reverse8(clearBit(Reverse8(a[l \div 8]), l % 8))]

\* The suffix bit written for suffix value j at bitSuffixPos:
\* hasBit(bitSuffixes[j], uint8(bitSuffixPos)), bitSuffixes[j] = uint8(j).
SuffixBit(j, bitSuffixPos) ==
  IF hasBit(ToUint8(j), bitSuffixPos % 256) THEN 1 ELSE 0

\* Logical bit m of a byte slice: bit 0 is the most significant bit of byte 0.
LBit(a, m) == a[m \div 8][7 - (m % 8)]
=============================================================================
