------------------------------ MODULE BinPrefix ------------------------------
(***************************************************************************)
(* generateCommonBinPrefixes (pkg/topology/kademlia/binprefix.go): for    *)
(* every bin i and every suffix value j it copies the base address, flips *)
(* the logical bit i, writes the suffixLength bits of uint8(j) after it   *)
(* and clears every later bit.  The loops are modelled one write per      *)
(* step, so that an index out of range (a Go panic) happens exactly where *)
(* the code indexes a byte that does not exist.                           *)
(*                                                                         *)
(* A byte is a function from bit position (0 = least significant, the    *)
(* numbering of setBit and hasBit) to {0,1}; an address is a function     *)
(* from byte index 0..n-1 to bytes, n being len(base.Bytes()).  The base  *)
(* address is chosen among Bases, which may hold addresses of different   *)
(* lengths: boson.Address is a byte slice of any length.                  *)
(***************************************************************************)
EXTENDS BitOps, FiniteSets

CONSTANTS MaxBins,       \* boson.MaxBins
          SuffixLength,  \* the suffixLength argument
          MaxAddrBytes,  \* the longest base address considered
          Bases          \* the base addresses the function is called with

AddrOfLen(n) == [0..(n - 1) -> Byte]
Address == UNION {AddrOfLen(n) : n \in 0..MaxAddrBytes}

ASSUME BinPrefixAssumption ==
  /\ MaxBins \in Nat \ {0}
  /\ SuffixLength \in Nat
  /\ MaxAddrBytes \in Nat
  /\ Bases \subseteq Address
  /\ Bases # {}

\* len(b) of an address
NBytes(a) == CHOOSE n \in 0..MaxAddrBytes : DOMAIN a = 0..(n - 1)

\* int(math.Pow(2, float64(suffixLength))): exact for every suffixLength >= 0
bitCombinationsCount == 2 ^ SuffixLength

Bins == 0..(MaxBins - 1)
Suffixes == 0..(bitCombinationsCount - 1)

VARIABLES base,          \* the base argument
          binPrefixes,   \* the result being filled in
          i, j, l,       \* the loop indices
          bitSuffixPos,  \* the suffix bit written at position l
          pc             \* "flip", "suffix", "clear", "done" or "panic"

vars == <<base, binPrefixes, i, j, l, bitSuffixPos, pc>>

\* pseudoAddrBytes: the slice of binPrefixes[i][j], written in place
Cell == binPrefixes[i][j]

\* Lines 23-36: every entry starts as a copy of base.
Init ==
  /\ base \in Bases
  /\ binPrefixes = [b \in Bins |-> [s \in Suffixes |-> base]]
  /\ i = 0
  /\ j = 0
  /\ l = 0
  /\ bitSuffixPos = 0
  /\ pc = "flip"

\* Variant of Advance that does not reset j for the next bin: TypeOK
\* must reject it.
AdvanceNoReset ==
  \/ /\ j + 1 < bitCombinationsCount
     /\ j' = j + 1 /\ i' = i /\ pc' = "flip"
  \/ /\ j + 1 = bitCombinationsCount /\ i + 1 < MaxBins
     /\ j' = j + 1 /\ i' = i + 1 /\ pc' = "flip"
  \/ /\ j + 1 = bitCombinationsCount /\ i + 1 = MaxBins
     /\ pc' = "done" /\ UNCHANGED <<i, j>>

\* The end of the body of the inner loop: the next j, the next i, or return.
Advance ==
  \/ /\ j + 1 < bitCombinationsCount
     /\ j' = j + 1 /\ i' = i /\ pc' = "flip"
  \/ /\ j + 1 = bitCombinationsCount /\ i + 1 < MaxBins
     /\ j' = 0 /\ i' = i + 1 /\ pc' = "flip"
  \/ /\ j + 1 = bitCombinationsCount /\ i + 1 = MaxBins
     /\ pc' = "done" /\ UNCHANGED <<i, j>>

\* if len(pseudoAddrBytes) < 1 { continue }
SkipEmpty ==
  /\ pc = "flip"
  /\ NBytes(Cell) < 1
  /\ Advance
  /\ UNCHANGED <<base, binPrefixes, l, bitSuffixPos>>

\* Variant of Flip with the suffix loop starting at l = i (an off-by-one
\* that overwrites the flipped bit): ProximityExact must reject it.
FlipSuffixFromBin ==
  /\ pc = "flip"
  /\ NBytes(Cell) >= 1
  /\ i \div 8 < NBytes(Cell)
  /\ binPrefixes' = [binPrefixes EXCEPT ![i][j] =
                       IF hasBit(Reverse8(Cell[i \div 8]), i % 8)
                       THEN ClearAt(Cell, i) ELSE SetAt(Cell, i)]
  /\ bitSuffixPos' = SuffixLength - 1
  /\ l' = i
  /\ pc' = "suffix"
  /\ UNCHANGED <<base, i, j>>

\* Flip the bit of bin i, then enter the suffix loop at l = i+1.
Flip ==
  /\ pc = "flip"
  /\ NBytes(Cell) >= 1
  /\ i \div 8 < NBytes(Cell)
  /\ binPrefixes' = [binPrefixes EXCEPT ![i][j] =
                       IF hasBit(Reverse8(Cell[i \div 8]), i % 8)
                       THEN ClearAt(Cell, i) ELSE SetAt(Cell, i)]
  /\ bitSuffixPos' = SuffixLength - 1
  /\ l' = i + 1
  /\ pc' = "suffix"
  /\ UNCHANGED <<base, i, j>>

\* Variant of Suffix without bitSuffixPos-- : SuffixDistinct must reject it.
SuffixNoDecrement ==
  /\ pc = "suffix"
  /\ l < i + SuffixLength + 1
  /\ l \div 8 < NBytes(Cell)
  /\ binPrefixes' = [binPrefixes EXCEPT ![i][j] =
                       IF SuffixBit(j, bitSuffixPos) = 1
                       THEN SetAt(Cell, l) ELSE ClearAt(Cell, l)]
  /\ bitSuffixPos' = bitSuffixPos
  /\ l' = l + 1
  /\ UNCHANGED <<base, i, j, pc>>

\* One iteration of the suffix loop: bit l gets bit bitSuffixPos of uint8(j).
Suffix ==
  /\ pc = "suffix"
  /\ l < i + SuffixLength + 1
  /\ l \div 8 < NBytes(Cell)
  /\ binPrefixes' = [binPrefixes EXCEPT ![i][j] =
                       IF SuffixBit(j, bitSuffixPos) = 1
                       THEN SetAt(Cell, l) ELSE ClearAt(Cell, l)]
  /\ bitSuffixPos' = bitSuffixPos - 1
  /\ l' = l + 1
  /\ UNCHANGED <<base, i, j, pc>>

\* The suffix loop ends; the clearing loop starts at l = i+suffixLength+1.
EndSuffix ==
  /\ pc = "suffix"
  /\ l >= i + SuffixLength + 1
  /\ l' = i + SuffixLength + 1
  /\ pc' = "clear"
  /\ UNCHANGED <<base, binPrefixes, i, j, bitSuffixPos>>

\* One iteration of the clearing loop, bounded by len(pseudoAddrBytes)*8.
Clear ==
  /\ pc = "clear"
  /\ l < NBytes(Cell) * 8
  /\ binPrefixes' = [binPrefixes EXCEPT ![i][j] = ClearAt(Cell, l)]
  /\ l' = l + 1
  /\ UNCHANGED <<base, i, j, bitSuffixPos, pc>>

\* The clearing loop ends: on to the next entry.
EndClear ==
  /\ pc = "clear"
  /\ l >= NBytes(Cell) * 8
  /\ Advance
  /\ UNCHANGED <<base, binPrefixes, l, bitSuffixPos>>

\* pseudoAddrBytes[indexByte] or pseudoAddrBytes[index] past the end of the
\* slice: the runtime panics and the function never returns.
IndexOutOfRange ==
  /\ \/ pc = "flip" /\ NBytes(Cell) >= 1 /\ i \div 8 >= NBytes(Cell)
     \/ pc = "suffix" /\ l < i + SuffixLength + 1 /\ l \div 8 >= NBytes(Cell)
  /\ pc' = "panic"
  /\ UNCHANGED <<base, binPrefixes, i, j, l, bitSuffixPos>>

Next ==
  \/ SkipEmpty
  \/ Flip
  \/ Suffix
  \/ EndSuffix
  \/ Clear
  \/ EndClear
  \/ IndexOutOfRange

Spec == Init /\ [][Next]_vars

-----------------------------------------------------------------------------
TypeOK ==
  /\ base \in Bases
  /\ binPrefixes \in [Bins -> [Suffixes -> AddrOfLen(NBytes(base))]]
  /\ i \in Bins
  /\ j \in Suffixes
  /\ l \in Nat
  /\ bitSuffixPos \in Int
  /\ pc \in {"flip", "suffix", "clear", "done", "panic"}

\* a and b share exactly po leading bits: boson.Proximity(a, b) = po.
ProximityIs(a, b, po) ==
  /\ \A m \in 0..(po - 1) : LBit(a, m) = LBit(b, m)
  /\ LBit(a, po) # LBit(b, po)

\* binPrefixes[b][s] has been filled in.
Completed(b, s) == pc = "done" \/ b < i \/ (b = i /\ s < j)

(***************************************************************************)
(* Generator correctness (spec section 8): every entry the loops have      *)
(* finished for a non-empty base has proximity exactly b to the base.  It  *)
(* breaks if the suffix or clearing loop reaches back over the flipped bit *)
(* or the flip misses bit b.                                               *)
(***************************************************************************)
ProximityExact ==
  \A b \in Bins, s \in Suffixes :
    Completed(b, s) /\ NBytes(base) > 0 => ProximityIs(base, binPrefixes[b][s], b)

(***************************************************************************)
(* Generator distinctness (spec section 8): in the result the function    *)
(* returns for a non-empty base, the entries of one bin for different     *)
(* suffix values are different addresses (a bin holds as many addresses  *)
(* as suffix values).  It breaks if the suffix bits written do not        *)
(* encode j.                                                               *)
(***************************************************************************)
SuffixDistinct ==
  pc = "done" /\ NBytes(base) > 0 =>
    \A b \in Bins :
      Cardinality({binPrefixes[b][s] : s \in Suffixes}) = bitCombinationsCount

(***************************************************************************)
(* The spec (section 4.2) says that when i + suffixLength runs past the    *)
(* address, only the positions in range are written and the suffix is    *)
(* truncated: the function returns.  The code indexes past the slice.     *)
(***************************************************************************)
NoIndexOutOfRange == pc # "panic"

=============================================================================
