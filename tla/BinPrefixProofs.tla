-------------------------- MODULE BinPrefixProofs --------------------------
(***************************************************************************)
(* Proofs about BinPrefix (generateCommonBinPrefixes) for every number of *)
(* bins, every suffix length and every set of base addresses.            *)
(***************************************************************************)
EXTENDS BinPrefix, FiniteSetTheorems, TLAPS

USE BinPrefixAssumption

\* int(math.Pow(2, suffixLength)) is at least 1, so j = 0 is a suffix value:
\* 2^k is the number of subsets of a k-element set, which holds {}.
LEMMA CombinationsPositive == bitCombinationsCount \in Nat \ {0}
<1> DEFINE S == 0..(SuffixLength - 1)
<1>1. IsFiniteSet(S) /\ Cardinality(S) = SuffixLength
  BY FS_Interval
<1>2. IsFiniteSet(SUBSET S) /\ Cardinality(SUBSET S) = 2 ^ SuffixLength
  BY <1>1, FS_SUBSET
<1>3. Cardinality(SUBSET S) \in Nat /\ Cardinality(SUBSET S) # 0
  <2>1. {} \in SUBSET S
    OBVIOUS
  <2>2. QED
    BY <1>2, <2>1, FS_CardinalityType, FS_EmptySet
<1>4. QED
  BY <1>2, <1>3 DEF bitCombinationsCount

\* Reverse8, setBit and clearBit map bytes to bytes.
LEMMA ByteOps ==
  ASSUME NEW b \in Byte, NEW p \in 0..7
  PROVE  /\ Reverse8(b) \in Byte
         /\ setBit(b, p) \in Byte
         /\ clearBit(b, p) \in Byte
BY DEF Byte, Bit, Reverse8, setBit, clearBit

\* Setting or clearing a bit inside an n-byte slice keeps it an n-byte slice.
LEMMA WriteType ==
  ASSUME NEW n \in Nat, NEW a \in AddrOfLen(n), NEW m \in Nat, m \div 8 < n
  PROVE  /\ SetAt(a, m) \in AddrOfLen(n)
         /\ ClearAt(a, m) \in AddrOfLen(n)
<1>1. m \div 8 \in 0..(n - 1) /\ m % 8 \in 0..7
  OBVIOUS
<1>2. a[m \div 8] \in Byte
  BY <1>1 DEF AddrOfLen
<1>3. Reverse8(setBit(Reverse8(a[m \div 8]), m % 8)) \in Byte
      /\ Reverse8(clearBit(Reverse8(a[m \div 8]), m % 8)) \in Byte
  BY <1>1, <1>2, ByteOps
<1>4. QED
  BY <1>1, <1>3 DEF SetAt, ClearAt, AddrOfLen

\* len() of an n-byte slice is n.
LEMMA NBytesOf ==
  ASSUME NEW n \in 0..MaxAddrBytes, NEW a \in AddrOfLen(n)
  PROVE  NBytes(a) = n
<1>1. DOMAIN a = 0..(n - 1)
  BY DEF AddrOfLen
<1>2. \A k, m \in Nat : 0..(k - 1) = 0..(m - 1) => k = m
  <2> SUFFICES ASSUME NEW k \in Nat, NEW m \in Nat, 0..(k - 1) = 0..(m - 1), k # m
               PROVE FALSE
    OBVIOUS
  <2>1. CASE k < m
    <3>1. m - 1 \in 0..(m - 1) /\ m - 1 \notin 0..(k - 1)
      BY <2>1
    <3>2. QED
      BY <3>1
  <2>2. CASE m < k
    <3>1. k - 1 \in 0..(k - 1) /\ k - 1 \notin 0..(m - 1)
      BY <2>2
    <3>2. QED
      BY <3>1
  <2>3. QED
    BY <2>1, <2>2
<1>3. NBytes(a) \in 0..MaxAddrBytes /\ DOMAIN a = 0..(NBytes(a) - 1)
  BY <1>1 DEF NBytes
<1>4. QED
  BY <1>1, <1>2, <1>3

\* Setting or clearing logical bit m of a slice changes bit m and no other.
LEMMA LBitWrite ==
  ASSUME NEW n \in Nat, NEW a \in AddrOfLen(n), NEW m \in Nat, NEW p \in Nat,
         m \div 8 < n, p \div 8 < n
  PROVE  /\ LBit(SetAt(a, m), p) = IF p = m THEN 1 ELSE LBit(a, p)
         /\ LBit(ClearAt(a, m), p) = IF p = m THEN 0 ELSE LBit(a, p)
<1> DEFINE x == m \div 8  y == p \div 8
<1>1. x \in 0..(n - 1) /\ y \in 0..(n - 1) /\ m % 8 \in 0..7 /\ p % 8 \in 0..7
  OBVIOUS
<1>2. p = m <=> (y = x /\ p % 8 = m % 8)
  OBVIOUS
<1>3. a[x] \in Byte /\ a[y] \in Byte
  BY <1>1 DEF AddrOfLen
<1>4. CASE y = x
  <2>1. LBit(SetAt(a, m), p) = setBit(Reverse8(a[x]), m % 8)[p % 8]
    BY <1>1, <1>3, <1>4 DEF LBit, SetAt, AddrOfLen, Reverse8
  <2>2. LBit(ClearAt(a, m), p) = clearBit(Reverse8(a[x]), m % 8)[p % 8]
    BY <1>1, <1>3, <1>4 DEF LBit, ClearAt, AddrOfLen, Reverse8
  <2>3. Reverse8(a[x])[p % 8] = LBit(a, p)
    BY <1>1, <1>4 DEF LBit, Reverse8
  <2>4. QED
    BY <1>1, <1>2, <1>4, <2>1, <2>2, <2>3 DEF setBit, clearBit, Reverse8
<1>5. CASE y # x
  BY <1>1, <1>2, <1>5 DEF LBit, SetAt, ClearAt, AddrOfLen
<1>6. QED
  BY <1>4, <1>5

\* The flip of Flip: the hasBit test reads logical bit i, so the write
\* gives bit i the other value.
LEMMA FlipBit ==
  ASSUME NEW n \in Nat, NEW a \in AddrOfLen(n), NEW m \in Nat, m \div 8 < n
  PROVE  hasBit(Reverse8(a[m \div 8]), m % 8) <=> LBit(a, m) = 1
<1>1. m \div 8 \in 0..(n - 1) /\ m % 8 \in 0..7
  OBVIOUS
<1>2. QED
  BY <1>1 DEF hasBit, Reverse8, LBit

\* Writing a bit past position po keeps the proximity po to a.
LEMMA KeepPrefix ==
  ASSUME NEW n \in Nat, NEW a \in AddrOfLen(n), NEW c \in AddrOfLen(n),
         NEW po \in Nat, NEW m \in Nat, po < m, m \div 8 < n,
         ProximityIs(a, c, po)
  PROVE  /\ ProximityIs(a, SetAt(c, m), po)
         /\ ProximityIs(a, ClearAt(c, m), po)
<1>1. \A q \in 0..po : q \div 8 < n /\ q # m
  OBVIOUS
<1>2. \A q \in 0..po : /\ LBit(SetAt(c, m), q) = LBit(c, q)
                       /\ LBit(ClearAt(c, m), q) = LBit(c, q)
  BY <1>1, LBitWrite
<1>3. QED
  BY <1>2 DEF ProximityIs

\* Flip gives a copy of a proximity exactly m to a.
LEMMA FlipProximity ==
  ASSUME NEW n \in Nat, NEW a \in AddrOfLen(n), NEW m \in Nat, m \div 8 < n
  PROVE  ProximityIs(a, IF hasBit(Reverse8(a[m \div 8]), m % 8)
                        THEN ClearAt(a, m) ELSE SetAt(a, m), m)
<1>1. \A q \in 0..m : q \div 8 < n
  OBVIOUS
<1>2. \A q \in 0..(m - 1) : /\ LBit(SetAt(a, m), q) = LBit(a, q)
                            /\ LBit(ClearAt(a, m), q) = LBit(a, q)
  BY <1>1, LBitWrite
<1>3. LBit(SetAt(a, m), m) = 1 /\ LBit(ClearAt(a, m), m) = 0
  BY LBitWrite
<1>4. LBit(a, m) \in {0, 1}
  <2>1. m \div 8 \in 0..(n - 1) /\ 7 - (m % 8) \in 0..7
    OBVIOUS
  <2>2. QED
    BY <2>1 DEF LBit, AddrOfLen, Byte, Bit
<1>5. QED
  BY <1>2, <1>3, <1>4, FlipBit DEF ProximityIs

\* A base address is an NBytes(base)-byte slice.
LEMMA BaseLen ==
  ASSUME NEW a \in Bases
  PROVE  NBytes(a) \in 0..MaxAddrBytes /\ a \in AddrOfLen(NBytes(a))
<1>1. PICK n \in 0..MaxAddrBytes : a \in AddrOfLen(n)
  BY DEF Address
<1>2. QED
  BY <1>1, NBytesOf
\* The current entry is an NBytes(base)-byte slice and NBytes(Cell) is
\* NBytes(base): what every step's guard and write rely on.
LEMMA CellLen ==
  ASSUME TypeOK
  PROVE  /\ NBytes(base) \in 0..MaxAddrBytes
         /\ Cell \in AddrOfLen(NBytes(base))
         /\ NBytes(Cell) = NBytes(base)
<1>1. NBytes(base) \in 0..MaxAddrBytes
  BY BaseLen DEF TypeOK
<1>2. Cell \in AddrOfLen(NBytes(base))
  BY DEF TypeOK, Cell
<1>3. QED
  BY <1>1, <1>2, NBytesOf

\* Advance moves (i, j) to the next entry inside Bins \X Suffixes.
LEMMA AdvanceType ==
  ASSUME TypeOK, Advance
  PROVE  i' \in Bins /\ j' \in Suffixes /\ pc' \in {"flip", "done"}
BY CombinationsPositive DEF TypeOK, Advance, Bins, Suffixes

\* The initial states are well typed.
LEMMA TypeInit == Init => TypeOK
<1> SUFFICES ASSUME Init PROVE TypeOK
  OBVIOUS
<1>1. NBytes(base) \in 0..MaxAddrBytes /\ base \in AddrOfLen(NBytes(base))
  BY BaseLen DEF Init
<1>2. 0 \in Suffixes /\ 0 \in Bins
  BY CombinationsPositive DEF Suffixes, Bins
<1>3. QED
  BY <1>1, <1>2 DEF Init, TypeOK

\* Every step keeps the state well typed.
LEMMA TypeStep == TypeOK /\ [Next]_vars => TypeOK'
<1> SUFFICES ASSUME TypeOK, [Next]_vars PROVE TypeOK'
  OBVIOUS
<1> DEFINE n == NBytes(base)
<1>0. n \in 0..MaxAddrBytes /\ Cell \in AddrOfLen(n) /\ NBytes(Cell) = n
  BY CellLen
<1>1. CASE SkipEmpty
  BY <1>1, AdvanceType DEF SkipEmpty, TypeOK
<1>2. CASE Flip
  <2>1. i \in Nat /\ i \div 8 < n
    BY <1>0, <1>2 DEF Flip, TypeOK, Bins
  <2>2. SetAt(Cell, i) \in AddrOfLen(n) /\ ClearAt(Cell, i) \in AddrOfLen(n)
    BY <1>0, <2>1, WriteType
  <2>3. QED
    BY <1>2, <2>1, <2>2 DEF Flip, TypeOK, Cell
<1>3. CASE Suffix
  <2>1. l \in Nat /\ l \div 8 < n
    BY <1>0, <1>3 DEF Suffix, TypeOK
  <2>2. SetAt(Cell, l) \in AddrOfLen(n) /\ ClearAt(Cell, l) \in AddrOfLen(n)
    BY <1>0, <2>1, WriteType
  <2>3. QED
    BY <1>3, <2>1, <2>2 DEF Suffix, TypeOK, Cell
<1>4. CASE EndSuffix
  BY <1>4 DEF EndSuffix, TypeOK, Bins
<1>5. CASE Clear
  <2>1. l \in Nat /\ l \div 8 < n
    BY <1>0, <1>5 DEF Clear, TypeOK
  <2>2. ClearAt(Cell, l) \in AddrOfLen(n)
    BY <1>0, <2>1, WriteType
  <2>3. QED
    BY <1>5, <2>1, <2>2 DEF Clear, TypeOK, Cell
<1>6. CASE EndClear
  BY <1>6, AdvanceType DEF EndClear, TypeOK
<1>7. CASE IndexOutOfRange
  BY <1>7 DEF IndexOutOfRange, TypeOK
<1>8. CASE UNCHANGED vars
  BY <1>8 DEF vars, TypeOK
<1>9. QED
  BY <1>1, <1>2, <1>3, <1>4, <1>5, <1>6, <1>7, <1>8 DEF Next

\* The type invariant: the result always holds NBytes(base)-byte slices,
\* one per bin and suffix value, and the loop indices stay in range.
THEOREM TypeCorrect == Spec => []TypeOK
BY TypeInit, TypeStep, PTL DEF Spec
-----------------------------------------------------------------------------
(***************************************************************************)
(* ProximityExact is not inductive: it says nothing of the entries still  *)
(* to be written nor of the one being written.  The strengthening PInv:   *)
(* a completed bin is one whose flipped bit lies inside the address; an   *)
(* entry not yet reached is still the copy of base made by the first      *)
(* loops; the current entry is that copy until Flip, and from then on has *)
(* proximity i to base, the suffix and clearing loops writing only at     *)
(* l > i.                                                                 *)
(***************************************************************************)
Reached ==
  \A b \in Bins, s \in Suffixes :
    Completed(b, s) => b \div 8 < NBytes(base)
                       /\ ProximityIs(base, binPrefixes[b][s], b)

Untouched ==
  \A b \in Bins, s \in Suffixes :
    ~Completed(b, s) /\ <<b, s>> # <<i, j>> => binPrefixes[b][s] = base

CurrentEntry ==
  /\ pc = "flip" => Cell = base
  /\ pc \in {"suffix", "clear"} =>
       /\ i \div 8 < NBytes(base)
       /\ i < l
       /\ ProximityIs(base, Cell, i)

PInv ==
  /\ TypeOK
  /\ NBytes(base) > 0 => Reached /\ Untouched /\ CurrentEntry

LEMMA PInvInit == Init => PInv
<1> SUFFICES ASSUME Init PROVE PInv
  OBVIOUS
<1>1. TypeOK
  BY TypeInit
<1>2. \A b \in Bins, s \in Suffixes : ~Completed(b, s)
  BY DEF Init, Completed, Bins, Suffixes
<1>3. Reached /\ Untouched
  BY <1>2 DEF Init, Reached, Untouched
<1>4. CurrentEntry
  <2>1. 0 \in Bins /\ 0 \in Suffixes
    BY CombinationsPositive DEF Bins, Suffixes
  <2>2. QED
    BY <2>1 DEF Init, CurrentEntry, Cell
<1>5. QED
  BY <1>1, <1>3, <1>4 DEF PInv

\* Flip, Suffix and Clear write the current entry only.
LEMMA WriteFrame ==
  ASSUME TypeOK, NEW v,
         binPrefixes' = [binPrefixes EXCEPT ![i][j] = v]
  PROVE  /\ binPrefixes'[i][j] = v
         /\ \A b \in Bins, s \in Suffixes :
              <<b, s>> # <<i, j>> => binPrefixes'[b][s] = binPrefixes[b][s]
BY DEF TypeOK

LEMMA PInvStep == PInv /\ [Next]_vars => PInv'
<1> SUFFICES ASSUME PInv, [Next]_vars PROVE PInv'
  OBVIOUS
<1> DEFINE NB == NBytes(base)
<1>0. TypeOK /\ TypeOK'
  BY TypeStep DEF PInv
<1>1. NB \in 0..MaxAddrBytes /\ Cell \in AddrOfLen(NB) /\ NBytes(Cell) = NB
  BY <1>0, CellLen
<1>2. base' = base
  BY DEF Next, vars, SkipEmpty, Flip, Suffix, EndSuffix, Clear, EndClear,
         IndexOutOfRange
<1>3. SUFFICES ASSUME NB > 0 PROVE Reached' /\ Untouched' /\ CurrentEntry'
  BY <1>0, <1>1, <1>2 DEF PInv
<1>4. Reached /\ Untouched /\ CurrentEntry
  BY <1>3 DEF PInv
<1>5. CASE SkipEmpty
  BY <1>1, <1>3, <1>5 DEF SkipEmpty
<1>6. CASE Flip
  <2> DEFINE v == IF hasBit(Reverse8(Cell[i \div 8]), i % 8)
                  THEN ClearAt(Cell, i) ELSE SetAt(Cell, i)
  <2>1. i \in Nat /\ i \div 8 < NB /\ Cell = base
    BY <1>0, <1>1, <1>4, <1>6 DEF Flip, TypeOK, Bins, CurrentEntry
  <2>2. binPrefixes'[i][j] = v
        /\ \A b \in Bins, s \in Suffixes :
             <<b, s>> # <<i, j>> => binPrefixes'[b][s] = binPrefixes[b][s]
    BY <1>0, <1>6, WriteFrame DEF Flip
  <2>3. ProximityIs(base, v, i)
    BY <1>1, <2>1, FlipProximity
  <2>4. \A b \in Bins, s \in Suffixes : Completed(b, s)' <=> Completed(b, s)
    BY <1>6 DEF Flip, Completed
  <2>5. ~Completed(i, j)
    BY <1>0, <1>6 DEF Flip, Completed, TypeOK, Bins, Suffixes
  <2>6. QED
    BY <1>2, <1>4, <1>6, <2>1, <2>2, <2>3, <2>4, <2>5
    DEF Flip, Reached, Untouched, CurrentEntry, Cell
<1>7. CASE Suffix
  <2> DEFINE v == IF SuffixBit(j, bitSuffixPos) = 1
                  THEN SetAt(Cell, l) ELSE ClearAt(Cell, l)
  <2>1. l \in Nat /\ l \div 8 < NB /\ i \in Nat /\ i \div 8 < NB /\ i < l
        /\ ProximityIs(base, Cell, i)
    BY <1>0, <1>1, <1>4, <1>7 DEF Suffix, TypeOK, Bins, CurrentEntry
  <2>2. binPrefixes'[i][j] = v
        /\ \A b \in Bins, s \in Suffixes :
             <<b, s>> # <<i, j>> => binPrefixes'[b][s] = binPrefixes[b][s]
    BY <1>0, <1>7, WriteFrame DEF Suffix
  <2>3. ProximityIs(base, v, i)
    <3>1. base \in AddrOfLen(NB)
      BY <1>0, BaseLen DEF TypeOK
    <3>2. QED
      BY <1>1, <2>1, <3>1, KeepPrefix
  <2>4. \A b \in Bins, s \in Suffixes : Completed(b, s)' <=> Completed(b, s)
    BY <1>7 DEF Suffix, Completed
  <2>5. ~Completed(i, j)
    BY <1>0, <1>7 DEF Suffix, Completed, TypeOK, Bins, Suffixes
  <2>6. QED
    BY <1>2, <1>4, <1>7, <2>1, <2>2, <2>3, <2>4, <2>5
    DEF Suffix, Reached, Untouched, CurrentEntry, Cell
<1>8. CASE EndSuffix
  <2>1. i < l' /\ ~Completed(i, j)
    BY <1>0, <1>4, <1>8 DEF EndSuffix, TypeOK, CurrentEntry, Completed, Bins, Suffixes
  <2>2. \A b \in Bins, s \in Suffixes : Completed(b, s)' <=> Completed(b, s)
    BY <1>8 DEF EndSuffix, Completed
  <2>3. QED
    BY <1>2, <1>4, <1>8, <2>1, <2>2
    DEF EndSuffix, Reached, Untouched, CurrentEntry, Cell
<1>9. CASE Clear
  <2> DEFINE v == ClearAt(Cell, l)
  <2>1. l \in Nat /\ l \div 8 < NB /\ i \in Nat /\ i \div 8 < NB /\ i < l
        /\ ProximityIs(base, Cell, i)
    BY <1>0, <1>1, <1>4, <1>9 DEF Clear, TypeOK, Bins, CurrentEntry
  <2>2. binPrefixes'[i][j] = v
        /\ \A b \in Bins, s \in Suffixes :
             <<b, s>> # <<i, j>> => binPrefixes'[b][s] = binPrefixes[b][s]
    BY <1>0, <1>9, WriteFrame DEF Clear
  <2>3. ProximityIs(base, v, i)
    <3>1. base \in AddrOfLen(NB)
      BY <1>0, BaseLen DEF TypeOK
    <3>2. QED
      BY <1>1, <2>1, <3>1, KeepPrefix
  <2>4. \A b \in Bins, s \in Suffixes : Completed(b, s)' <=> Completed(b, s)
    BY <1>9 DEF Clear, Completed
  <2>5. ~Completed(i, j)
    BY <1>0, <1>9 DEF Clear, Completed, TypeOK, Bins, Suffixes
  <2>6. QED
    BY <1>2, <1>4, <1>9, <2>1, <2>2, <2>3, <2>4, <2>5
    DEF Clear, Reached, Untouched, CurrentEntry, Cell
<1>10. CASE EndClear
  <2>1. i \div 8 < NB /\ ProximityIs(base, Cell, i) /\ ~Completed(i, j)
    BY <1>0, <1>4, <1>10 DEF EndClear, CurrentEntry, Completed, TypeOK, Bins, Suffixes
  <2>2. UNCHANGED <<base, binPrefixes>> /\ pc = "clear"
    BY <1>10 DEF EndClear
  <2>3. CASE j + 1 < bitCombinationsCount /\ j' = j + 1 /\ i' = i /\ pc' = "flip"
    <3>1. \A b \in Bins, s \in Suffixes :
            Completed(b, s)' <=> Completed(b, s) \/ <<b, s>> = <<i, j>>
      BY <1>0, <2>2, <2>3 DEF Completed, TypeOK, Bins, Suffixes
    <3>2. <<i', j'>> # <<i, j>> /\ ~Completed(i', j') /\ i' \in Bins /\ j' \in Suffixes
      BY <1>0, <2>2, <2>3 DEF Completed, TypeOK, Bins, Suffixes
    <3>3. QED
      BY <1>4, <2>1, <2>2, <2>3, <3>1, <3>2 DEF Reached, Untouched, CurrentEntry, Cell
  <2>4. CASE j + 1 = bitCombinationsCount /\ i + 1 < MaxBins
             /\ j' = 0 /\ i' = i + 1 /\ pc' = "flip"
    <3>1. \A b \in Bins, s \in Suffixes :
            Completed(b, s)' <=> Completed(b, s) \/ <<b, s>> = <<i, j>>
      BY <1>0, <2>2, <2>4 DEF Completed, TypeOK, Bins, Suffixes
    <3>2. <<i', j'>> # <<i, j>> /\ ~Completed(i', j') /\ i' \in Bins /\ j' \in Suffixes
      BY <1>0, <2>2, <2>4, CombinationsPositive DEF Completed, TypeOK, Bins, Suffixes
    <3>3. QED
      BY <1>4, <2>1, <2>2, <2>4, <3>1, <3>2 DEF Reached, Untouched, CurrentEntry, Cell
  <2>5. CASE j + 1 = bitCombinationsCount /\ i + 1 = MaxBins
             /\ pc' = "done" /\ UNCHANGED <<i, j>>
    <3>1. \A b \in Bins, s \in Suffixes :
            Completed(b, s) \/ <<b, s>> = <<i, j>>
      BY <1>0, <2>2, <2>5 DEF Completed, TypeOK, Bins, Suffixes
    <3>2. \A b \in Bins, s \in Suffixes : Completed(b, s)'
      BY <2>5 DEF Completed
    <3>3. QED
      BY <1>4, <2>1, <2>2, <2>5, <3>1, <3>2 DEF Reached, Untouched, CurrentEntry, Cell
  <2>6. QED
    BY <1>10, <2>3, <2>4, <2>5 DEF EndClear, Advance
<1>11. CASE IndexOutOfRange
  <2>1. \A b \in Bins, s \in Suffixes : Completed(b, s)' <=> Completed(b, s)
    BY <1>11 DEF IndexOutOfRange, Completed
  <2>2. QED
    BY <1>2, <1>4, <1>11, <2>1
    DEF IndexOutOfRange, Reached, Untouched, CurrentEntry, Cell
<1>12. CASE UNCHANGED vars
  BY <1>4, <1>12 DEF vars, Reached, Untouched, CurrentEntry, Cell, Completed
<1>13. QED
  BY <1>5, <1>6, <1>7, <1>8, <1>9, <1>10, <1>11, <1>12 DEF Next

(***************************************************************************)
(* Generator correctness for every number of bins, suffix length and set  *)
(* of bases: each entry generateCommonBinPrefixes has finished for a      *)
(* non-empty base has proximity exactly its bin to the base.             *)
(***************************************************************************)
THEOREM ProximityCorrect == Spec => []ProximityExact
<1>1. PInv => ProximityExact
  BY DEF PInv, Reached, ProximityExact
<1>2. QED
  BY PInvInit, PInvStep, <1>1, PTL DEF Spec
-----------------------------------------------------------------------------
(***************************************************************************)
(* SuffixDistinct.  The entries of bin b differ from one another because  *)
(* the suffix loop wrote the low bits of uint8(s) into the suffixLength   *)
(* positions after the flipped bit b.  SuffixWritten(a, b, s, n) says the *)
(* first n of those positions of a hold the bits of s, most significant   *)
(* first.  The strengthening SInv of PInv: every completed entry has all  *)
(* suffixLength of them; inside the suffix loop bitSuffixPos is the bit   *)
(* that goes to position l and the positions before l are written; in    *)
(* the clearing loop l is past them all, so clearing keeps them.          *)
(***************************************************************************)
SuffixWritten(a, b, s, n) ==
  \A q \in 0..(n - 1) :
    /\ (b + 1 + q) \div 8 < NBytes(base)
    /\ LBit(a, b + 1 + q) = SuffixBit(s, SuffixLength - 1 - q)

SuffixesDone ==
  \A b \in Bins, s \in Suffixes :
    Completed(b, s) => SuffixWritten(binPrefixes[b][s], b, s, SuffixLength)

SuffixCurrent ==
  /\ pc = "suffix" =>
       /\ l \in (i + 1)..(i + SuffixLength + 1)
       /\ bitSuffixPos = i + SuffixLength - l
       /\ SuffixWritten(Cell, i, j, l - i - 1)
  /\ pc = "clear" =>
       /\ l >= i + SuffixLength + 1
       /\ SuffixWritten(Cell, i, j, SuffixLength)

SInv ==
  /\ PInv
  /\ NBytes(base) > 0 => SuffixesDone /\ SuffixCurrent

-----------------------------------------------------------------------------
(***************************************************************************)
(* Arithmetic of the suffix values.  The provers evaluate 2^p only for a  *)
(* literal p; for a variable exponent, 2^k is the number of subsets of a  *)
(* k-element set, as in CombinationsPositive.                             *)
(***************************************************************************)
LEMMA PowTable ==
  /\ 2^0 = 1 /\ 2^1 = 2 /\ 2^2 = 4 /\ 2^3 = 8 /\ 2^4 = 16
  /\ 2^5 = 32 /\ 2^6 = 64 /\ 2^7 = 128 /\ 2^8 = 256
BY SMT

\* 2^k is positive and grows with k.
LEMMA PowMono ==
  ASSUME NEW k \in Nat, NEW p \in Nat, k <= p
  PROVE  2^k \in Nat /\ 0 < 2^k /\ 2^k <= 2^p
<1> DEFINE K == 0..(k - 1)  P == 0..(p - 1)
<1>1. IsFiniteSet(K) /\ Cardinality(K) = k
  BY FS_Interval
<1>2. IsFiniteSet(P) /\ Cardinality(P) = p
  BY FS_Interval
<1>3. /\ IsFiniteSet(SUBSET K) /\ Cardinality(SUBSET K) = 2^k
      /\ IsFiniteSet(SUBSET P) /\ Cardinality(SUBSET P) = 2^p
  BY <1>1, <1>2, FS_SUBSET
<1>4. Cardinality(SUBSET K) \in Nat /\ Cardinality(SUBSET K) # 0
  <2>1. {} \in SUBSET K
    OBVIOUS
  <2>2. QED
    BY <1>3, <2>1, FS_CardinalityType, FS_EmptySet
<1>5. Cardinality(SUBSET K) <= Cardinality(SUBSET P)
  <2>1. SUBSET K \subseteq SUBSET P
    OBVIOUS
  <2>2. QED
    BY <1>3, <2>1, FS_Subset
<1>6. QED
  BY <1>3, <1>4, <1>5

\* A number below d has quotient 0 by d.
LEMMA DivSmall ==
  ASSUME NEW x \in Nat, NEW d \in Nat, 0 < d, x < d
  PROVE  (x \div d) % 2 = 0
BY SMT

\* Bit p of a number below 2^k is 0 when p >= k.
LEMMA HighZero ==
  ASSUME NEW k \in Nat, NEW s \in 0..(2^k - 1), NEW p \in Nat, k <= p
  PROVE  (s \div 2^p) % 2 = 0
<1>1. 2^k \in Nat /\ 0 < 2^k /\ 2^k <= 2^p /\ 2^p \in Nat
  BY PowMono
<1>2. s \in Nat /\ s < 2^p
  BY <1>1
<1>3. QED
  BY <1>1, <1>2, DivSmall

\* A number is fixed by its lowest bit and its half.
LEMMA HalfStep ==
  ASSUME NEW x \in Int, NEW y \in Int, x \div 2 = y \div 2, x % 2 = y % 2
  PROVE  x = y
BY SMT

\* Two bytes with the same eight bits are equal: <1>p says they agree from
\* bit p up, from p = 8 down to p = 0.
LEMMA Bits8 ==
  ASSUME NEW s \in 0..255, NEW t \in 0..255,
         \A p \in 0..7 : (s \div 2^p) % 2 = (t \div 2^p) % 2
  PROVE  s = t
<1>8. s \div 256 = t \div 256
  OBVIOUS
<1>7. s \div 128 = t \div 128
  <2>1. /\ (s \div 128) % 2 = (t \div 128) % 2
        /\ (s \div 128) \div 2 = s \div 256 /\ (t \div 128) \div 2 = t \div 256
    BY PowTable
  <2>2. QED
    BY <1>8, <2>1, HalfStep
<1>6. s \div 64 = t \div 64
  <2>1. /\ (s \div 64) % 2 = (t \div 64) % 2
        /\ (s \div 64) \div 2 = s \div 128 /\ (t \div 64) \div 2 = t \div 128
    BY PowTable
  <2>2. QED
    BY <1>7, <2>1, HalfStep
<1>5. s \div 32 = t \div 32
  <2>1. /\ (s \div 32) % 2 = (t \div 32) % 2
        /\ (s \div 32) \div 2 = s \div 64 /\ (t \div 32) \div 2 = t \div 64
    BY PowTable
  <2>2. QED
    BY <1>6, <2>1, HalfStep
<1>4. s \div 16 = t \div 16
  <2>1. /\ (s \div 16) % 2 = (t \div 16) % 2
        /\ (s \div 16) \div 2 = s \div 32 /\ (t \div 16) \div 2 = t \div 32
    BY PowTable
  <2>2. QED
    BY <1>5, <2>1, HalfStep
<1>3. s \div 8 = t \div 8
  <2>1. /\ (s \div 8) % 2 = (t \div 8) % 2
        /\ (s \div 8) \div 2 = s \div 16 /\ (t \div 8) \div 2 = t \div 16
    BY PowTable
  <2>2. QED
    BY <1>4, <2>1, HalfStep
<1>2. s \div 4 = t \div 4
  <2>1. /\ (s \div 4) % 2 = (t \div 4) % 2
        /\ (s \div 4) \div 2 = s \div 8 /\ (t \div 4) \div 2 = t \div 8
    BY PowTable
  <2>2. QED
    BY <1>3, <2>1, HalfStep
<1>1. s \div 2 = t \div 2
  <2>1. /\ (s \div 2) % 2 = (t \div 2) % 2
        /\ (s \div 2) \div 2 = s \div 4 /\ (t \div 2) \div 2 = t \div 4
    BY PowTable
  <2>2. QED
    BY <1>2, <2>1, HalfStep
<1>0. s \div 1 = t \div 1
  <2>1. /\ (s \div 1) % 2 = (t \div 1) % 2
        /\ (s \div 1) \div 2 = s \div 2 /\ (t \div 1) \div 2 = t \div 2
    BY PowTable
  <2>2. QED
    BY <1>1, <2>1, HalfStep
<1>9. QED
  BY <1>0

\* For bit positions below 8, SuffixBit reads bit p of the suffix value:
\* uint8(j) keeps it and uint8(bitSuffixPos) is bitSuffixPos.
LEMMA SuffixBitValue ==
  ASSUME NEW s \in Nat, NEW p \in 0..7
  PROVE  SuffixBit(s, p) = (s \div 2^p) % 2
<1>1. p % 256 = p
  OBVIOUS
<1>2. 2^p \in Nat /\ 0 < 2^p
  BY PowMono
<1>3. (s \div 2^p) % 2 \in {0, 1}
  BY <1>2
<1>4. QED
  BY <1>1, <1>3 DEF SuffixBit, hasBit, ToUint8

\* With at most eight suffix bits, two different suffix values differ in
\* one of the suffixLength bits the suffix loop writes.
LEMMA SuffixesDiffer ==
  ASSUME SuffixLength <= 8, NEW s \in Suffixes, NEW t \in Suffixes, s # t
  PROVE  \E q \in 0..(SuffixLength - 1) :
           SuffixBit(s, SuffixLength - 1 - q) # SuffixBit(t, SuffixLength - 1 - q)
<1>1. SUFFICES ASSUME \A q \in 0..(SuffixLength - 1) :
                        SuffixBit(s, SuffixLength - 1 - q) = SuffixBit(t, SuffixLength - 1 - q)
               PROVE  FALSE
  OBVIOUS
<1>2. s \in 0..(2^SuffixLength - 1) /\ t \in 0..(2^SuffixLength - 1)
  BY DEF Suffixes, bitCombinationsCount
<1>3. \A p \in 0..7 : (s \div 2^p) % 2 = (t \div 2^p) % 2
  <2>1. SUFFICES ASSUME NEW p \in 0..7 PROVE (s \div 2^p) % 2 = (t \div 2^p) % 2
    OBVIOUS
  <2>2. CASE p < SuffixLength
    <3>1. SuffixLength - 1 - p \in 0..(SuffixLength - 1)
          /\ SuffixLength - 1 - (SuffixLength - 1 - p) = p
      BY <2>2
    <3>2. SuffixBit(s, SuffixLength - 1 - (SuffixLength - 1 - p))
          = SuffixBit(t, SuffixLength - 1 - (SuffixLength - 1 - p))
      BY <1>1, <3>1, Zenon
    <3>3. SuffixBit(s, p) = SuffixBit(t, p)
      BY <3>1, <3>2, Zenon
    <3>4. s \in Nat /\ t \in Nat
      BY <1>2
    <3>5. SuffixBit(s, p) = (s \div 2^p) % 2 /\ SuffixBit(t, p) = (t \div 2^p) % 2
      BY <3>4, SuffixBitValue
    <3>6. QED
      BY <3>3, <3>5
  <2>3. CASE SuffixLength <= p
    <3>0. p \in Nat /\ SuffixLength <= p
      BY <2>3
    <3>1. (s \div 2^p) % 2 = 0
      BY <1>2, <3>0, HighZero, Zenon
    <3>2. (t \div 2^p) % 2 = 0
      BY <1>2, <3>0, HighZero, Zenon
    <3>3. QED
      BY <3>1, <3>2
  <2>4. QED
    BY <2>2, <2>3
<1>4. s \in 0..255 /\ t \in 0..255
  <2>1. 2^SuffixLength <= 2^8
    BY PowMono
  <2>2. QED
    BY <1>2, <2>1, PowTable
<1>5. QED
  BY <1>3, <1>4, Bits8

LEMMA SInvInit == Init => SInv
<1> SUFFICES ASSUME Init PROVE SInv
  OBVIOUS
<1>1. \A b \in Bins, s \in Suffixes : ~Completed(b, s)
  BY DEF Init, Completed, Bins, Suffixes
<1>2. QED
  BY PInvInit, <1>1 DEF Init, SInv, SuffixesDone, SuffixCurrent

\* EndClear completes the current entry and no other; the next entry, if
\* any, is at the flip.
LEMMA EndClearCompletes ==
  ASSUME TypeOK, EndClear
  PROVE  /\ \A b \in Bins, s \in Suffixes :
              Completed(b, s)' => Completed(b, s) \/ <<b, s>> = <<i, j>>
         /\ pc' \in {"flip", "done"}
<1>1. CASE j + 1 < bitCombinationsCount /\ j' = j + 1 /\ i' = i /\ pc' = "flip"
  BY <1>1 DEF Completed, TypeOK, Bins, Suffixes
<1>2. CASE j + 1 = bitCombinationsCount /\ i + 1 < MaxBins
           /\ j' = 0 /\ i' = i + 1 /\ pc' = "flip"
  BY <1>2 DEF Completed, TypeOK, Bins, Suffixes
<1>3. CASE j + 1 = bitCombinationsCount /\ i + 1 = MaxBins
           /\ pc' = "done" /\ UNCHANGED <<i, j>>
  BY <1>3 DEF Completed, TypeOK, Bins, Suffixes
<1>4. QED
  BY <1>1, <1>2, <1>3 DEF EndClear, Advance

\* A write at a position past the suffix keeps the suffix bits written.
LEMMA KeepSuffix ==
  ASSUME NEW a \in AddrOfLen(NBytes(base)), NEW v \in AddrOfLen(NBytes(base)),
         NEW b \in Nat, NEW s, NEW n \in Nat, NEW m \in Nat,
         \A x \in Nat : x \div 8 < NBytes(base) /\ x # m => LBit(v, x) = LBit(a, x),
         b + n < m,
         SuffixWritten(a, b, s, n)
  PROVE  SuffixWritten(v, b, s, n)
BY DEF SuffixWritten

LEMMA SInvStep == SInv /\ [Next]_vars => SInv'
<1> SUFFICES ASSUME SInv, [Next]_vars PROVE SInv'
  OBVIOUS
<1> DEFINE NB == NBytes(base)
<1>0. PInv' /\ TypeOK /\ TypeOK'
  BY PInvStep, TypeStep DEF SInv, PInv
<1>1. NB \in 0..MaxAddrBytes /\ Cell \in AddrOfLen(NB) /\ NBytes(Cell) = NB
  BY <1>0, CellLen
<1>2. base' = base
  BY DEF Next, vars, SkipEmpty, Flip, Suffix, EndSuffix, Clear, EndClear,
         IndexOutOfRange
<1>3. SUFFICES ASSUME NB > 0 PROVE SuffixesDone' /\ SuffixCurrent'
  BY <1>0, <1>2 DEF SInv
<1>4. SuffixesDone /\ SuffixCurrent /\ i \in Nat /\ j \in Suffixes /\ l \in Nat
  BY <1>0, <1>3 DEF SInv, TypeOK, Bins
<1>5. CASE SkipEmpty
  BY <1>1, <1>3, <1>5 DEF SkipEmpty
<1>6. CASE Flip
  <2>1. \A b \in Bins, s \in Suffixes :
          <<b, s>> # <<i, j>> => binPrefixes'[b][s] = binPrefixes[b][s]
    BY <1>0, <1>6, WriteFrame DEF Flip
  <2>2. /\ \A b \in Bins, s \in Suffixes : Completed(b, s)' <=> Completed(b, s)
        /\ ~Completed(i, j)
    BY <1>0, <1>6 DEF Flip, Completed, TypeOK, Bins, Suffixes
  <2>3. SuffixesDone'
    BY <1>2, <1>4, <2>1, <2>2 DEF SuffixesDone, SuffixWritten
  <2>4. SuffixCurrent'
    BY <1>2, <1>4, <1>6 DEF Flip, SuffixCurrent, SuffixWritten
  <2>5. QED
    BY <2>3, <2>4
<1>7. CASE Suffix
  <2> DEFINE v == IF SuffixBit(j, bitSuffixPos) = 1
                  THEN SetAt(Cell, l) ELSE ClearAt(Cell, l)
  <2>1. /\ l \div 8 < NB /\ l \in (i + 1)..(i + SuffixLength)
        /\ bitSuffixPos = i + SuffixLength - l
        /\ SuffixWritten(Cell, i, j, l - i - 1)
    BY <1>1, <1>4, <1>7 DEF Suffix, SuffixCurrent
  <2>2. binPrefixes'[i][j] = v
        /\ \A b \in Bins, s \in Suffixes :
             <<b, s>> # <<i, j>> => binPrefixes'[b][s] = binPrefixes[b][s]
    BY <1>0, <1>7, WriteFrame DEF Suffix
  <2>3. /\ LBit(v, l) = SuffixBit(j, bitSuffixPos)
        /\ \A x \in Nat : x \div 8 < NB /\ x # l => LBit(v, x) = LBit(Cell, x)
    BY <1>1, <1>4, <2>1, LBitWrite DEF SuffixBit
  <2>4. SuffixWritten(v, i, j, l - i)
    BY <1>4, <2>1, <2>3 DEF SuffixWritten
  <2>5. /\ \A b \in Bins, s \in Suffixes : Completed(b, s)' <=> Completed(b, s)
        /\ ~Completed(i, j)
    BY <1>0, <1>7 DEF Suffix, Completed, TypeOK, Bins, Suffixes
  <2>6. SuffixesDone'
    BY <1>2, <1>4, <2>2, <2>5 DEF SuffixesDone, SuffixWritten
  <2>7. SuffixCurrent'
    <3>1. Cell' = v /\ pc' = "suffix" /\ i' = i /\ j' = j
      BY <1>7, <2>2 DEF Suffix, Cell
    <3>2. /\ l' \in (i + 1)..(i + SuffixLength + 1)
          /\ bitSuffixPos' = i + SuffixLength - l'
          /\ l' - i - 1 = l - i
      BY <1>4, <1>7, <2>1 DEF Suffix
    <3>3. SuffixWritten(Cell, i, j, l - i - 1)' = SuffixWritten(v, i, j, l - i)
      BY <1>2, <3>1, <3>2 DEF SuffixWritten
    <3>4. QED
      BY <2>4, <3>1, <3>2, <3>3 DEF SuffixCurrent
  <2>8. QED
    BY <2>6, <2>7
<1>8. CASE EndSuffix
  <2>1. l = i + SuffixLength + 1 /\ SuffixWritten(Cell, i, j, SuffixLength)
    BY <1>4, <1>8 DEF EndSuffix, SuffixCurrent
  <2>2. SuffixesDone'
    BY <1>2, <1>4, <1>8 DEF EndSuffix, SuffixesDone, SuffixWritten, Completed
  <2>3. SuffixCurrent'
    BY <1>2, <1>8, <2>1 DEF EndSuffix, SuffixCurrent, SuffixWritten, Cell
  <2>4. QED
    BY <2>2, <2>3
<1>9. CASE Clear
  <2> DEFINE v == ClearAt(Cell, l)
  <2>1. /\ l \div 8 < NB /\ l >= i + SuffixLength + 1
        /\ SuffixWritten(Cell, i, j, SuffixLength)
    BY <1>1, <1>4, <1>9 DEF Clear, SuffixCurrent
  <2>2. binPrefixes'[i][j] = v
        /\ \A b \in Bins, s \in Suffixes :
             <<b, s>> # <<i, j>> => binPrefixes'[b][s] = binPrefixes[b][s]
    BY <1>0, <1>9, WriteFrame DEF Clear
  <2>3. v \in AddrOfLen(NB)
        /\ \A x \in Nat : x \div 8 < NB /\ x # l => LBit(v, x) = LBit(Cell, x)
    BY <1>1, <1>4, <2>1, LBitWrite, WriteType
  <2>4. SuffixWritten(v, i, j, SuffixLength)
    <3>1. i + SuffixLength < l /\ SuffixLength \in Nat
      BY <1>4, <2>1
    <3>2. QED
      BY <1>1, <1>4, <2>1, <2>3, <3>1, KeepSuffix
  <2>5. /\ \A b \in Bins, s \in Suffixes : Completed(b, s)' <=> Completed(b, s)
        /\ ~Completed(i, j)
    BY <1>0, <1>9 DEF Clear, Completed, TypeOK, Bins, Suffixes
  <2>6. SuffixesDone'
    BY <1>2, <1>4, <2>2, <2>5 DEF SuffixesDone, SuffixWritten
  <2>7. SuffixCurrent'
    <3>1. Cell' = v /\ pc' = "clear" /\ i' = i /\ j' = j /\ l' >= i + SuffixLength + 1
      BY <1>4, <1>9, <2>1, <2>2 DEF Clear, Cell
    <3>2. SuffixWritten(Cell, i, j, SuffixLength)' = SuffixWritten(v, i, j, SuffixLength)
      BY <1>2, <3>1 DEF SuffixWritten
    <3>3. QED
      BY <2>4, <3>1, <3>2 DEF SuffixCurrent
  <2>8. QED
    BY <2>6, <2>7
<1>10. CASE EndClear
  <2>1. SuffixWritten(Cell, i, j, SuffixLength) /\ UNCHANGED binPrefixes
    BY <1>4, <1>10 DEF EndClear, SuffixCurrent
  <2>2. /\ \A b \in Bins, s \in Suffixes :
             Completed(b, s)' => Completed(b, s) \/ <<b, s>> = <<i, j>>
        /\ pc' \in {"flip", "done"}
    BY <1>0, <1>10, EndClearCompletes
  <2>3. SuffixesDone'
    BY <1>2, <1>4, <2>1, <2>2 DEF SuffixesDone, SuffixWritten, Cell
  <2>4. SuffixCurrent'
    BY <2>2 DEF SuffixCurrent
  <2>5. QED
    BY <2>3, <2>4
<1>11. CASE IndexOutOfRange
  BY <1>2, <1>4, <1>11
  DEF IndexOutOfRange, SuffixesDone, SuffixCurrent, SuffixWritten, Completed
<1>12. CASE UNCHANGED vars
  BY <1>4, <1>12 DEF vars, SuffixesDone, SuffixCurrent, SuffixWritten, Completed, Cell
<1>13. QED
  BY <1>5, <1>6, <1>7, <1>8, <1>9, <1>10, <1>11, <1>12 DEF Next

(***************************************************************************)
(* Generator distinctness for every number of bins and set of bases, and  *)
(* every suffix length up to 8: in the result generateCommonBinPrefixes   *)
(* returns for a non-empty base, bin b holds 2^suffixLength different     *)
(* addresses.  The bound is the code's: bitSuffixes[j] is uint8(j), so    *)
(* from suffixLength 9 on, j and j + 256 write the same bits.             *)
(***************************************************************************)
THEOREM SuffixDistinctCorrect ==
  ASSUME SuffixLength <= 8
  PROVE  Spec => []SuffixDistinct
<1>1. SInv => SuffixDistinct
  <2> SUFFICES ASSUME SInv, pc = "done", NBytes(base) > 0, NEW b \in Bins
               PROVE  Cardinality({binPrefixes[b][s] : s \in Suffixes})
                        = bitCombinationsCount
    BY DEF SuffixDistinct
  <2> DEFINE E == {binPrefixes[b][s] : s \in Suffixes}
             f == [s \in Suffixes |-> binPrefixes[b][s]]
  <2>1. \A s \in Suffixes : SuffixWritten(binPrefixes[b][s], b, s, SuffixLength)
    BY DEF SInv, SuffixesDone, Completed
  <2>2. \A s, t \in Suffixes : s # t => binPrefixes[b][s] # binPrefixes[b][t]
    <3> SUFFICES ASSUME NEW s \in Suffixes, NEW t \in Suffixes, s # t
                 PROVE  binPrefixes[b][s] # binPrefixes[b][t]
      OBVIOUS
    <3>1. PICK q \in 0..(SuffixLength - 1) :
            SuffixBit(s, SuffixLength - 1 - q) # SuffixBit(t, SuffixLength - 1 - q)
      BY SuffixesDiffer
    <3>2. /\ LBit(binPrefixes[b][s], b + 1 + q) = SuffixBit(s, SuffixLength - 1 - q)
          /\ LBit(binPrefixes[b][t], b + 1 + q) = SuffixBit(t, SuffixLength - 1 - q)
      BY <2>1, <3>1 DEF SuffixWritten
    <3>3. QED
      BY <3>1, <3>2
  <2>3. f \in Surjection(Suffixes, E) /\ f \in Injection(Suffixes, E)
    BY <2>2 DEF Surjection, Injection, IsInjective
  <2>4. IsFiniteSet(Suffixes) /\ Cardinality(Suffixes) = bitCombinationsCount
    BY CombinationsPositive, FS_Interval DEF Suffixes
  <2>5. QED
    BY <2>3, <2>4, FS_Surjection
<1>2. QED
  BY SInvInit, SInvStep, <1>1, PTL DEF Spec
=============================================================================
