---------------------------- MODULE MCBinPrefix ----------------------------
(* Model-checking instance of BinPrefix: base addresses of 0, 1 and 2     *)
(* bytes, so that the empty-slice skip, the in-range loops and the index  *)
(* past the end of a short slice are all reached.                         *)
EXTENDS BinPrefix

\* A 0-byte, a 1-byte and a 2-byte base address.
MCBases ==
  { [b \in {} |-> ToUint8(0)],
    [b \in 0..0 |-> ToUint8(165)],
    [b \in 0..1 |-> ToUint8(IF b = 0 THEN 90 ELSE 195)] }

\* The 1-byte base of the spec's toy scenario (section 8): 0b00000000.
MCToyBase == { [b \in 0..0 |-> ToUint8(0)] }

=============================================================================
