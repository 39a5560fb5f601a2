--------------------------- MODULE MCFileRegister ---------------------------
(* Model-checking instance of FileRegister: two POST requests and one     *)
(* DELETE request for the same address.                                    *)
EXTENDS FileRegister

CONSTANTS g1, g2, d1

MCRegReqs == {g1, g2}
MCRemReqs == {d1}
=============================================================================
