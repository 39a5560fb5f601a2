---------------------------- MODULE MCSocUpload ----------------------------
(* Model-checking instance of SocUpload: three uploads to one address,   *)
(* two of them with the same payload.                                     *)
EXTENDS SocUpload

CONSTANTS u1, u2, u3, p1, p2

MCRequests == {u1, u2, u3}
MCPayload == [r \in MCRequests |-> IF r = u2 THEN p2 ELSE p1]
=============================================================================
