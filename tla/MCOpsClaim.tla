---------------------------- MODULE MCOpsClaim ----------------------------
(***************************************************************************)
(* Small instances of OpsClaim.                                            *)
(***************************************************************************)
EXTENDS OpsClaim, TLC

CONSTANTS r1, r2, r3, w1, w2

MCRequests == {r1, r2, r3}
HomeTwo == [r \in MCRequests |-> IF r = r3 THEN w2 ELSE w1]
=============================================================================
