------------------------ MODULE MCPenumbraListener ------------------------
(***************************************************************************)
(* Values of PenumbraListener's constants for TLC: two notes of one index  *)
(* and a third, of an asset that is not credited, of another.              *)
(***************************************************************************)
EXTENDS PenumbraListener, TLC

CONSTANTS n1, n2, n3, i1, i2, u1, u2

MCIndexOf == (n1 :> i1) @@ (n2 :> i1) @@ (n3 :> i2)
=============================================================================
