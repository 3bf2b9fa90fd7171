-------------------------- MODULE MCZcashListener --------------------------
(* Instances of ZcashListener: two transactions, one of them paying both    *)
(* addresses, on a chain short enough for every reorganisation.             *)
EXTENDS ZcashListener

CONSTANTS t1, t2, a1, a2, u1, u2

MCPays == (t1 :> <<a1, a2>>) @@ (t2 :> <<a2>>)
=============================================================================
