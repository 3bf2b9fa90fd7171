------------------------ MODULE MCAssetHubListener ------------------------
(***************************************************************************)
(* Values of AssetHubListener's constants for TLC: blocks of one and two   *)
(* transfers, of a known asset and of another.                             *)
(***************************************************************************)
EXTENDS AssetHubListener, TLC

CONSTANTS a1, a2, u1, u2

Pays(a)    == [to |-> a, known |-> TRUE]
Unknown(a) == [to |-> a, known |-> FALSE]

MCBlocks   == {<<Pays(a1)>>, <<Pays(a1), Pays(a2)>>, <<Unknown(a2), Pays(a1)>>}
MCOne      == {<<Pays(a1)>>, <<Pays(a1), Pays(a1)>>}
=============================================================================
