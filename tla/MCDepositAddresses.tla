------------------------- MODULE MCDepositAddresses -------------------------
(* An instance of DepositAddresses: users called u, u1 and u//1, and three       *)
(* indices, written 1, 11 and 111.                                                *)
EXTENDS DepositAddresses

MCUsers == {<<"u">>, <<"u", "1">>, <<"u", "/", "/", "1">>}

MCNumeral == [i \in 0..2 |-> [digit \in 1..i + 1 |-> "1"]]

\* u and u//1 have the same Penumbra indices, u1 has them one further.
MCHash == [p \in MCUsers \X (0..2) |-> IF Len(p[1]) = 2 THEN 1 ELSE 0]

\* Everybody new, or at the last index.
MCStored == {[u \in MCUsers |-> i] : i \in {0, 2}}

\* Two of them have the same first 32 bytes, and one is too short.
MCSeeds == {Seed(32, "a", ""), Seed(64, "a", "b"), Seed(16, "c", "")}
=============================================================================
