------------------------------ MODULE MCVault ------------------------------
(***************************************************************************)
(* Values of Vault's constants for TLC: a fixed secret and a custom one    *)
(* with files of their own, or two secrets that share a file.              *)
(***************************************************************************)
EXTENDS Vault, TLC

CONSTANTS s1, s2, p1, p2

WalletSeed   == [custom |-> FALSE, stem |-> "wallet", suffixes |-> 0]
Custom(name) == [custom |-> TRUE, stem |-> name, suffixes |-> 0]

MCIds        == {WalletSeed, Custom("api")}
MCSharedIds  == {WalletSeed, Custom("wallet")}
MCFixedStems == {"wallet", "stripe_secret", "stripe_webhook"}
MCSymmetry   == Permutations({s1, s2}) \cup Permutations({p1, p2})
=============================================================================
