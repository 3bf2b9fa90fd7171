---------------------------- MODULE MCTransfers ----------------------------
(***************************************************************************)
(* Values of Transfers' constants for TLC.  The first key owns, the second *)
(* is its delegate; each has a derived address, the account it signs with  *)
(* and a keyless account.                                                  *)
(***************************************************************************)
EXTENDS Transfers, TLC

CONSTANTS k1, k2, a1, a2, s1, s2, p1, p2, cold, c1, c2, c3, c4

MCAddressOf == (k1 :> a1) @@ (k2 :> a2)
MCSignerOf  == (k1 :> s1) @@ (k2 :> s2)
MCPureOf    == (s1 :> p1) @@ (s2 :> p2) @@ [a \in Accounts \ {s1, s2} |-> a]
MCFunds     == [a \in Accounts |-> CASE a = s1 -> 4 [] a \in {a1, p2} -> 3 [] OTHER -> 0]

Sweep(amount, to) ==
  [op |-> "sweep", key |-> k1, to |-> to, amount |-> amount, min |-> 2, keep |-> 2]
Granting(op, delay) == [op |-> op, key |-> k1, delegate |-> s2, delay |-> delay]
Proxy(key, real)    == [op |-> "proxy_transfer", key |-> key, real |-> real, to |-> cold, amount |-> 2]
Announce            == [op |-> "announce", key |-> k2, real |-> s1, to |-> cold, amount |-> 2]
Delay(delegate)     == [op |-> "proxy_announced_transfer", key |-> k2, delegate |-> delegate,
                        real |-> s1, to |-> cold, amount |-> 2]

MCSweeps   == {Sweep(4, cold), Sweep(3, cold), Sweep(2, cold), Sweep(1, cold), Sweep(4, Malformed)}
MCGrants   == {Granting("add_proxy", 0), Granting("add_proxy", 1), Granting("remove_proxy", 1)}
MCProxied  == {Announce, Delay(s2), Proxy(k2, s1), Proxy(k2, p2)}
MCRequests == MCSweeps \cup MCGrants \cup MCProxied \cup {[op |-> "create_pure_proxy", key |-> k2, delay |-> 0]}

MCSymmetry == Permutations(Calls \ Retries)
=============================================================================
