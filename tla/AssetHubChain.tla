--------------------------- MODULE AssetHubChain ---------------------------
(***************************************************************************)
(* What hwpay's sweeper and proxy manager use of Asset Hub: balances of    *)
(* one asset, moved by transfer_keep_alive, and the proxy pallet with its  *)
(* delays and announcements.  The chain is no part of the repository: it   *)
(* is modelled from the calls src/src/sweep.rs and src/src/proxy.rs make.  *)
(*                                                                         *)
(* An extrinsic is a record with a kind, a signer and its arguments.  Only *)
(* finalized blocks are seen.                                              *)
(***************************************************************************)
EXTENDS Naturals, FiniteSets, FiniteSetsExt

CONSTANTS
  Accounts,
  PureOf,     \* the keyless account that each account may create
  Funds,      \* the balances at first
  MaxHeight   \* bound: blocks

ASSUME AccountsAssumption == PureOf \in [Accounts -> Accounts] /\ Funds \in [Accounts -> Nat]
ASSUME HeightAssumption == MaxHeight \in Nat

VARIABLES
  balance,
  proxies,       \* grants: a delegate may act for a real account, after a delay
  announcements, \* of payments, by their delegates
  height

chain == <<balance, proxies, announcements, height>>

Grant(real, delegate, delay) == [real |-> real, delegate |-> delegate, delay |-> delay]
Grants == [real : Accounts, delegate : Accounts, delay : Nat]
Announcements == [real : Accounts, delegate : Accounts, to : Accounts, amount : Nat, height : Nat]

ChainInit ==
  /\ balance = Funds
  /\ proxies = {}
  /\ announcements = {}
  /\ height = 0

ChainTypeOK ==
  /\ balance \in [Accounts -> Nat]
  /\ proxies \subseteq Grants
  /\ announcements \subseteq Announcements
  /\ height \in 0..MaxHeight

-----------------------------------------------------------------------------
(* Payments *)

\* transfer_keep_alive leaves the payer its existential deposit, here 1.
CanPay(from, amount) == amount < balance[from]

Payment(from, to, amount) ==
  balance' = [a \in Accounts |-> balance[a] + (IF a = to THEN amount ELSE 0)
                                            - (IF a = from THEN amount ELSE 0)]

\* What an extrinsic pays from, and on whose behalf a delegate acts.
Payer(e)    == IF e.kind = "transfer" THEN e.signer ELSE e.real
Delegate(e) == IF e.kind = "proxy_announced" THEN e.delegate ELSE e.signer
IsPayment(e) == e.kind \in {"transfer", "proxy", "proxy_announced"}

\* The pallet acts on the first grant it finds, that of the shortest delay.
DelaysFor(e) == {g.delay : g \in {h \in proxies : h.real = e.real /\ h.delegate = Delegate(e)}}
DelayFor(e)  == Min(DelaysFor(e))

Age(a) == height - a.height
Announced(e) == {a \in announcements :
  /\ a.real = e.real /\ a.delegate = Delegate(e)
  /\ a.to = e.to /\ a.amount = e.amount}
Mature(e) == {a \in Announced(e) : DelayFor(e) <= Age(a)}

-----------------------------------------------------------------------------
(* Extrinsics *)

GrantOf(e) == Grant(e.real, e.delegate, e.delay)

Accepts(e) ==
  \/ e.kind = "transfer" /\ CanPay(e.signer, e.amount)
  \/ e.kind = "proxy" /\ DelaysFor(e) # {} /\ DelayFor(e) = 0
  \/ e.kind = "proxy_announced" /\ DelaysFor(e) # {} /\ Mature(e) # {}
  \/ e.kind = "announce" /\ DelaysFor(e) # {}
  \/ e.kind = "add_proxy" /\ e.delegate # e.real /\ GrantOf(e) \notin proxies
  \/ e.kind = "remove_proxy" /\ GrantOf(e) \in proxies
  \/ e.kind = "create_pure" /\ \A g \in proxies : g.real # e.real

\* A proxied payment that cannot be made still uses up its announcements, and its
\* extrinsic succeeds.
ExecutePayment(e) ==
  /\ IsPayment(e)
  /\ IF CanPay(Payer(e), e.amount) THEN Payment(Payer(e), e.to, e.amount) ELSE UNCHANGED balance
  /\ announcements' = IF e.kind = "proxy_announced" THEN announcements \ Mature(e) ELSE announcements
  /\ UNCHANGED <<proxies, height>>

ExecuteAnnounce(e) ==
  /\ e.kind = "announce"
  /\ announcements' = announcements \cup
       {[real |-> e.real, delegate |-> e.signer, to |-> e.to, amount |-> e.amount, height |-> height]}
  /\ UNCHANGED <<balance, proxies, height>>

ExecuteGrant(e) ==
  /\ e.kind \in {"add_proxy", "create_pure"}
  /\ proxies' = proxies \cup {GrantOf(e)}
  /\ UNCHANGED <<balance, announcements, height>>

\* Announcements stay, and are of no use without a grant.
ExecuteRemove(e) ==
  /\ e.kind = "remove_proxy"
  /\ proxies' = proxies \ {GrantOf(e)}
  /\ UNCHANGED <<balance, announcements, height>>

Execute(e) == ExecutePayment(e) \/ ExecuteAnnounce(e) \/ ExecuteGrant(e) \/ ExecuteRemove(e)

NewBlock ==
  /\ height < MaxHeight
  /\ height' = height + 1
  /\ UNCHANGED <<balance, proxies, announcements>>

Deposit(a) ==
  /\ balance' = [balance EXCEPT ![a] = @ + 1]
  /\ UNCHANGED <<proxies, announcements, height>>
=============================================================================
