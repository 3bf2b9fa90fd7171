----------------------------- MODULE Transfers -----------------------------
(***************************************************************************)
(* The sweeper and the proxy manager, src/src/sweep.rs and                 *)
(* src/src/proxy.rs.  Each call builds an extrinsic, signs and submits it, *)
(* waits until it is finalized and then asks for its success.  Any of the  *)
(* three requests to the node may fail, or the caller may give up, and     *)
(* nothing undoes what was submitted before.  Calls run concurrently: the  *)
(* clients are shared.                                                     *)
(*                                                                         *)
(* The signer is made from the first half of the derived secret, taken as  *)
(* a seed (sr25519_pair_from_secret), and its account is therefore another *)
(* than the derived address.                                               *)
(***************************************************************************)
EXTENDS AssetHubChain

CONSTANTS
  Keys,        \* pairs of a user and an index
  AddressOf,   \* derive_address: the account of each key
  SignerOf,    \* the account its extrinsics are signed by
  Malformed,   \* an address that does not decode
  Calls,       \* a call's own identity
  Retries,     \* bound: the calls that are made only to repeat an announced transfer
               \* whose first call has ended in an error
  Requests,    \* the arguments the application makes calls with
  None,
  MaxFaults,   \* bound: requests to the node that fail, and callers that give up
  MaxDeposits  \* bound: deposits

NoCall    == [op |-> "none"]
Addresses == Accounts \cup {Malformed}

Sweeps == [op : {"sweep"}, key : Keys, to : Addresses, amount : Nat, min : Nat, keep : Nat]
Proxied == [op : {"proxy_transfer"}, key : Keys, real : Addresses, to : Addresses, amount : Nat]
Announces == [op : {"announce"}, key : Keys, real : Addresses, to : Accounts, amount : Nat]
Delayed == [op : {"proxy_announced_transfer"}, key : Keys, delegate : Addresses,
            real : Addresses, to : Addresses, amount : Nat]
Grantings == [op : {"add_proxy", "remove_proxy"}, key : Keys, delegate : Addresses, delay : Nat]
Creations == [op : {"create_pure_proxy"}, key : Keys, delay : Nat]

ASSUME KeysAssumption ==
  /\ {AddressOf, SignerOf} \subseteq [Keys -> Accounts]
  /\ \A k, l \in Keys : AddressOf[k] # SignerOf[l]
  /\ \A k, l \in Keys : PureOf[SignerOf[k]] # SignerOf[l]
ASSUME RequestsAssumption ==
  Requests \subseteq Sweeps \cup Proxied \cup Announces \cup Delayed \cup Grantings \cup Creations
ASSUME NamesAssumption == Malformed \notin Accounts /\ None \notin Accounts
ASSUME RetriesAssumption == Retries \subseteq Calls
ASSUME BoundsAssumption == {MaxFaults, MaxDeposits} \subseteq Nat

VARIABLES
  connected,  \* the client is there
  request,    \* the arguments of each call
  pc,         \* its place: the await it is at, or how it returned
  status,     \* what became of its extrinsic
  faults, deposits,
  \* history, read by no action:
  executed,   \* the order in which extrinsics were executed, 0 for not at all
  moved,      \* what a call's extrinsic moved
  payer,      \* from which account
  waited,     \* how long that had been announced
  fresh       \* nothing else left the signer's account since the call began

bounds  == <<faults, deposits>>
history == <<executed, moved, payer, waited, fresh>>
vars    == <<chain, connected, request, pc, status, bounds, history>>

Pending == {"submit", "finalize", "success"}

Init ==
  /\ ChainInit
  /\ connected = FALSE
  /\ request = [c \in Calls |-> NoCall]
  /\ pc = [c \in Calls |-> "idle"]
  /\ status = [c \in Calls |-> "none"]
  /\ faults = 0 /\ deposits = 0
  /\ executed = [c \in Calls |-> 0] /\ moved = [c \in Calls |-> 0]
  /\ payer = [c \in Calls |-> None] /\ waited = [c \in Calls |-> 0]
  /\ fresh = [c \in Calls |-> FALSE]

-----------------------------------------------------------------------------
(* The extrinsics *)

\* Mutant: the reserve is not kept back.
SweepAmountWhole(r) == r.amount

SweepAmount(r) == IF r.keep < r.amount THEN r.amount - r.keep ELSE 0

\* min is 0 in sweep_native, which has no minimum.
Declined(r) == r.op = "sweep" /\ (r.amount < r.min \/ SweepAmount(r) = 0)

\* The addresses of r that are decoded.
Decoded(r) == {r[f] : f \in DOMAIN r \cap {"to", "real", "delegate"}}
Refused(r) == ~connected \/ Declined(r) \/ Malformed \in Decoded(r)

sweep(r) ==
  [kind |-> "transfer", signer |-> SignerOf[r.key], to |-> r.to, amount |-> SweepAmount(r)]

create_pure_proxy(r) ==
  [kind |-> "create_pure", signer |-> SignerOf[r.key], real |-> PureOf[SignerOf[r.key]],
   delegate |-> SignerOf[r.key], delay |-> r.delay]

\* Mutant: the configured delay is left out.
add_proxy_undelayed(r) ==
  [kind |-> "add_proxy", signer |-> SignerOf[r.key], real |-> SignerOf[r.key],
   delegate |-> r.delegate, delay |-> 0]

add_proxy(r) ==
  [kind |-> "add_proxy", signer |-> SignerOf[r.key], real |-> SignerOf[r.key],
   delegate |-> r.delegate, delay |-> r.delay]

remove_proxy(r) ==
  [kind |-> "remove_proxy", signer |-> SignerOf[r.key], real |-> SignerOf[r.key],
   delegate |-> r.delegate, delay |-> r.delay]

proxy_transfer(r) ==
  [kind |-> "proxy", signer |-> SignerOf[r.key], real |-> r.real, to |-> r.to, amount |-> r.amount]

\* The caller computes the hash: here, the payment it stands for.
announce(r) ==
  [kind |-> "announce", signer |-> SignerOf[r.key], real |-> r.real, to |-> r.to, amount |-> r.amount]

\* Mutant: sent as a proxy call, which asks for no announcement.
proxy_unannounced_transfer(r) ==
  [kind |-> "proxy", signer |-> SignerOf[r.key], delegate |-> r.delegate,
   real |-> r.real, to |-> r.to, amount |-> r.amount]

proxy_announced_transfer(r) ==
  [kind |-> "proxy_announced", signer |-> SignerOf[r.key], delegate |-> r.delegate,
   real |-> r.real, to |-> r.to, amount |-> r.amount]

Extrinsic(r) ==
  CASE r.op = "sweep"             -> sweep(r)
    [] r.op = "create_pure_proxy" -> create_pure_proxy(r)
    [] r.op = "add_proxy"         -> add_proxy(r)
    [] r.op = "remove_proxy"      -> remove_proxy(r)
    [] r.op = "proxy_transfer"    -> proxy_transfer(r)
    [] r.op = "announce"          -> announce(r)
    [] r.op = "proxy_announced_transfer" -> proxy_announced_transfer(r)

-----------------------------------------------------------------------------
(* The node: an extrinsic in its pool is executed once, or dropped *)

Finalize(c) ==
  LET e == Extrinsic(request[c])
      pays == IsPayment(e) /\ CanPay(Payer(e), e.amount)
  IN
  /\ status[c] = "pool"
  /\ Accepts(e)
  /\ Execute(e)
  /\ status' = [status EXCEPT ![c] = "ok"]
  /\ executed' = [executed EXCEPT ![c] = 1 + Max({executed[d] : d \in Calls})]
  /\ moved' = [moved EXCEPT ![c] = IF pays THEN e.amount ELSE 0]
  /\ payer' = [payer EXCEPT ![c] = IF pays THEN Payer(e) ELSE None]
  /\ waited' = [waited EXCEPT ![c] =
       IF e.kind = "proxy_announced" THEN Max({Age(a) : a \in Mature(e)}) ELSE 0]
  /\ fresh' = [d \in Calls |-> fresh[d] /\ (d = c \/ ~pays \/ Payer(e) # SignerOf[request[d].key])]
  /\ UNCHANGED <<connected, request, pc, bounds>>

FinalizeFailing(c) ==
  /\ status[c] = "pool"
  /\ ~Accepts(Extrinsic(request[c]))
  /\ status' = [status EXCEPT ![c] = "failed"]
  /\ UNCHANGED <<chain, connected, request, pc, bounds, history>>

DropExtrinsic(c) ==
  /\ status[c] = "pool"
  /\ status' = [status EXCEPT ![c] = "dropped"]
  /\ UNCHANGED <<chain, connected, request, pc, bounds, history>>

Mine == NewBlock /\ UNCHANGED <<connected, request, pc, status, bounds, history>>

Receive == \E k \in Keys :
  /\ deposits < MaxDeposits /\ deposits' = deposits + 1
  /\ Deposit(SignerOf[k])
  /\ UNCHANGED <<connected, request, pc, status, faults, history>>

-----------------------------------------------------------------------------
(* A call *)

\* connect borrows its client mutably: no call is in progress.
Connect ==
  /\ ~connected /\ connected' = TRUE
  /\ \A c \in Calls : pc[c] \notin Pending
  /\ UNCHANGED <<chain, request, pc, status, bounds, history>>

\* The application calls proxy_announced_transfer again after an error.
Repeats(r) ==
  /\ r.op = "proxy_announced_transfer"
  /\ \E d \in Calls \ Retries : request[d] = r /\ pc[d] = "error"

Begin(c, r) ==
  /\ pc[c] = "idle"
  /\ c \in Retries => Repeats(r)
  /\ request' = [request EXCEPT ![c] = r]
  /\ pc' = [pc EXCEPT ![c] = IF Refused(r) THEN "refused" ELSE "submit"]
  /\ fresh' = [fresh EXCEPT ![c] = r.op = "sweep" /\ r.amount <= balance[SignerOf[r.key]]]
  /\ UNCHANGED <<chain, connected, status, bounds, executed, moved, payer, waited>>

Submit(c) ==
  /\ pc[c] = "submit"
  /\ status' = [status EXCEPT ![c] = "pool"]
  /\ pc' = [pc EXCEPT ![c] = "finalize"]
  /\ UNCHANGED <<chain, connected, request, bounds, history>>

\* Mutant: the answer is taken before the block is finalized.
FinalizedEarly(c) ==
  /\ pc[c] = "finalize"
  /\ status[c] \in {"pool", "ok", "failed"}
  /\ pc' = [pc EXCEPT ![c] = "success"]
  /\ UNCHANGED <<chain, connected, request, status, bounds, history>>

Finalized(c) ==
  /\ pc[c] = "finalize"
  /\ status[c] \in {"ok", "failed"}
  /\ pc' = [pc EXCEPT ![c] = "success"]
  /\ UNCHANGED <<chain, connected, request, status, bounds, history>>

Succeeds(c) ==
  /\ pc[c] = "success"
  /\ status[c] = "ok"
  /\ pc' = [pc EXCEPT ![c] = "ok"]
  /\ UNCHANGED <<chain, connected, request, status, bounds, history>>

\* Mutant: the events of the block are not asked for the extrinsic's failure.
FailsUnnoticed(c) ==
  /\ \/ pc[c] = "finalize" /\ status[c] = "dropped"
     \/ pc[c] = "success" /\ status[c] = "failed"
  /\ pc' = [pc EXCEPT ![c] = IF pc[c] = "success" THEN "ok" ELSE "error"]
  /\ UNCHANGED <<chain, connected, request, status, bounds, history>>

\* The extrinsic is dropped, or is finalized and fails.
Fails(c) ==
  /\ \/ pc[c] = "finalize" /\ status[c] = "dropped"
     \/ pc[c] = "success" /\ status[c] = "failed"
  /\ pc' = [pc EXCEPT ![c] = "error"]
  /\ UNCHANGED <<chain, connected, request, status, bounds, history>>

\* Mutant: an error while it waits for the block is ignored.
GivesUpQuietly(c) ==
  /\ faults < MaxFaults /\ faults' = faults + 1
  /\ pc[c] \in Pending
  /\ pc' = [pc EXCEPT ![c] = IF pc[c] = "finalize" THEN "ok" ELSE "error"]
  /\ \/ UNCHANGED status
     \/ pc[c] = "submit" /\ status' = [status EXCEPT ![c] = "pool"]
  /\ UNCHANGED <<chain, connected, request, deposits, history>>

\* A request to the node fails, or the caller drops the future.  Of a submission it
\* is not known whether the node has taken it.
GivesUp(c) ==
  /\ faults < MaxFaults /\ faults' = faults + 1
  /\ pc[c] \in Pending
  /\ pc' = [pc EXCEPT ![c] = "error"]
  /\ \/ UNCHANGED status
     \/ pc[c] = "submit" /\ status' = [status EXCEPT ![c] = "pool"]
  /\ UNCHANGED <<chain, connected, request, deposits, history>>

Node(c)   == Finalize(c) \/ FinalizeFailing(c) \/ DropExtrinsic(c)
Caller(c) == (\E r \in Requests : Begin(c, r)) \/ Submit(c) \/ Finalized(c) \/ Succeeds(c)
             \/ Fails(c) \/ GivesUp(c)

Next == Connect \/ Mine \/ Receive \/ (\E c \in Calls : Node(c) \/ Caller(c))

Spec == Init /\ [][Next]_vars

-----------------------------------------------------------------------------
(* Properties *)

\* The types, and what a call's place says of its extrinsic.
TypeOK ==
  /\ ChainTypeOK
  /\ connected \in BOOLEAN
  /\ request \in [Calls -> Requests \cup {NoCall}]
  /\ pc \in [Calls -> Pending \cup {"idle", "refused", "error", "ok"}]
  /\ status \in [Calls -> {"none", "pool", "dropped", "failed", "ok"}]
  /\ faults \in 0..MaxFaults /\ deposits \in 0..MaxDeposits
  /\ {executed, moved, waited} \subseteq [Calls -> Nat]
  /\ payer \in [Calls -> Accounts \cup {None}] /\ fresh \in [Calls -> BOOLEAN]
  /\ \A c \in Calls :
       /\ pc[c] = "idle" <=> request[c] = NoCall
       /\ pc[c] \in {"idle", "refused", "submit"} => status[c] = "none"
       /\ pc[c] = "success" => status[c] \in {"failed", "ok"}
       /\ status[c] = "ok" <=> executed[c] # 0

IsProxied(r) == r.op \in {"proxy_transfer", "proxy_announced_transfer"}

\* What a call returns is so, and stays so: a sweep that reports success has moved
\* amount_swept, a proxied transfer that returns a hash was executed, whether or not the
\* payment in it could be made, and a call that was refused moves nothing, ever.  An
\* error after submission says nothing: sweep_assets, proxy_transfer.
AnswersAreTrue == \A c \in Calls :
  /\ pc[c] = "ok" => executed[c] # 0
  /\ pc[c] = "ok" /\ request[c].op = "sweep" =>
       moved[c] = SweepAmount(request[c])
  /\ pc[c] = "ok" /\ IsProxied(request[c]) => moved[c] \in {0, request[c].amount}
  /\ pc[c] = "refused" => executed[c] = 0

\* A sweep leaves keep_for_fees, "keep this much in source for fees", unless something
\* else left the account since the caller read its balance.
ReserveIsKept == [][\A c \in Calls :
  (moved'[c] # moved[c] /\ request[c].op = "sweep" /\ fresh[c])
    => balance'[SignerOf[request[c].key]] >= request[c].keep]_vars

\* A payment by a delegate was granted, and announced as long before as the caller of
\* add_proxy or create_pure_proxy asked for: "delay in blocks before proxy calls execute".
DelaysAreKept == \A c \in Calls :
  IsProxied(request[c]) /\ moved[c] # 0 =>
    \E g \in Calls :
      /\ request[g].op \in {"add_proxy", "create_pure_proxy"}
      /\ executed[g] \in 1..executed[c]
      /\ Extrinsic(request[g]).real = payer[c]
      /\ Extrinsic(request[g]).delegate = Delegate(Extrinsic(request[c]))
      /\ request[g].delay <= waited[c]

\* The payment that a call announces or makes, and the calls that were executed for one.
PaymentFrom(e) == <<e.real, Delegate(e), e.to, e.amount>>
PaymentBy(c)   == PaymentFrom(Extrinsic(request[c]))
Done(op, p)    == {c \in Calls : executed[c] # 0 /\ request[c].op = op /\ PaymentBy(c) = p}

\* An announced payment is executed at most as often as it was announced, by however many
\* calls: also by one that is made again after an error that says nothing of the first.
ExecutedAsAnnounced == \A c \in Calls :
  request[c].op = "proxy_announced_transfer" =>
    Cardinality(Done("proxy_announced_transfer", PaymentBy(c)))
      <= Cardinality(Done("announce", PaymentBy(c)))

\* Once remove_proxy has returned Ok the grant is gone, unless it was made again after.
RemovedIsGone == \A c \in Calls :
  (pc[c] = "ok" /\ request[c].op = "remove_proxy" /\ GrantOf(Extrinsic(request[c])) \in proxies)
    => \E g \in Calls : /\ executed[c] \in 1..executed[g] - 1
                        /\ Extrinsic(request[g]) = [Extrinsic(request[c]) EXCEPT !.kind = "add_proxy"]

\* A sweep pays from the derived address: "sweep assets from a derived address to
\* destination", sweep.rs.
SweptFromSource == \A c \in Calls :
  pc[c] = "ok" /\ request[c].op = "sweep" => payer[c] = AddressOf[request[c].key]
=============================================================================
