-------------------------- MODULE TransfersProofs --------------------------
(***************************************************************************)
(* Proofs about Transfers, for any accounts, requests, calls and bounds.   *)
(***************************************************************************)
EXTENDS Transfers, WellFoundedInduction, FiniteSetTheorems, TLAPS

-----------------------------------------------------------------------------
(* Numbers *)

\* A set of numbers has a least one, and a greatest one where it has a bound.
LEMMA MinOf ==
  ASSUME NEW S \in SUBSET Nat, S # {}
  PROVE  Min(S) \in S /\ \A x \in S : Min(S) <= x
<1>1. PICK m \in S : \A y \in S : ~(<<y, m>> \in OpToRel(<, Nat))
  BY NatLessThanWellFounded, WFMin
<1>2. \A y \in S : ~(y < m)
  BY <1>1 DEF OpToRel
<1>3. \A y \in S : m <= y
  BY <1>2
<1> QED BY <1>3 DEF Min

LEMMA MaxOf ==
  ASSUME NEW S \in SUBSET Nat, S # {}, NEW b \in Nat, \A x \in S : x <= b
  PROVE  Max(S) \in S /\ \A x \in S : x <= Max(S)
<1> DEFINE T == {b - x : x \in S}
<1>0. \A x \in S : x \in Nat /\ b - x \in Nat
  OBVIOUS
<1>1. T \in SUBSET Nat /\ T # {}
  BY <1>0
<1>2. PICK t \in T : \A y \in T : t <= y
  BY <1>1, MinOf
<1>3. PICK m \in S : t = b - m
  OBVIOUS
<1>4. \A y \in S : m >= y
  <2> SUFFICES ASSUME NEW y \in S PROVE m >= y
    OBVIOUS
  <2>1. b - m <= b - y
    BY <1>2, <1>3
  <2> QED BY <2>1, <1>0
<1>5. Max(S) \in S /\ \A x \in S : Max(S) >= x
  BY <1>4 DEF Max
<1> QED BY <1>5

-----------------------------------------------------------------------------
(* Requests and their extrinsics *)

Ops == {"sweep", "proxy_transfer", "announce", "proxy_announced_transfer", "add_proxy",
        "remove_proxy", "create_pure_proxy"}

LEMMA RequestType ==
  ASSUME NEW r \in Requests
  PROVE  /\ r.op \in Ops /\ r # NoCall
         /\ r.op = "sweep" => r \in Sweeps
         /\ r.op = "proxy_transfer" => r \in Proxied
         /\ r.op = "announce" => r \in Announces
         /\ r.op = "proxy_announced_transfer" => r \in Delayed
         /\ r.op \in {"add_proxy", "remove_proxy"} => r \in Grantings
         /\ r.op = "create_pure_proxy" => r \in Creations
BY RequestsAssumption DEF Ops, NoCall, Sweeps, Proxied, Announces, Delayed, Grantings, Creations

LEMMA ExtrinsicIs ==
  ASSUME NEW r
  PROVE  /\ r.op = "sweep" => Extrinsic(r) = sweep(r)
         /\ r.op = "proxy_transfer" => Extrinsic(r) = proxy_transfer(r)
         /\ r.op = "announce" => Extrinsic(r) = announce(r)
         /\ r.op = "proxy_announced_transfer" => Extrinsic(r) = proxy_announced_transfer(r)
         /\ r.op = "add_proxy" => Extrinsic(r) = add_proxy(r)
         /\ r.op = "remove_proxy" => Extrinsic(r) = remove_proxy(r)
         /\ r.op = "create_pure_proxy" => Extrinsic(r) = create_pure_proxy(r)
BY DEF Extrinsic

\* The addresses of a request that is sent are accounts.
LEMMA AddressesDecoded ==
  ASSUME NEW r \in Requests, Malformed \notin Decoded(r)
  PROVE  /\ r.op \in {"sweep", "proxy_transfer", "announce", "proxy_announced_transfer"} => r.to \in Accounts
         /\ r.op \in {"proxy_transfer", "announce", "proxy_announced_transfer"} => r.real \in Accounts
         /\ r.op \in {"add_proxy", "remove_proxy", "proxy_announced_transfer"} => r.delegate \in Accounts
<1>1. CASE r.op = "sweep"
  BY <1>1, RequestType DEF Decoded, Sweeps, Addresses
<1>2. CASE r.op = "proxy_transfer"
  BY <1>2, RequestType DEF Decoded, Proxied, Addresses
<1>3. CASE r.op = "announce"
  BY <1>3, RequestType DEF Decoded, Announces, Addresses
<1>4. CASE r.op = "proxy_announced_transfer"
  BY <1>4, RequestType DEF Decoded, Delayed, Addresses
<1>5. CASE r.op \in {"add_proxy", "remove_proxy"}
  BY <1>5, RequestType DEF Decoded, Grantings, Addresses
<1>6. CASE r.op = "create_pure_proxy"
  BY <1>6
<1> QED BY <1>1, <1>2, <1>3, <1>4, <1>5, <1>6, RequestType DEF Ops

\* The extrinsic of a request that is sent.
LEMMA ExtrinsicType ==
  ASSUME NEW r \in Requests, Malformed \notin Decoded(r), NEW e, e = Extrinsic(r)
  PROVE  /\ r.op = "sweep" <=> e.kind = "transfer"
         /\ r.op = "proxy_transfer" <=> e.kind = "proxy"
         /\ r.op = "announce" <=> e.kind = "announce"
         /\ r.op = "proxy_announced_transfer" <=> e.kind = "proxy_announced"
         /\ r.op = "add_proxy" <=> e.kind = "add_proxy"
         /\ r.op = "remove_proxy" <=> e.kind = "remove_proxy"
         /\ r.op = "create_pure_proxy" <=> e.kind = "create_pure"
         /\ e.signer = SignerOf[r.key] /\ r.key \in Keys /\ e.signer \in Accounts
         /\ IsPayment(e) \/ e.kind = "announce" => e.to \in Accounts /\ e.amount \in Nat
         /\ e.kind \in {"proxy", "proxy_announced", "announce"} =>
              e.real \in Accounts /\ Delegate(e) \in Accounts /\ e.amount = r.amount
         /\ e.kind = "transfer" => e.amount = SweepAmount(r)
         /\ e.kind \in {"add_proxy", "remove_proxy", "create_pure"} =>
              GrantOf(e) \in Grants /\ e.delay = r.delay
<1> USE KeysAssumption, AccountsAssumption DEF IsPayment, Delegate
<1>1. CASE r.op = "sweep"
  <2>1. e = sweep(r) /\ r \in Sweeps /\ r.to \in Accounts
    BY <1>1, ExtrinsicIs, RequestType, AddressesDecoded
  <2>2. SweepAmount(r) \in Nat
    BY <2>1 DEF SweepAmount, Sweeps
  <2> QED BY <1>1, <2>1, <2>2 DEF sweep, Sweeps
<1>2. CASE r.op = "proxy_transfer"
  <2>1. e = proxy_transfer(r) /\ r \in Proxied /\ r.to \in Accounts /\ r.real \in Accounts
    BY <1>2, ExtrinsicIs, RequestType, AddressesDecoded
  <2> QED BY <1>2, <2>1 DEF proxy_transfer, Proxied
<1>3. CASE r.op = "announce"
  <2>1. e = announce(r) /\ r \in Announces /\ r.to \in Accounts /\ r.real \in Accounts
    BY <1>3, ExtrinsicIs, RequestType, AddressesDecoded
  <2> QED BY <1>3, <2>1 DEF announce, Announces
<1>4. CASE r.op = "proxy_announced_transfer"
  <2>1. e = proxy_announced_transfer(r) /\ r \in Delayed
        /\ r.to \in Accounts /\ r.real \in Accounts /\ r.delegate \in Accounts
    BY <1>4, ExtrinsicIs, RequestType, AddressesDecoded
  <2> QED BY <1>4, <2>1 DEF proxy_announced_transfer, Delayed
<1>5. CASE r.op = "add_proxy"
  <2>1. e = add_proxy(r) /\ r \in Grantings /\ r.delegate \in Accounts
    BY <1>5, ExtrinsicIs, RequestType, AddressesDecoded
  <2> QED BY <1>5, <2>1 DEF add_proxy, Grantings, GrantOf, Grant, Grants
<1>6. CASE r.op = "remove_proxy"
  <2>1. e = remove_proxy(r) /\ r \in Grantings /\ r.delegate \in Accounts
    BY <1>6, ExtrinsicIs, RequestType, AddressesDecoded
  <2> QED BY <1>6, <2>1 DEF remove_proxy, Grantings, GrantOf, Grant, Grants
<1>7. CASE r.op = "create_pure_proxy"
  <2>1. e = create_pure_proxy(r) /\ r \in Creations
    BY <1>7, ExtrinsicIs, RequestType
  <2> QED BY <1>7, <2>1 DEF create_pure_proxy, Creations, GrantOf, Grant, Grants
<1> QED BY <1>1, <1>2, <1>3, <1>4, <1>5, <1>6, <1>7, RequestType DEF Ops

-----------------------------------------------------------------------------
(* The invariant *)

\* What is sent is a request whose addresses decode.
FormInv == \A c \in Calls :
  pc[c] \notin {"idle", "refused"} => request[c] \in Requests /\ Malformed \notin Decoded(request[c])

\* Nothing was announced in a later block.
AgeInv == \A a \in announcements : a.height <= height

\* Of the extrinsics executed one is the last.
BoundInv == \E b \in Nat : \A c \in Calls : executed[c] <= b

\* An Ok answer is for an extrinsic executed, and what that moved is what was asked for.
ResultInv == \A c \in Calls :
  /\ pc[c] = "ok" => status[c] = "ok"
  /\ moved[c] # 0 => executed[c] # 0
  /\ executed[c] # 0 /\ request[c].op = "sweep" => moved[c] = SweepAmount(request[c])
  /\ executed[c] # 0 /\ IsProxied(request[c]) => moved[c] \in {0, request[c].amount}

\* The call c has made the grant g.
Makes(c, g) ==
  /\ executed[c] # 0
  /\ request[c].op \in {"add_proxy", "create_pure_proxy"}
  /\ GrantOf(Extrinsic(request[c])) = g

\* Every grant was made by a call.
MadeInv == \A g \in proxies : \E c \in Calls : Makes(c, g)

\* A grant that was removed and is there was made again, after.
RemovedInv == \A c \in Calls :
  (executed[c] # 0 /\ request[c].op = "remove_proxy" /\ GrantOf(Extrinsic(request[c])) \in proxies)
    => \E g \in Calls : /\ executed[c] \in 1..executed[g] - 1
                        /\ Extrinsic(request[g]) = [Extrinsic(request[c]) EXCEPT !.kind = "add_proxy"]

\* A fresh sweep finds in its account what its caller has read there.
FreshInv == \A c \in Calls :
  fresh[c] /\ executed[c] = 0 =>
    request[c].op = "sweep" /\ request[c].amount <= balance[SignerOf[request[c].key]]

IInv ==
  TypeOK /\ FormInv /\ AgeInv /\ BoundInv /\ ResultInv /\ MadeInv /\ DelaysAreKept /\ RemovedInv
    /\ FreshInv

LEMMA InitInv == Init => IInv
<1> SUFFICES ASSUME Init PROVE IInv
  OBVIOUS
<1> USE DEF Init, ChainInit
<1>1. TypeOK
  <2>1. ChainTypeOK
    BY AccountsAssumption, HeightAssumption DEF ChainTypeOK
  <2>2. faults \in 0..MaxFaults /\ deposits \in 0..MaxDeposits
    BY BoundsAssumption
  <2>3. {executed, moved, waited} \subseteq [Calls -> Nat]
    OBVIOUS
  <2>4. /\ request \in [Calls -> Requests \cup {NoCall}]
        /\ pc \in [Calls -> Pending \cup {"idle", "refused", "error", "ok"}]
        /\ status \in [Calls -> {"none", "pool", "dropped", "failed", "ok"}]
        /\ payer \in [Calls -> Accounts \cup {None}] /\ fresh \in [Calls -> BOOLEAN]
    OBVIOUS
  <2>5. \A c \in Calls : pc[c] = "idle" /\ request[c] = NoCall /\ status[c] = "none" /\ executed[c] = 0
    OBVIOUS
  <2> QED BY <2>1, <2>2, <2>3, <2>4, <2>5 DEF TypeOK
<1>2. FormInv /\ AgeInv /\ BoundInv /\ ResultInv /\ MadeInv /\ RemovedInv /\ FreshInv
  BY DEF FormInv, AgeInv, BoundInv, ResultInv, MadeInv, RemovedInv, FreshInv
<1>3. DelaysAreKept
  BY DEF DelaysAreKept
<1> QED BY <1>1, <1>2, <1>3 DEF IInv

-----------------------------------------------------------------------------
(* Steps that execute nothing *)

\* Calls go on, fail and return: only their places and what the node says of their
\* extrinsics change.
Quiet == Connect \/ \E c \in Calls : FinalizeFailing(c) \/ DropExtrinsic(c) \/ Submit(c)
                      \/ Finalized(c) \/ Succeeds(c) \/ Fails(c) \/ GivesUp(c)

LEMMA QuietTypes == ASSUME IInv, Quiet PROVE TypeOK' /\ FormInv' /\ ResultInv'
<1> USE DEF IInv, TypeOK, ChainTypeOK, FormInv, ResultInv, chain, bounds, history, Pending, NoCall
<1>1. CASE Connect
  BY <1>1 DEF Connect
<1>2. ASSUME NEW c \in Calls, FinalizeFailing(c) \/ DropExtrinsic(c)
      PROVE  TypeOK' /\ FormInv' /\ ResultInv'
  BY <1>2 DEF FinalizeFailing, DropExtrinsic
<1>3. ASSUME NEW c \in Calls, Submit(c)
      PROVE  TypeOK' /\ FormInv' /\ ResultInv'
  BY <1>3 DEF Submit
<1>4. ASSUME NEW c \in Calls, Finalized(c) \/ Succeeds(c) \/ Fails(c)
      PROVE  TypeOK' /\ FormInv' /\ ResultInv'
  BY <1>4 DEF Finalized, Succeeds, Fails
<1>5. ASSUME NEW c \in Calls, GivesUp(c)
      PROVE  TypeOK' /\ FormInv' /\ ResultInv'
  BY <1>5, BoundsAssumption DEF GivesUp
<1> QED BY <1>1, <1>2, <1>3, <1>4, <1>5 DEF Quiet

\* What is said of the chain, the requests and the history stays.
LEMMA Rests ==
  ASSUME IInv, UNCHANGED <<chain, request, history>>
  PROVE  AgeInv' /\ BoundInv' /\ MadeInv' /\ DelaysAreKept' /\ RemovedInv' /\ FreshInv'
<1> USE DEF IInv, chain, history
<1>1. AgeInv' /\ BoundInv' /\ FreshInv'
  BY DEF AgeInv, BoundInv, FreshInv
<1>2. MadeInv' /\ RemovedInv'
  BY DEF MadeInv, Makes, RemovedInv
<1>3. DelaysAreKept'
  BY DEF DelaysAreKept
<1> QED BY <1>1, <1>2, <1>3

LEMMA QuietStep == ASSUME IInv, Quiet PROVE IInv'
<1>1. UNCHANGED <<chain, request, history>>
  BY DEF Quiet, Connect, FinalizeFailing, DropExtrinsic, Submit, Finalized, Succeeds, Fails, GivesUp
<1> QED BY <1>1, QuietTypes, Rests DEF IInv

LEMMA StutterStep == ASSUME IInv, UNCHANGED vars PROVE IInv'
<1>1. UNCHANGED <<chain, request, history>>
  BY DEF vars
<1>2. TypeOK' /\ FormInv' /\ ResultInv'
  BY DEF IInv, TypeOK, ChainTypeOK, FormInv, ResultInv, vars, chain, bounds, history
<1> QED BY <1>1, <1>2, Rests DEF IInv

\* A block makes announcements older.
LEMMA MineStep == ASSUME IInv, Mine PROVE IInv'
<1> USE HeightAssumption DEF IInv, Mine, NewBlock, history
<1>1. TypeOK'
  BY DEF TypeOK, ChainTypeOK, bounds
<1>2. AgeInv'
  BY DEF AgeInv, TypeOK, ChainTypeOK, Announcements
<1>3. FormInv' /\ BoundInv' /\ ResultInv' /\ FreshInv'
  BY DEF FormInv, BoundInv, ResultInv, FreshInv
<1>4. MadeInv' /\ RemovedInv'
  BY DEF MadeInv, Makes, RemovedInv
<1>5. DelaysAreKept'
  BY DEF DelaysAreKept
<1> QED BY <1>1, <1>2, <1>3, <1>4, <1>5

\* A deposit takes nothing out of an account.
LEMMA ReceiveStep == ASSUME IInv, Receive PROVE IInv'
<1> USE DEF IInv, Receive, Deposit, history
<1>1. PICK k \in Keys : balance' = [balance EXCEPT ![SignerOf[k]] = @ + 1]
  OBVIOUS
<1>2. \A a \in Accounts : balance'[a] \in Nat /\ balance'[a] >= balance[a]
  BY <1>1, KeysAssumption DEF TypeOK, ChainTypeOK
<1>3. balance' \in [Accounts -> Nat]
  BY <1>1, <1>2 DEF TypeOK, ChainTypeOK
<1>4. TypeOK'
  BY <1>3, BoundsAssumption DEF TypeOK, ChainTypeOK
<1>5. FreshInv'
  <2> SUFFICES ASSUME NEW c \in Calls, fresh[c], executed[c] = 0
               PROVE  request[c].op = "sweep" /\ request[c].amount <= balance'[SignerOf[request[c].key]]
    BY DEF FreshInv
  <2>1. request[c].op = "sweep" /\ request[c].amount <= balance[SignerOf[request[c].key]]
    BY DEF FreshInv
  <2>2. request[c] \in Sweeps
    BY <2>1, RequestType DEF TypeOK, NoCall
  <2>3. request[c].amount \in Nat /\ SignerOf[request[c].key] \in Accounts
    BY <2>2, KeysAssumption DEF Sweeps
  <2> QED BY <1>2, <2>1, <2>3 DEF TypeOK, ChainTypeOK
<1>6. FormInv' /\ AgeInv' /\ BoundInv' /\ ResultInv'
  BY DEF FormInv, AgeInv, BoundInv, ResultInv
<1>7. MadeInv' /\ RemovedInv'
  BY DEF MadeInv, Makes, RemovedInv
<1>8. DelaysAreKept'
  BY DEF DelaysAreKept
<1> QED BY <1>4, <1>5, <1>6, <1>7, <1>8

-----------------------------------------------------------------------------
(* A call begins *)

LEMMA BeginStep == ASSUME IInv, NEW c \in Calls, NEW r \in Requests, Begin(c, r) PROVE IInv'
<1> USE DEF IInv
<1>l. /\ request' = [request EXCEPT ![c] = r]
      /\ pc' = [pc EXCEPT ![c] = IF Refused(r) THEN "refused" ELSE "submit"]
      /\ fresh' = [fresh EXCEPT ![c] = r.op = "sweep" /\ r.amount <= balance[SignerOf[r.key]]]
      /\ UNCHANGED <<chain, connected, status, bounds, executed, moved, payer, waited>>
      /\ pc[c] = "idle"
  BY DEF Begin
<1>c. executed[c] = 0 /\ moved[c] = 0 /\ status[c] = "none"
  BY <1>l DEF TypeOK, ResultInv
<1>d. request'[c] = r /\ \A d \in Calls : d # c => request'[d] = request[d]
  BY <1>l DEF TypeOK
<1>1. TypeOK'
  BY <1>l, <1>c, RequestType DEF TypeOK, ChainTypeOK, chain, bounds, Pending
<1>2. FormInv'
  BY <1>l, <1>d DEF FormInv, Refused, TypeOK
<1>3. AgeInv' /\ BoundInv'
  BY <1>l DEF AgeInv, BoundInv, chain
<1>4. ResultInv'
  BY <1>l, <1>c, <1>d DEF ResultInv, TypeOK
<1>5. MadeInv'
  <2> SUFFICES ASSUME NEW g \in proxies PROVE \E d \in Calls : Makes(d, g)'
    BY <1>l DEF MadeInv, chain
  <2>1. PICK d \in Calls : Makes(d, g)
    BY DEF MadeInv
  <2>2. d # c /\ executed'[d] = executed[d]
    BY <2>1, <1>c, <1>l DEF Makes
  <2>3. Makes(d, g)'
    BY <2>1, <2>2, <1>d DEF Makes
  <2> QED BY <2>3
<1>6. DelaysAreKept'
  <2> SUFFICES ASSUME NEW d \in Calls, IsProxied(request'[d]), moved'[d] # 0
               PROVE  \E g \in Calls :
                        /\ request'[g].op \in {"add_proxy", "create_pure_proxy"}
                        /\ executed'[g] \in 1..executed'[d]
                        /\ Extrinsic(request'[g]).real = payer'[d]
                        /\ Extrinsic(request'[g]).delegate = Delegate(Extrinsic(request'[d]))
                        /\ request'[g].delay <= waited'[d]
    BY DEF DelaysAreKept
  <2>1. d # c /\ request'[d] = request[d] /\ moved[d] # 0
    BY <1>c, <1>d, <1>l
  <2>2. PICK g \in Calls :
                        /\ request[g].op \in {"add_proxy", "create_pure_proxy"}
                        /\ executed[g] \in 1..executed[d]
                        /\ Extrinsic(request[g]).real = payer[d]
                        /\ Extrinsic(request[g]).delegate = Delegate(Extrinsic(request[d]))
                        /\ request[g].delay <= waited[d]
    BY <2>1 DEF DelaysAreKept
  <2>3. request'[g] = request[g]
    BY <2>2, <1>c, <1>d
  <2> QED BY <2>1, <2>2, <2>3, <1>l
<1>7. RemovedInv'
  <2> SUFFICES ASSUME NEW d \in Calls, executed'[d] # 0, request'[d].op = "remove_proxy",
                      GrantOf(Extrinsic(request'[d])) \in proxies'
               PROVE  \E g \in Calls :
                        /\ executed'[d] \in 1..executed'[g] - 1
                        /\ Extrinsic(request'[g]) = [Extrinsic(request'[d]) EXCEPT !.kind = "add_proxy"]
    BY DEF RemovedInv
  <2>1. request'[d] = request[d] /\ executed[d] # 0 /\ proxies' = proxies
    BY <1>c, <1>d, <1>l DEF chain
  <2>2. PICK g \in Calls :
                        /\ executed[d] \in 1..executed[g] - 1
                        /\ Extrinsic(request[g]) = [Extrinsic(request[d]) EXCEPT !.kind = "add_proxy"]
    BY <2>1 DEF RemovedInv
  <2>3. request'[g] = request[g]
    BY <2>2, <1>c, <1>d
  <2> QED BY <2>1, <2>2, <2>3, <1>l
<1>8. FreshInv'
  <2>1. /\ fresh'[c] = (r.op = "sweep" /\ r.amount <= balance[SignerOf[r.key]])
        /\ \A d \in Calls : d # c => fresh'[d] = fresh[d]
    BY <1>l DEF TypeOK
  <2>2. executed' = executed /\ balance' = balance
    BY <1>l DEF chain
  <2> SUFFICES ASSUME NEW d \in Calls, fresh'[d], executed'[d] = 0
               PROVE  request'[d].op = "sweep"
                      /\ request'[d].amount <= balance'[SignerOf[request'[d].key]]
    BY DEF FreshInv
  <2>3. CASE d = c
    BY <1>d, <2>1, <2>2, <2>3
  <2>4. CASE d # c
    BY <1>d, <2>1, <2>2, <2>4 DEF FreshInv
  <2> QED BY <2>3, <2>4
<1> QED BY <1>1, <1>2, <1>3, <1>4, <1>5, <1>6, <1>7, <1>8

-----------------------------------------------------------------------------
(* An extrinsic is executed *)

\* What Finalize does with the call's own record.
LEMMA FinalizeDoes ==
  ASSUME IInv, NEW c \in Calls, Finalize(c), NEW e, e = Extrinsic(request[c])
  PROVE  /\ request[c] \in Requests /\ Malformed \notin Decoded(request[c])
         /\ executed[c] = 0 /\ moved[c] = 0 /\ pc[c] \notin {"idle", "refused", "submit"}
         /\ Accepts(e) /\ Execute(e)
         /\ UNCHANGED <<connected, request, pc, bounds>>
         /\ status' \in [Calls -> {"none", "pool", "dropped", "failed", "ok"}] /\ status'[c] = "ok"
         /\ executed' \in [Calls -> Nat] /\ executed'[c] # 0
         /\ \A d \in Calls : executed[d] < executed'[c]
         /\ \A d \in Calls : d # c =>
              /\ status'[d] = status[d] /\ executed'[d] = executed[d] /\ moved'[d] = moved[d]
              /\ payer'[d] = payer[d] /\ waited'[d] = waited[d]
<1> USE DEF IInv
<1>l. /\ status[c] = "pool" /\ Accepts(e) /\ Execute(e)
      /\ status' = [status EXCEPT ![c] = "ok"]
      /\ executed' = [executed EXCEPT ![c] = 1 + Max({executed[d] : d \in Calls})]
      /\ \A d \in Calls : d # c => moved'[d] = moved[d] /\ payer'[d] = payer[d] /\ waited'[d] = waited[d]
      /\ UNCHANGED <<connected, request, pc, bounds>>
  BY DEF Finalize, TypeOK
<1>1. executed[c] = 0 /\ moved[c] = 0 /\ pc[c] \notin {"idle", "refused", "submit"}
  BY <1>l DEF TypeOK, ResultInv
<1>2. request[c] \in Requests /\ Malformed \notin Decoded(request[c])
  BY <1>1 DEF FormInv
<1>3. \A d \in Calls : executed[d] \in Nat
  BY DEF TypeOK
<1>4. PICK b \in Nat : \A d \in Calls : executed[d] <= b
  BY DEF BoundInv
<1> DEFINE S == {executed[d] : d \in Calls}
<1>5. S \in SUBSET Nat /\ S # {} /\ \A x \in S : x <= b
  BY <1>3, <1>4
<1>6. Max(S) \in S /\ \A x \in S : x <= Max(S)
  BY <1>5, MaxOf
<1>7. Max(S) \in Nat /\ \A d \in Calls : executed[d] <= Max(S)
  BY <1>5, <1>6
<1> HIDE DEF S
<1>8. executed' = [executed EXCEPT ![c] = 1 + Max(S)]
  BY <1>l DEF S
<1>9. /\ executed' \in [Calls -> Nat] /\ executed'[c] = 1 + Max(S)
      /\ \A d \in Calls : d # c => executed'[d] = executed[d]
  BY <1>7, <1>8 DEF TypeOK
<1>10. \A d \in Calls : executed[d] < executed'[c]
  BY <1>3, <1>7, <1>9
<1>11. /\ status' \in [Calls -> {"none", "pool", "dropped", "failed", "ok"}] /\ status'[c] = "ok"
       /\ \A d \in Calls : d # c => status'[d] = status[d]
  BY <1>l DEF TypeOK
<1> QED BY <1>l, <1>1, <1>2, <1>7, <1>9, <1>10, <1>11

\* What an extrinsic moves, and from where.
LEMMA FinalizeMoves ==
  ASSUME IInv, NEW c \in Calls, Finalize(c), NEW e, e = Extrinsic(request[c]),
         NEW pays, pays = (IsPayment(e) /\ CanPay(Payer(e), e.amount))
  PROVE  /\ moved'[c] = IF pays THEN e.amount ELSE 0
         /\ payer'[c] = IF pays THEN Payer(e) ELSE None
         /\ waited'[c] = IF e.kind = "proxy_announced" THEN Max({Age(a) : a \in Mature(e)}) ELSE 0
         /\ fresh' = [d \in Calls |-> fresh[d] /\ (d = c \/ ~pays \/ Payer(e) # SignerOf[request[d].key])]
<1>1. /\ moved \in [Calls -> Nat] /\ waited \in [Calls -> Nat] /\ payer \in [Calls -> Accounts \cup {None}]
  BY DEF IInv, TypeOK
<1> QED BY <1>1 DEF Finalize

\* The balances after it.
LEMMA FinalizePays ==
  ASSUME IInv, NEW c \in Calls, Finalize(c), NEW e, e = Extrinsic(request[c]),
         NEW pays, pays = (IsPayment(e) /\ CanPay(Payer(e), e.amount))
  PROVE  /\ balance' \in [Accounts -> Nat]
         /\ ~pays => balance' = balance
         /\ pays => /\ Payer(e) \in Accounts /\ e.amount \in Nat
                    /\ balance'[Payer(e)] >= balance[Payer(e)] - e.amount
                    /\ \A a \in Accounts \ {Payer(e)} : balance'[a] >= balance[a]
<1>1. request[c] \in Requests /\ Malformed \notin Decoded(request[c]) /\ Execute(e)
  BY FinalizeDoes
<1>2. balance \in [Accounts -> Nat]
  BY DEF IInv, TypeOK, ChainTypeOK
<1>3. IsPayment(e) => Payer(e) \in Accounts /\ e.to \in Accounts /\ e.amount \in Nat
  BY <1>1, ExtrinsicType DEF IsPayment, Payer
<1>4. CASE ~pays
  BY <1>1, <1>2, <1>4 DEF Execute, ExecutePayment, ExecuteAnnounce, ExecuteGrant, ExecuteRemove
<1>5. CASE pays
  <2>1. Payment(Payer(e), e.to, e.amount)
    BY <1>1, <1>5 DEF Execute, ExecutePayment, ExecuteAnnounce, ExecuteGrant, ExecuteRemove, IsPayment
  <2> DEFINE f == Payer(e)
             t == e.to
             n == e.amount
  <2>2. f \in Accounts /\ t \in Accounts /\ n \in Nat /\ n < balance[f]
    BY <1>3, <1>5 DEF CanPay
  <2>3. balance' = [a \in Accounts |-> balance[a] + (IF a = t THEN n ELSE 0) - (IF a = f THEN n ELSE 0)]
    BY <2>1 DEF Payment
  <2> HIDE DEF f, t, n
  <2>4. \A a \in Accounts : balance[a] \in Nat
    BY <1>2
  <2>5. \A a \in Accounts : balance'[a] = balance[a] + (IF a = t THEN n ELSE 0) - (IF a = f THEN n ELSE 0)
    BY <2>3
  <2>6. \A a \in Accounts \ {f} : balance'[a] >= balance[a] /\ balance'[a] \in Nat
    BY <2>2, <2>4, <2>5
  <2>7. balance'[f] >= balance[f] - n /\ balance'[f] \in Nat
    BY <2>2, <2>4, <2>5
  <2>8. balance' \in [Accounts -> Nat]
    BY <2>3, <2>6, <2>7
  <2> QED BY <1>5, <2>2, <2>6, <2>7, <2>8 DEF f, n
<1> QED BY <1>4, <1>5

\* The grant that a delegate's payment is made by, and how long it was announced.
LEMMA FinalizeGranted ==
  ASSUME IInv, NEW c \in Calls, Finalize(c), NEW e, e = Extrinsic(request[c]),
         e.kind \in {"proxy", "proxy_announced"}
  PROVE  /\ waited'[c] \in Nat
         /\ \E g \in proxies : /\ g.real = e.real /\ g.delegate = Delegate(e)
                               /\ g.delay <= waited'[c]
<1>1. /\ Accepts(e) /\ waited'[c] = IF e.kind = "proxy_announced" THEN Max({Age(a) : a \in Mature(e)}) ELSE 0
  <2>1. waited \in [Calls -> Nat]
    BY DEF IInv, TypeOK
  <2> QED BY <2>1 DEF Finalize
<1>2. DelaysFor(e) # {} /\ (e.kind = "proxy" => DelayFor(e) = 0) /\ (e.kind = "proxy_announced" => Mature(e) # {})
  BY <1>1 DEF Accepts
<1>3. proxies \subseteq Grants /\ announcements \subseteq Announcements /\ height \in Nat
  BY HeightAssumption DEF IInv, TypeOK, ChainTypeOK
<1>4. DelaysFor(e) \in SUBSET Nat
  BY <1>3 DEF DelaysFor, Grants
<1>5. DelayFor(e) \in DelaysFor(e) /\ DelayFor(e) \in Nat
  BY <1>2, <1>4, MinOf DEF DelayFor
<1>6. \E g \in proxies : g.real = e.real /\ g.delegate = Delegate(e) /\ g.delay = DelayFor(e)
  BY <1>5 DEF DelaysFor
<1>7. CASE e.kind = "proxy"
  BY <1>1, <1>2, <1>6, <1>7
<1>8. CASE e.kind = "proxy_announced"
  <2> DEFINE A == {Age(a) : a \in Mature(e)}
  <2>1. \A a \in announcements : Age(a) \in Nat /\ Age(a) <= height
    BY <1>3 DEF Age, Announcements, IInv, AgeInv
  <2>2. \A a \in Mature(e) : a \in announcements /\ DelayFor(e) <= Age(a)
    BY DEF Mature, Announced
  <2>3. A \in SUBSET Nat /\ A # {} /\ \A x \in A : x <= height /\ DelayFor(e) <= x
    BY <1>2, <1>8, <2>1, <2>2
  <2>4. Max(A) \in A
    BY <1>3, <2>3, MaxOf
  <2>5. waited'[c] = Max(A)
    BY <1>1, <1>8
  <2>6. waited'[c] \in Nat /\ DelayFor(e) <= waited'[c]
    BY <2>3, <2>4, <2>5
  <2> QED BY <1>5, <1>6, <2>6
<1> QED BY <1>7, <1>8

LEMMA FinalizeTypes == ASSUME IInv, NEW c \in Calls, Finalize(c) PROVE TypeOK' /\ FormInv' /\ AgeInv'
<1> USE DEF IInv
<1> DEFINE e == Extrinsic(request[c])
           pays == IsPayment(e) /\ CanPay(Payer(e), e.amount)
<1>1. /\ request[c] \in Requests /\ Malformed \notin Decoded(request[c])
      /\ executed[c] = 0 /\ pc[c] \notin {"idle", "refused", "submit"}
      /\ Execute(e)
      /\ UNCHANGED <<connected, request, pc, bounds>>
      /\ status' \in [Calls -> {"none", "pool", "dropped", "failed", "ok"}] /\ status'[c] = "ok"
      /\ executed' \in [Calls -> Nat] /\ executed'[c] # 0
      /\ \A d \in Calls : d # c => status'[d] = status[d] /\ executed'[d] = executed[d]
  BY FinalizeDoes
<1>2. /\ moved'[c] = IF pays THEN e.amount ELSE 0
      /\ payer'[c] = IF pays THEN Payer(e) ELSE None
  BY FinalizeMoves
<1>3. balance' \in [Accounts -> Nat] /\ (pays => Payer(e) \in Accounts /\ e.amount \in Nat)
  BY FinalizePays
<1>4. waited'[c] \in Nat
  <2>1. waited'[c] = IF e.kind = "proxy_announced" THEN Max({Age(a) : a \in Mature(e)}) ELSE 0
    BY FinalizeMoves
  <2>2. CASE e.kind = "proxy_announced"
    BY <2>2, FinalizeGranted
  <2>3. CASE e.kind # "proxy_announced"
    BY <2>1, <2>3
  <2> QED BY <2>2, <2>3
<1>5. /\ e.kind = "announce" =>
           e.real \in Accounts /\ e.to \in Accounts /\ e.amount \in Nat /\ e.signer \in Accounts
      /\ e.kind \in {"add_proxy", "create_pure"} => GrantOf(e) \in Grants
  BY <1>1, ExtrinsicType DEF Delegate
<1> HIDE DEF e, pays
<1>6. /\ proxies' \subseteq Grants /\ height' = height
      /\ announcements' \subseteq Announcements
      /\ \A a \in announcements' : a.height <= height
  <2> USE DEF TypeOK, ChainTypeOK, AgeInv
  <2>1. CASE ExecutePayment(e)
    BY <2>1 DEF ExecutePayment
  <2>2. CASE ExecuteAnnounce(e)
    <3>1. height \in Nat
      BY HeightAssumption
    <3>2. [real |-> e.real, delegate |-> e.signer, to |-> e.to, amount |-> e.amount, height |-> height]
            \in Announcements
      BY <1>5, <2>2, <3>1 DEF ExecuteAnnounce, Announcements
    <3> QED BY <2>2, <3>1, <3>2 DEF ExecuteAnnounce
  <2>3. CASE ExecuteGrant(e)
    BY <1>5, <2>3 DEF ExecuteGrant
  <2>4. CASE ExecuteRemove(e)
    BY <2>4 DEF ExecuteRemove
  <2> QED BY <1>1, <2>1, <2>2, <2>3, <2>4 DEF Execute
<1>7. moved' \in [Calls -> Nat]
  <2>1. moved'[c] \in Nat /\ moved \in [Calls -> Nat]
    BY <1>2, <1>3 DEF TypeOK
  <2>2. \E v : moved' = [moved EXCEPT ![c] = v]
    BY DEF Finalize
  <2> QED BY <2>1, <2>2
<1>8. waited' \in [Calls -> Nat]
  <2>1. waited \in [Calls -> Nat]
    BY DEF TypeOK
  <2>2. \E v : waited' = [waited EXCEPT ![c] = v]
    BY DEF Finalize
  <2> QED BY <1>4, <2>1, <2>2
<1>9. payer' \in [Calls -> Accounts \cup {None}]
  <2>1. payer \in [Calls -> Accounts \cup {None}] /\ payer'[c] \in Accounts \cup {None}
    BY <1>2, <1>3 DEF TypeOK
  <2>2. \E v : payer' = [payer EXCEPT ![c] = v]
    BY DEF Finalize
  <2> QED BY <2>1, <2>2
<1>10. fresh' \in [Calls -> BOOLEAN]
  <2>1. fresh' = [d \in Calls |-> fresh[d] /\ (d = c \/ ~pays \/ Payer(e) # SignerOf[request[d].key])]
    BY DEF Finalize, e, pays
  <2> QED BY <2>1 DEF TypeOK
<1>11. ChainTypeOK'
  BY <1>3, <1>6 DEF TypeOK, ChainTypeOK
<1>12. \A d \in Calls :
         /\ pc'[d] = "idle" <=> request'[d] = NoCall
         /\ pc'[d] \in {"idle", "refused", "submit"} => status'[d] = "none"
         /\ pc'[d] = "success" => status'[d] \in {"failed", "ok"}
         /\ status'[d] = "ok" <=> executed'[d] # 0
  BY <1>1 DEF TypeOK
<1>13. TypeOK'
  BY <1>1, <1>7, <1>8, <1>9, <1>10, <1>11, <1>12 DEF TypeOK, bounds
<1>14. FormInv' /\ AgeInv'
  BY <1>1, <1>6 DEF FormInv, AgeInv
<1> QED BY <1>13, <1>14

LEMMA FinalizeResults == ASSUME IInv, NEW c \in Calls, Finalize(c) PROVE BoundInv' /\ ResultInv'
<1> USE DEF IInv
<1> DEFINE e == Extrinsic(request[c])
           pays == IsPayment(e) /\ CanPay(Payer(e), e.amount)
<1>1. /\ request[c] \in Requests /\ Malformed \notin Decoded(request[c])
      /\ Accepts(e) /\ UNCHANGED <<request, pc>>
      /\ status'[c] = "ok"
      /\ executed' \in [Calls -> Nat] /\ executed'[c] # 0
      /\ \A d \in Calls : executed[d] < executed'[c]
      /\ \A d \in Calls : d # c => status'[d] = status[d] /\ executed'[d] = executed[d] /\ moved'[d] = moved[d]
  BY FinalizeDoes
<1>2. moved'[c] = IF pays THEN e.amount ELSE 0
  BY FinalizeMoves
<1>3. BoundInv'
  <2>1. \A d \in Calls : executed'[d] <= executed'[c]
    BY <1>1 DEF TypeOK
  <2> QED BY <1>1, <2>1 DEF BoundInv
<1>4. request[c].op = "sweep" => moved'[c] = SweepAmount(request[c])
  <2> SUFFICES ASSUME request[c].op = "sweep" PROVE moved'[c] = SweepAmount(request[c])
    OBVIOUS
  <2>1. e.kind = "transfer" /\ e.amount = SweepAmount(request[c])
    BY <1>1, ExtrinsicType
  <2>2. pays
    BY <1>1, <2>1 DEF Accepts, IsPayment, Payer
  <2> QED BY <1>2, <2>1, <2>2
<1>5. IsProxied(request[c]) => moved'[c] \in {0, request[c].amount}
  <2> SUFFICES ASSUME IsProxied(request[c]) PROVE moved'[c] \in {0, request[c].amount}
    OBVIOUS
  <2>1. e.kind \in {"proxy", "proxy_announced"}
    BY <1>1, ExtrinsicType DEF IsProxied
  <2>2. e.amount = request[c].amount
    BY <1>1, <2>1, ExtrinsicType
  <2> QED BY <1>2, <2>2
<1>6. ResultInv'
  BY <1>1, <1>4, <1>5 DEF ResultInv
<1> QED BY <1>3, <1>6

LEMMA FinalizeMade == ASSUME IInv, NEW c \in Calls, Finalize(c) PROVE MadeInv'
<1> USE DEF IInv
<1> DEFINE e == Extrinsic(request[c])
<1>1. /\ request[c] \in Requests /\ Malformed \notin Decoded(request[c])
      /\ executed[c] = 0 /\ Execute(e) /\ request' = request /\ executed'[c] # 0
      /\ \A d \in Calls : d # c => executed'[d] = executed[d]
  BY FinalizeDoes
<1>2. \A g \in proxies : \E d \in Calls : Makes(d, g)'
  <2> SUFFICES ASSUME NEW g \in proxies PROVE \E d \in Calls : Makes(d, g)'
    OBVIOUS
  <2>1. PICK d \in Calls : Makes(d, g)
    BY DEF MadeInv
  <2>2. Makes(d, g)'
    BY <1>1, <2>1 DEF Makes
  <2> QED BY <2>2
<1>3. \A g : e.kind \in {"add_proxy", "create_pure"} /\ g = GrantOf(e) => Makes(c, g)'
  <2> SUFFICES ASSUME NEW g, e.kind \in {"add_proxy", "create_pure"}, g = GrantOf(e)
               PROVE  Makes(c, g)'
    OBVIOUS
  <2>1. request[c].op \in {"add_proxy", "create_pure_proxy"}
    BY <1>1, ExtrinsicType
  <2> QED BY <1>1, <2>1 DEF Makes
<1> HIDE DEF e
<1>4. \A g \in proxies' : g \in proxies \/ (e.kind \in {"add_proxy", "create_pure"} /\ g = GrantOf(e))
  <2>1. CASE ExecutePayment(e)
    BY <2>1 DEF ExecutePayment
  <2>2. CASE ExecuteAnnounce(e)
    BY <2>2 DEF ExecuteAnnounce
  <2>3. CASE ExecuteGrant(e)
    BY <2>3 DEF ExecuteGrant
  <2>4. CASE ExecuteRemove(e)
    BY <2>4 DEF ExecuteRemove
  <2> QED BY <1>1, <2>1, <2>2, <2>3, <2>4 DEF Execute
<1>5. \A g \in proxies' : \E d \in Calls : Makes(d, g)'
  BY <1>2, <1>3, <1>4
<1> QED BY <1>5 DEF MadeInv

\* The payment of a delegate comes after the call that made its grant.
LEMMA FinalizeDelays == ASSUME IInv, NEW c \in Calls, Finalize(c) PROVE DelaysAreKept'
<1> USE DEF IInv
<1> DEFINE e == Extrinsic(request[c])
           pays == IsPayment(e) /\ CanPay(Payer(e), e.amount)
<1>1. /\ request[c] \in Requests /\ Malformed \notin Decoded(request[c])
      /\ executed[c] = 0 /\ moved[c] = 0 /\ request' = request
      /\ executed' \in [Calls -> Nat]
      /\ \A d \in Calls : executed[d] < executed'[c]
      /\ \A d \in Calls : d # c =>
           /\ executed'[d] = executed[d] /\ moved'[d] = moved[d]
           /\ payer'[d] = payer[d] /\ waited'[d] = waited[d]
  BY FinalizeDoes
<1>2. moved'[c] = (IF pays THEN e.amount ELSE 0) /\ payer'[c] = (IF pays THEN Payer(e) ELSE None)
  BY FinalizeMoves
<1> SUFFICES ASSUME NEW d \in Calls, IsProxied(request[d]), moved'[d] # 0
             PROVE  \E g \in Calls :
                      /\ request[g].op \in {"add_proxy", "create_pure_proxy"}
                      /\ executed'[g] \in 1..executed'[d]
                      /\ Extrinsic(request[g]).real = payer'[d]
                      /\ Extrinsic(request[g]).delegate = Delegate(Extrinsic(request[d]))
                      /\ request[g].delay <= waited'[d]
  BY <1>1 DEF DelaysAreKept
<1>3. CASE d # c
  <2>1. PICK g \in Calls :
                      /\ request[g].op \in {"add_proxy", "create_pure_proxy"}
                      /\ executed[g] \in 1..executed[d]
                      /\ Extrinsic(request[g]).real = payer[d]
                      /\ Extrinsic(request[g]).delegate = Delegate(Extrinsic(request[d]))
                      /\ request[g].delay <= waited[d]
    BY <1>1, <1>3 DEF DelaysAreKept
  <2>2. g # c
    BY <1>1, <2>1
  <2> QED BY <1>1, <1>3, <2>1, <2>2
<1>4. CASE d = c
  <2>1. e.kind \in {"proxy", "proxy_announced"} /\ payer'[c] = e.real
    BY <1>1, <1>2, <1>4, ExtrinsicType DEF IsProxied, Payer
  <2>2. PICK h \in proxies : h.real = e.real /\ h.delegate = Delegate(e) /\ h.delay <= waited'[c]
    BY <2>1, FinalizeGranted
  <2>3. PICK g \in Calls : Makes(g, h)
    BY DEF MadeInv
  <2>4. /\ executed[g] # 0 /\ request[g].op \in {"add_proxy", "create_pure_proxy"}
        /\ GrantOf(Extrinsic(request[g])) = h
    BY <2>3 DEF Makes
  <2>5. request[g] \in Requests /\ Malformed \notin Decoded(request[g])
    BY <2>4 DEF TypeOK, FormInv
  <2>6. request[g].delay = Extrinsic(request[g]).delay
    BY <2>4, <2>5, ExtrinsicType
  <2>7. /\ h.real = Extrinsic(request[g]).real /\ h.delegate = Extrinsic(request[g]).delegate
        /\ h.delay = Extrinsic(request[g]).delay
    BY <2>4 DEF GrantOf, Grant
  <2>8. g # c /\ executed'[g] \in 1..executed'[c]
    BY <1>1, <2>4 DEF TypeOK
  <2> QED BY <1>4, <2>1, <2>2, <2>4, <2>6, <2>7, <2>8
<1> QED BY <1>3, <1>4

\* A grant of the signer's own is made by add_proxy: create_pure_proxy grants for a keyless
\* account.
LEMMA SameGrant ==
  ASSUME NEW r \in Requests, NEW s \in Requests, s.op = "remove_proxy",
         r.op \in {"add_proxy", "create_pure_proxy"}, GrantOf(Extrinsic(r)) = GrantOf(Extrinsic(s))
  PROVE  Extrinsic(r) = [Extrinsic(s) EXCEPT !.kind = "add_proxy"]
<1>1. Extrinsic(s) = remove_proxy(s) /\ s.key \in Keys
  BY ExtrinsicIs, RequestType DEF Grantings
<1>2. CASE r.op = "create_pure_proxy"
  <2>1. Extrinsic(r) = create_pure_proxy(r) /\ r.key \in Keys
    BY <1>2, ExtrinsicIs, RequestType DEF Creations
  <2>2. PureOf[SignerOf[r.key]] = SignerOf[s.key]
    BY <1>1, <2>1 DEF GrantOf, Grant, create_pure_proxy, remove_proxy
  <2> QED BY <1>1, <2>1, <2>2, KeysAssumption
<1>3. CASE r.op = "add_proxy"
  <2>1. Extrinsic(r) = add_proxy(r)
    BY <1>3, ExtrinsicIs
  <2> QED BY <1>1, <2>1 DEF GrantOf, Grant, add_proxy, remove_proxy
<1> QED BY <1>2, <1>3

LEMMA FinalizeRemoved == ASSUME IInv, NEW c \in Calls, Finalize(c) PROVE RemovedInv'
<1> USE DEF IInv
<1> DEFINE e == Extrinsic(request[c])
<1>1. /\ request[c] \in Requests /\ Malformed \notin Decoded(request[c])
      /\ executed[c] = 0 /\ Execute(e) /\ request' = request
      /\ executed' \in [Calls -> Nat] /\ executed'[c] # 0
      /\ \A d \in Calls : executed[d] < executed'[c]
      /\ \A d \in Calls : d # c => executed'[d] = executed[d]
  BY FinalizeDoes
<1> SUFFICES ASSUME NEW d \in Calls, executed'[d] # 0, request[d].op = "remove_proxy",
                    GrantOf(Extrinsic(request[d])) \in proxies'
             PROVE  \E g \in Calls :
                      /\ executed'[d] \in 1..executed'[g] - 1
                      /\ Extrinsic(request[g]) = [Extrinsic(request[d]) EXCEPT !.kind = "add_proxy"]
  BY <1>1 DEF RemovedInv
<1> DEFINE h == GrantOf(Extrinsic(request[d]))
<1>2. d # c
  <2> SUFFICES ASSUME d = c PROVE FALSE
    OBVIOUS
  <2>1. e.kind = "remove_proxy" /\ h = GrantOf(e)
    BY <1>1, ExtrinsicType
  <2>2. ExecuteRemove(e)
    BY <1>1, <2>1 DEF Execute, ExecutePayment, ExecuteAnnounce, ExecuteGrant, IsPayment
  <2>3. proxies' = proxies \ {GrantOf(e)}
    BY <2>2 DEF ExecuteRemove
  <2> QED BY <2>1, <2>3
<1>3. executed[d] # 0 /\ executed'[d] = executed[d] /\ executed[d] \in Nat
  BY <1>1, <1>2
<1>4. CASE h \in proxies
  <2>1. PICK g \in Calls :
          /\ executed[d] \in 1..executed[g] - 1
          /\ Extrinsic(request[g]) = [Extrinsic(request[d]) EXCEPT !.kind = "add_proxy"]
    BY <1>3, <1>4 DEF RemovedInv
  <2>2. g # c
    BY <1>1, <1>3, <2>1
  <2> QED BY <1>1, <1>3, <2>1, <2>2
<1>5. CASE h \notin proxies
  <2> HIDE DEF e
  <2>1. ExecuteGrant(e)
    BY <1>1, <1>5 DEF Execute, ExecutePayment, ExecuteAnnounce, ExecuteRemove
  <2>2. e.kind \in {"add_proxy", "create_pure"} /\ h = GrantOf(e)
    BY <1>5, <2>1 DEF ExecuteGrant
  <2> USE DEF e
  <2>3. request[c].op \in {"add_proxy", "create_pure_proxy"}
    BY <1>1, <2>2, ExtrinsicType
  <2>4. request[d] \in Requests
    BY <1>3 DEF TypeOK, FormInv
  <2>5. e = [Extrinsic(request[d]) EXCEPT !.kind = "add_proxy"]
    BY <1>1, <2>2, <2>3, <2>4, SameGrant
  <2>6. executed'[d] \in 1..executed'[c] - 1
    BY <1>1, <1>3
  <2> QED BY <2>5, <2>6
<1> QED BY <1>4, <1>5

LEMMA FinalizeFresh == ASSUME IInv, NEW c \in Calls, Finalize(c) PROVE FreshInv'
<1> USE DEF IInv
<1> DEFINE e == Extrinsic(request[c])
           pays == IsPayment(e) /\ CanPay(Payer(e), e.amount)
<1>1. /\ request' = request /\ executed'[c] # 0
      /\ \A d \in Calls : d # c => executed'[d] = executed[d]
  BY FinalizeDoes
<1>2. fresh' = [d \in Calls |-> fresh[d] /\ (d = c \/ ~pays \/ Payer(e) # SignerOf[request[d].key])]
  BY DEF Finalize
<1>3. /\ balance' \in [Accounts -> Nat] /\ (~pays => balance' = balance)
      /\ pays => \A a \in Accounts \ {Payer(e)} : balance'[a] >= balance[a]
  BY FinalizePays
<1> HIDE DEF e, pays
<1> SUFFICES ASSUME NEW d \in Calls, fresh'[d], executed'[d] = 0
             PROVE  request[d].op = "sweep" /\ request[d].amount <= balance'[SignerOf[request[d].key]]
  BY <1>1 DEF FreshInv
<1>4. d # c /\ fresh[d] /\ executed[d] = 0 /\ (~pays \/ Payer(e) # SignerOf[request[d].key])
  BY <1>1, <1>2
<1>5. request[d].op = "sweep" /\ request[d].amount <= balance[SignerOf[request[d].key]]
  BY <1>4 DEF FreshInv
<1>6. request[d] \in Sweeps
  BY <1>5, RequestType DEF TypeOK, NoCall
<1>7. request[d].amount \in Nat /\ SignerOf[request[d].key] \in Accounts
  BY <1>6, KeysAssumption DEF Sweeps
<1>8. balance'[SignerOf[request[d].key]] >= balance[SignerOf[request[d].key]]
  BY <1>3, <1>4, <1>7 DEF TypeOK, ChainTypeOK
<1> QED BY <1>3, <1>5, <1>7, <1>8 DEF TypeOK, ChainTypeOK

LEMMA FinalizeStep == ASSUME IInv, NEW c \in Calls, Finalize(c) PROVE IInv'
BY FinalizeTypes, FinalizeResults, FinalizeMade, FinalizeDelays, FinalizeRemoved, FinalizeFresh DEF IInv

LEMMA NextInv == IInv /\ [Next]_vars => IInv'
<1> SUFFICES ASSUME IInv, [Next]_vars PROVE IInv'
  OBVIOUS
<1>1. ASSUME NEW c \in Calls, Finalize(c) PROVE IInv'
  BY <1>1, FinalizeStep
<1>2. ASSUME NEW c \in Calls, NEW r \in Requests, Begin(c, r) PROVE IInv'
  BY <1>2, BeginStep
<1>3. CASE Mine
  BY <1>3, MineStep
<1>4. CASE Receive
  BY <1>4, ReceiveStep
<1>5. CASE Quiet
  BY <1>5, QuietStep
<1>6. CASE UNCHANGED vars
  BY <1>6, StutterStep
<1> QED BY <1>1, <1>2, <1>3, <1>4, <1>5, <1>6 DEF Next, Node, Caller, Quiet

-----------------------------------------------------------------------------
(* The theorems *)

LEMMA TransfersInv == Spec => []IInv
BY InitInv, NextInv, PTL DEF Spec

\* The types, and what the place of a call of the sweeper or of the proxy manager says of its
\* extrinsic: none before it is submitted, and none pending once the block is finalized, the
\* awaits of sweep_assets and proxy_transfer.
THEOREM TransferTypes == Spec => []TypeOK
<1>1. IInv => TypeOK
  BY DEF IInv
<1> QED BY <1>1, TransfersInv, PTL

\* What sweep_assets, sweep_native and the proxy manager's calls return is so, and stays so,
\* whichever requests to the node fail: wait_for_finalized, then wait_for_success.
THEOREM AnswersTrue == Spec => []AnswersAreTrue
<1>1. IInv => AnswersAreTrue
  <2> SUFFICES ASSUME IInv, NEW c \in Calls
               PROVE  /\ pc[c] = "ok" => executed[c] # 0
                      /\ pc[c] = "ok" /\ request[c].op = "sweep" => moved[c] = SweepAmount(request[c])
                      /\ pc[c] = "ok" /\ IsProxied(request[c]) => moved[c] \in {0, request[c].amount}
                      /\ pc[c] = "refused" => executed[c] = 0
    BY DEF AnswersAreTrue
  <2>1. pc[c] = "ok" => executed[c] # 0
    BY DEF IInv, TypeOK, ResultInv
  <2>2. pc[c] = "refused" => executed[c] = 0
    BY DEF IInv, TypeOK
  <2> QED BY <2>1, <2>2 DEF IInv, ResultInv
<1> QED BY <1>1, TransfersInv, PTL

\* A delegate's payment was granted, and waited the delay its grant was configured with:
\* proxy_transfer and proxy_announced_transfer after add_proxy or create_pure_proxy.
THEOREM DelaysKept == Spec => []DelaysAreKept
<1>1. IInv => DelaysAreKept
  BY DEF IInv
<1> QED BY <1>1, TransfersInv, PTL

\* After remove_proxy has returned Ok its grant is there only if add_proxy made it again.
THEOREM RemovedGone == Spec => []RemovedIsGone
<1>1. IInv => RemovedIsGone
  <2>1. ASSUME IInv, NEW c \in Calls, pc[c] = "ok" PROVE executed[c] # 0
    BY <2>1 DEF IInv, TypeOK, ResultInv
  <2>2. IInv => RemovedInv
    BY DEF IInv
  <2> QED BY <2>1, <2>2 DEF RemovedIsGone, RemovedInv
<1> QED BY <1>1, TransfersInv, PTL

\* A sweep leaves keep_for_fees in the account it pays from, if nothing else has left that
\* account since the caller read its balance: sweep_assets.
THEOREM ReserveKept == Spec => ReserveIsKept
<1> DEFINE Kept == \A c \in Calls :
      (moved'[c] # moved[c] /\ request[c].op = "sweep" /\ fresh[c])
        => balance'[SignerOf[request[c].key]] >= request[c].keep
<1>1. ASSUME IInv, Next PROVE Kept
  <2> SUFFICES ASSUME NEW c \in Calls, moved'[c] # moved[c], request[c].op = "sweep", fresh[c]
               PROVE  balance'[SignerOf[request[c].key]] >= request[c].keep
    OBVIOUS
  <2>1. PICK d \in Calls : Finalize(d)
    BY <1>1 DEF Next, Node, Caller, Connect, Mine, Receive, FinalizeFailing, DropExtrinsic, Begin,
                Submit, Finalized, Succeeds, Fails, GivesUp, history
  <2>2. d = c /\ Finalize(c)
    BY <1>1, <2>1, FinalizeDoes
  <2> DEFINE e == Extrinsic(request[c])
             pays == IsPayment(e) /\ CanPay(Payer(e), e.amount)
  <2>3. /\ request[c] \in Requests /\ Malformed \notin Decoded(request[c])
        /\ executed[c] = 0 /\ moved[c] = 0
    BY <1>1, <2>2, FinalizeDoes
  <2>4. moved'[c] = IF pays THEN e.amount ELSE 0
    BY <1>1, <2>2, FinalizeMoves
  <2>5. pays /\ e.amount # 0
    BY <2>3, <2>4
  <2>6. Payer(e) = SignerOf[request[c].key] /\ e.amount = SweepAmount(request[c])
    BY <2>3, ExtrinsicType DEF Payer
  <2>7. /\ balance' \in [Accounts -> Nat] /\ Payer(e) \in Accounts
        /\ balance'[Payer(e)] >= balance[Payer(e)] - e.amount
    BY <1>1, <2>2, <2>5, FinalizePays
  <2>8. request[c].amount <= balance[Payer(e)] /\ balance[Payer(e)] \in Nat
    BY <1>1, <2>3, <2>6, <2>7 DEF IInv, FreshInv, TypeOK, ChainTypeOK
  <2>9. request[c].amount \in Nat /\ request[c].keep \in Nat
    BY <2>3, RequestType DEF Sweeps
  <2>10. e.amount = request[c].amount - request[c].keep /\ request[c].keep < request[c].amount
    BY <2>5, <2>6, <2>9 DEF SweepAmount
  <2> HIDE DEF e, pays
  <2>11. balance'[Payer(e)] \in Nat
    BY <2>7
  <2> QED BY <2>6, <2>7, <2>8, <2>9, <2>10, <2>11
<1>2. IInv /\ [Next]_vars => [Kept]_vars
  BY <1>1
<1> QED BY <1>2, TransfersInv, PTL DEF Spec, ReserveIsKept
-----------------------------------------------------------------------------
(* Announced payments *)

\* The announcements there are of a payment.
PaymentOf(a) == <<a.real, a.delegate, a.to, a.amount>>
Standing(p)  == {a \in announcements : PaymentOf(a) = p}

\* What was announced and is not used up, and what was executed, was announced as often.
CountInv == \A p :
  /\ IsFiniteSet(Standing(p)) /\ IsFiniteSet(Done("announce", p))
  /\ IsFiniteSet(Done("proxy_announced_transfer", p))
  /\ Cardinality(Standing(p)) + Cardinality(Done("proxy_announced_transfer", p))
       <= Cardinality(Done("announce", p))

LEMMA CountInit == Init => CountInv
<1> SUFFICES ASSUME Init, NEW p
             PROVE  /\ IsFiniteSet(Standing(p)) /\ IsFiniteSet(Done("announce", p))
                    /\ IsFiniteSet(Done("proxy_announced_transfer", p))
                    /\ Cardinality(Standing(p)) + Cardinality(Done("proxy_announced_transfer", p))
                         <= Cardinality(Done("announce", p))
  BY DEF CountInv
<1>1. Standing(p) = {} /\ Done("announce", p) = {} /\ Done("proxy_announced_transfer", p) = {}
  BY DEF Init, ChainInit, Standing, Done
<1> QED BY <1>1, FS_EmptySet

\* Until an extrinsic is executed nothing is announced, used up or done.
LEMMA CountRests ==
  ASSUME CountInv, UNCHANGED <<announcements, executed>>,
         \A c \in Calls : executed[c] # 0 => request'[c] = request[c]
  PROVE  CountInv'
<1>1. \A p : Standing(p)' = Standing(p)
  BY DEF Standing
<1>2. \A op, p : Done(op, p)' = Done(op, p)
  BY DEF Done, PaymentBy
<1> QED BY <1>1, <1>2 DEF CountInv

\* An extrinsic that is executed is counted.
LEMMA DoneStep ==
  ASSUME IInv, NEW c \in Calls, Finalize(c), NEW op, NEW p
  PROVE  /\ c \notin Done(op, p)
         /\ Done(op, p)' = IF request[c].op = op /\ PaymentBy(c) = p THEN Done(op, p) \cup {c}
                           ELSE Done(op, p)
<1>1. /\ executed[c] = 0 /\ executed'[c] # 0 /\ request' = request
      /\ \A d \in Calls : d # c => executed'[d] = executed[d]
  BY FinalizeDoes
<1> QED BY <1>1 DEF Done, PaymentBy

\* An announcement is one more, and an announced payment uses up at least one of its own.
LEMMA StandingStep ==
  ASSUME IInv, NEW c \in Calls, Finalize(c), NEW p, IsFiniteSet(Standing(p))
  PROVE  /\ IsFiniteSet(Standing(p)')
         /\ Cardinality(Standing(p)') <=
              Cardinality(Standing(p))
                + IF request[c].op = "announce" /\ PaymentBy(c) = p THEN 1 ELSE 0
         /\ request[c].op = "proxy_announced_transfer" /\ PaymentBy(c) = p =>
              Cardinality(Standing(p)') + 1 <= Cardinality(Standing(p))
<1> DEFINE e == Extrinsic(request[c])
           n == Cardinality(Standing(p))
<1>1. /\ request[c] \in Requests /\ Malformed \notin Decoded(request[c])
      /\ Accepts(e) /\ Execute(e)
  BY FinalizeDoes
<1>2. /\ request[c].op = "announce" <=> e.kind = "announce"
      /\ request[c].op = "proxy_announced_transfer" <=> e.kind = "proxy_announced"
  BY <1>1, ExtrinsicType
<1>3. PaymentBy(c) = PaymentFrom(e)
  BY DEF PaymentBy
<1>4. n \in Nat
  BY FS_CardinalityType
<1> HIDE DEF e
<1>5. CASE e.kind = "announce"
  <2> DEFINE a == [real |-> e.real, delegate |-> e.signer, to |-> e.to, amount |-> e.amount,
                   height |-> height]
  <2>1. announcements' = announcements \cup {a}
    BY <1>1, <1>5 DEF Execute, ExecuteAnnounce, ExecutePayment, ExecuteGrant, ExecuteRemove, IsPayment
  <2>2. PaymentOf(a) = PaymentFrom(e)
    BY <1>5 DEF PaymentOf, PaymentFrom, Delegate
  <2> HIDE DEF a
  <2>3. Standing(p)' = IF PaymentFrom(e) = p THEN Standing(p) \cup {a} ELSE Standing(p)
    BY <2>1, <2>2 DEF Standing
  <2>4. IsFiniteSet(Standing(p) \cup {a}) /\ Cardinality(Standing(p) \cup {a}) <= n + 1
    <3> DEFINE T == Standing(p) \cup {a}
    <3>1. IsFiniteSet(T) /\ (Cardinality(T) = n \/ Cardinality(T) = n + 1)
      BY FS_AddElement
    <3> HIDE DEF T, n
    <3>2. Cardinality(T) <= n + 1
      BY <1>4, <3>1
    <3> QED BY <3>1, <3>2 DEF T
  <2> QED BY <1>2, <1>3, <1>4, <1>5, <2>3, <2>4
<1>6. CASE e.kind = "proxy_announced"
  <2>1. announcements' = announcements \ Mature(e) /\ Mature(e) # {}
    BY <1>1, <1>6 DEF Accepts, Execute, ExecuteAnnounce, ExecutePayment, ExecuteGrant, ExecuteRemove
  <2>2. \A a \in Mature(e) : a \in announcements /\ PaymentOf(a) = PaymentFrom(e)
    BY DEF Mature, Announced, PaymentOf, PaymentFrom
  <2>3. Standing(p)' \subseteq Standing(p)
    BY <2>1 DEF Standing
  <2>4. IsFiniteSet(Standing(p)') /\ Cardinality(Standing(p)') <= n
    BY <2>3, FS_Subset
  <2>5. ASSUME PaymentFrom(e) = p PROVE Cardinality(Standing(p)') + 1 <= n
    <3>1. PICK a \in Mature(e) : a \in Standing(p) /\ a \notin Standing(p)'
      BY <2>1, <2>2, <2>5 DEF Standing
    <3>2. Cardinality(Standing(p)') < n /\ Cardinality(Standing(p)') \in Nat
      BY <2>3, <2>4, <3>1, FS_Subset, FS_CardinalityType
    <3> QED BY <1>4, <3>2
  <2>6. Cardinality(Standing(p)') \in Nat
    BY <2>4, FS_CardinalityType
  <2> QED BY <1>2, <1>3, <1>4, <1>6, <2>4, <2>5, <2>6
<1>7. CASE e.kind \notin {"announce", "proxy_announced"}
  <2>1. announcements' = announcements
    BY <1>1, <1>7 DEF Execute, ExecuteAnnounce, ExecutePayment, ExecuteGrant, ExecuteRemove
  <2>2. Standing(p)' = Standing(p)
    BY <2>1 DEF Standing
  <2> QED BY <1>2, <1>4, <1>7, <2>2
<1> QED BY <1>5, <1>6, <1>7

LEMMA CountFinalize == ASSUME IInv, CountInv, NEW c \in Calls, Finalize(c) PROVE CountInv'
<1> SUFFICES ASSUME NEW p
             PROVE  /\ IsFiniteSet(Standing(p)') /\ IsFiniteSet(Done("announce", p)')
                    /\ IsFiniteSet(Done("proxy_announced_transfer", p)')
                    /\ Cardinality(Standing(p)') + Cardinality(Done("proxy_announced_transfer", p)')
                         <= Cardinality(Done("announce", p)')
  BY DEF CountInv
<1> DEFINE S == Standing(p)
           A == Done("announce", p)
           D == Done("proxy_announced_transfer", p)
           announces == request[c].op = "announce" /\ PaymentBy(c) = p
           pays      == request[c].op = "proxy_announced_transfer" /\ PaymentBy(c) = p
<1>1. /\ IsFiniteSet(S) /\ IsFiniteSet(A) /\ IsFiniteSet(D)
      /\ Cardinality(S) + Cardinality(D) <= Cardinality(A)
  BY DEF CountInv
<1>2. /\ IsFiniteSet(Standing(p)')
      /\ Cardinality(Standing(p)') <= Cardinality(S) + IF announces THEN 1 ELSE 0
      /\ pays => Cardinality(Standing(p)') + 1 <= Cardinality(S)
  BY <1>1, StandingStep
<1>3. /\ c \notin A /\ Done("announce", p)' = IF announces THEN A \cup {c} ELSE A
      /\ c \notin D /\ Done("proxy_announced_transfer", p)' = IF pays THEN D \cup {c} ELSE D
  BY DoneStep
<1>4. ~(announces /\ pays)
  OBVIOUS
<1> HIDE DEF S, A, D, announces, pays
<1>5. /\ IsFiniteSet(A \cup {c}) /\ Cardinality(A \cup {c}) = Cardinality(A) + 1
      /\ IsFiniteSet(D \cup {c}) /\ Cardinality(D \cup {c}) = Cardinality(D) + 1
  BY <1>1, <1>3, FS_AddElement
<1>6. /\ Cardinality(S) \in Nat /\ Cardinality(A) \in Nat /\ Cardinality(D) \in Nat
      /\ Cardinality(Standing(p)') \in Nat
  BY <1>1, <1>2, FS_CardinalityType
<1>7. CASE announces
  <2>1. Done("announce", p)' = A \cup {c} /\ Done("proxy_announced_transfer", p)' = D
    BY <1>3, <1>4, <1>7
  <2>2. Cardinality(Standing(p)') <= Cardinality(S) + 1
    BY <1>2, <1>7
  <2>3. Cardinality(Standing(p)') + Cardinality(D) <= Cardinality(A) + 1
    BY <1>1, <1>6, <2>2
  <2> QED BY <1>1, <1>2, <1>5, <2>1, <2>3
<1>8. CASE pays
  BY <1>1, <1>2, <1>3, <1>4, <1>5, <1>6, <1>8
<1>9. CASE ~announces /\ ~pays
  BY <1>1, <1>2, <1>3, <1>6, <1>9
<1> QED BY <1>7, <1>8, <1>9

LEMMA CountNext == IInv /\ CountInv /\ [Next]_vars => CountInv'
<1> SUFFICES ASSUME IInv, CountInv, [Next]_vars PROVE CountInv'
  OBVIOUS
<1>1. ASSUME NEW c \in Calls, Finalize(c) PROVE CountInv'
  BY <1>1, CountFinalize
<1>2. ASSUME NEW c \in Calls, NEW r \in Requests, Begin(c, r) PROVE CountInv'
  <2>1. executed[c] = 0
    BY <1>2 DEF Begin, IInv, TypeOK
  <2>2. UNCHANGED <<announcements, executed>> /\ \A d \in Calls : d # c => request'[d] = request[d]
    BY <1>2 DEF Begin, chain, IInv, TypeOK
  <2> QED BY <2>1, <2>2, CountRests
<1>3. CASE Mine \/ Receive
  <2>1. UNCHANGED <<announcements, executed, request>>
    BY <1>3 DEF Mine, NewBlock, Receive, Deposit, history
  <2> QED BY <2>1, CountRests
<1>4. CASE Quiet
  <2>1. UNCHANGED <<announcements, executed, request>>
    BY <1>4 DEF Quiet, Connect, FinalizeFailing, DropExtrinsic, Submit, Finalized, Succeeds, Fails,
                GivesUp, chain, history
  <2> QED BY <2>1, CountRests
<1>5. CASE UNCHANGED vars
  <2>1. UNCHANGED <<announcements, executed, request>>
    BY <1>5 DEF vars, chain, history
  <2> QED BY <2>1, CountRests
<1> QED BY <1>1, <1>2, <1>3, <1>4, <1>5 DEF Next, Node, Caller, Quiet

\* proxy_announced_transfer may be called again after an error that leaves open whether its
\* extrinsic was executed: the payment is made once for each announce, for any number of calls.
THEOREM RetriesPayOnce == Spec => []ExecutedAsAnnounced
<1>1. CountInv => ExecutedAsAnnounced
  <2> SUFFICES ASSUME CountInv, NEW p
               PROVE  Cardinality(Done("proxy_announced_transfer", p)) <= Cardinality(Done("announce", p))
    BY DEF ExecutedAsAnnounced
  <2>1. /\ Cardinality(Standing(p)) \in Nat /\ Cardinality(Done("announce", p)) \in Nat
        /\ Cardinality(Done("proxy_announced_transfer", p)) \in Nat
        /\ Cardinality(Standing(p)) + Cardinality(Done("proxy_announced_transfer", p))
             <= Cardinality(Done("announce", p))
    BY FS_CardinalityType DEF CountInv
  <2> QED BY <2>1
<1> QED BY <1>1, TransfersInv, CountInit, CountNext, PTL DEF Spec
=============================================================================
