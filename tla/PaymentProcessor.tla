-------------------------- MODULE PaymentProcessor --------------------------
(***************************************************************************)
(* The payment processor, src/src/lib.rs, in each of several processes on  *)
(* one vault directory: the Polkadot wallet it makes from the seed and the *)
(* Stripe processors, src/src/stripe.rs, it makes from the two keys.  Both *)
(* keep the secrets they were made from, whatever the vault gets later.    *)
(***************************************************************************)
EXTENDS SharedVault, Integers, Sequences, SequencesExt

CONSTANTS
  WalletSeed, StripeSecretKey, StripeWebhookSecret,
  BadSeeds    \* the secrets that are neither 32 nor 64 bytes long

ASSUME IdsAssumption ==
  /\ {WalletSeed, StripeSecretKey, StripeWebhookSecret} \subseteq Ids
  /\ WalletSeed # StripeSecretKey /\ WalletSeed # StripeWebhookSecret
  /\ StripeSecretKey # StripeWebhookSecret

VARIABLES
  polkadot,   \* polkadot[p]: the seed of the wallet, None before init_polkadot
  stripe,     \* stripe[p]: the StripeProcessor in use, [key, webhook]
  making,     \* making[p]: the secret key of the one being made
  replaced    \* history: <<p, id>>: p itself stored or deleted id since it took it

processor == <<polkadot, stripe, making, replaced>>
vars      == <<shared, processor>>

NoStripe == [key |-> None, webhook |-> None]
Ready(p) == Free(p) /\ making[p] = None

Init ==
  /\ SharedInit
  /\ polkadot = [p \in Procs |-> None]
  /\ stripe = [p \in Procs |-> NoStripe]
  /\ making = [p \in Procs |-> None]
  /\ replaced = {}

-----------------------------------------------------------------------------
(* vault_mut: store, load and delete *)

Store(p) ==
  \/ \E id \in Ids : Ready(p) /\ Open(p, id) /\ UNCHANGED processor
  \/ StoreFails(p) /\ UNCHANGED processor
  \/ /\ StoreReturns(p)
     /\ replaced' = replaced \cup {<<p, call[p].id>>}
     /\ UNCHANGED <<polkadot, stripe, making>>

LoadSecret(p) == \E id \in Ids :
  /\ Ready(p) /\ Load(p, id)
  /\ UNCHANGED processor

DeleteSecret(p) == \E id \in Ids :
  /\ Ready(p) /\ Delete(p, id)
  /\ replaced' = replaced \cup {<<p, id>>}
  /\ UNCHANGED <<polkadot, stripe, making>>

-----------------------------------------------------------------------------
(* init_polkadot and stripe *)

\* Mutant: the wallet that is there is kept, and no seed is refused for its length.
InitPolkadotOnce(p) ==
  /\ Ready(p)
  /\ Load(p, WalletSeed)
  /\ polkadot' = [polkadot EXCEPT ![p] = IF @ = None THEN Found(p, WalletSeed) ELSE @]
  /\ replaced' = replaced \ {<<p, WalletSeed>>}
  /\ UNCHANGED <<stripe, making>>

\* A seed that does not load, or is of no length, leaves the wallet that is there.
InitPolkadot(p) ==
  /\ Ready(p)
  /\ Load(p, WalletSeed)
  /\ IF Found(p, WalletSeed) \in Secrets \ BadSeeds
       THEN /\ polkadot' = [polkadot EXCEPT ![p] = Found(p, WalletSeed)]
            /\ replaced' = replaced \ {<<p, WalletSeed>>}
       ELSE UNCHANGED <<polkadot, replaced>>
  /\ UNCHANGED <<stripe, making>>

\* from_vault fails without a secret key.
StripeKey(p) ==
  /\ Ready(p)
  /\ Load(p, StripeSecretKey)
  /\ making' = [making EXCEPT ![p] = Found(p, StripeSecretKey)]
  /\ UNCHANGED <<polkadot, stripe, replaced>>

\* Mutant: the webhook secret in use is kept.
StripeWebhookKept(p) ==
  /\ making[p] # None
  /\ Load(p, StripeWebhookSecret)
  /\ stripe' = [stripe EXCEPT ![p] =
       [key |-> making[p],
        webhook |-> IF @.webhook # None THEN @.webhook ELSE Found(p, StripeWebhookSecret)]]
  /\ making' = [making EXCEPT ![p] = None]
  /\ replaced' = replaced \ {<<p, StripeSecretKey>>, <<p, StripeWebhookSecret>>}
  /\ UNCHANGED polkadot

\* Without a webhook secret, or with one that does not load, it is made all the same.
StripeWebhook(p) ==
  /\ making[p] # None
  /\ Load(p, StripeWebhookSecret)
  /\ stripe' = [stripe EXCEPT ![p] =
       [key |-> making[p], webhook |-> Found(p, StripeWebhookSecret)]]
  /\ making' = [making EXCEPT ![p] = None]
  /\ replaced' = replaced \ {<<p, StripeSecretKey>>, <<p, StripeWebhookSecret>>}
  /\ UNCHANGED polkadot

Restart(p) ==
  /\ Die(p)
  /\ polkadot' = [polkadot EXCEPT ![p] = None]
  /\ stripe' = [stripe EXCEPT ![p] = NoStripe]
  /\ making' = [making EXCEPT ![p] = None]
  /\ replaced' = replaced \ ({p} \X Ids)

Next == \E p \in Procs :
  \/ Store(p) \/ LoadSecret(p) \/ DeleteSecret(p)
  \/ InitPolkadot(p) \/ StripeKey(p) \/ StripeWebhook(p) \/ Restart(p)

Spec == Init /\ [][Next]_vars

-----------------------------------------------------------------------------
(* verify_webhook *)

\* The parts of a signature header: a time, in seconds from now, and a signature over
\* the time and the payload under a secret.
Time(t)         == [name |-> "t", time |-> t, secret |-> None]
Signature(t, s) == [name |-> "v1", time |-> t, secret |-> s]

\* Of several parts of one name the last counts.
Part(header, name) == header[SelectLastInSeq(header, LAMBDA part : part.name = name)]
Has(header, name)  == \E i \in DOMAIN header : header[i].name = name

\* Mutant: the time is not looked at.
VerifiesAnyTime(p, header) ==
  /\ stripe[p].webhook # None
  /\ Has(header, "v1")
  /\ Part(header, "v1").secret = stripe[p].webhook

Tolerance == 300

Verifies(p, header) ==
  /\ stripe[p].webhook # None
  /\ Has(header, "t") /\ Has(header, "v1")
  /\ Part(header, "t").time \in -Tolerance..Tolerance
  /\ Part(header, "v1") = Signature(Part(header, "t").time, stripe[p].webhook)

-----------------------------------------------------------------------------
(* Properties *)

\* The vaults' fields, and what was made from them.
TypeOK ==
  /\ SharedTypeOK
  /\ polkadot \in [Procs -> (Secrets \ BadSeeds) \cup {None}]
  /\ stripe \in [Procs -> [key : Secrets \cup {None}, webhook : Secrets \cup {None}]]
  /\ making \in [Procs -> Secrets \cup {None}]
  /\ \A p \in Procs : making[p] # None => Free(p)
  /\ replaced \subseteq Procs \X Ids

\* What a wallet or a Stripe processor was made from.
Uses(p, id) ==
  CASE id = WalletSeed          -> polkadot[p]
    [] id = StripeSecretKey     -> stripe[p].key
    [] id = StripeWebhookSecret -> stripe[p].webhook
    [] OTHER                    -> None

\* A processor works with the secrets its own vault would load, unless its process has
\* stored or deleted them since it was made.
MadeFromVault ==
  \A p \in Procs, id \in Ids :
    Uses(p, id) # None /\ <<p, id>> \notin replaced => Uses(p, id) = cache[p][id]

\* Two processes give a user the same addresses, unless the seed's file was touched
\* after one of them read it or one of them has replaced the seed.
SameAddresses ==
  \A p, q \in Procs :
    LET Settled(r) == polkadot[r] # None /\ <<r, WalletSeed>> \notin touched \cup replaced
    IN  Settled(p) /\ Settled(q) => polkadot[p] = polkadot[q]

\* A webhook signed with the secret on disk is taken when it is five minutes old at most,
\* and no other is, by a Stripe processor made since the secret was stored.
WebhooksVerify ==
  \A p \in Procs, s \in Secrets, t \in {-301, -300, 0, 300, 301} :
    stripe[p].webhook # None /\ <<p, StripeWebhookSecret>> \notin touched \cup replaced =>
      (Verifies(p, <<Time(t), Signature(t, s)>>)
         <=> s = disk[StripeWebhookSecret] /\ t \in -300..300)
=============================================================================
