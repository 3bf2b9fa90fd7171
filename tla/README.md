# Verification of hwpay

TLA+ models of hwpay (`src/`), checked with TLC, and proofs about them checked
with TLAPS. hwpay is a payment library: it keeps secrets in a vault, derives an
address for each user, listens on several chains for deposits to these
addresses, and sweeps or proxies the funds on.

## The system

| component | state | operations | hard behaviours |
|---|---|---|---|
| Zcash listener, `listener/zcash.rs` | `watched`, `processed`, `last_height`, in memory | `watch`, `run`, `poll`, `check_transaction` | the node's chain reorganises between requests; every request may fail; `run` may be dropped at any await; restarts |
| Secret vault, `vault.rs`, over `tpm.rs` and `crypto.rs` | a directory of files, a cache, the password, `uses_tpm` | `open`, `store`, `load`, `exists`, `delete`, `list_secrets` | files are rewritten in place; crashes and I/O errors between steps; a TPM that comes and goes; other passwords |
| Asset Hub listener, `listener/assethub.rs` | `watched` behind a tokio `RwLock` | `watch`, `unwatch`, `run`, two transfer handlers | the read guard is held across the callback; callers queue for the lock; unreadable blocks; nothing is remembered across runs |
| Penumbra listener, `listener/penumbra.rs` | `watched_indices`, `processed_notes`, a client, each behind an `RwLock` | `watch`, `unwatch`, `run`, `poll_deposits`, `get_balance` | a note is marked before its callback; only unspent notes are listed; the guard lives as long as the stream |
| Polkadot listeners, `listener/polkadot.rs` | `watched`, `last_block` | `watch`, `run`, `poll` | decoding is a TODO: no deposit is ever produced |
| Sweeper and proxy manager, `sweep.rs`, `proxy.rs` | a client; the state is the chain's | `sweep_assets`, `sweep_native`, `create_pure_proxy`, `add_proxy`, `remove_proxy`, `proxy_transfer`, `announce`, `proxy_announced_transfer` | an error after submission says nothing of what the chain did; delays; stale amounts |
| Wallets, `wallet/*.rs` | a seed | derivation, SS58 and Zcash addresses | collisions of 32-bit indices; users' names inside paths; prefixes; the signer is not the derived key |
| Payment processor, `lib.rs` | a vault, a wallet | `init_polkadot`, `polkadot_address`, `rotate_polkadot_address`, `stripe` | overlapping rotations and the last index; the vault changes behind the wallet; a rotated address is not watched by itself |
| Stripe processor, `stripe.rs` | keys copied from the vault | payment intents, sessions, webhook checks | stale keys; the header's fields and its clock |

They meet in three places. The wallets and the Stripe processor load their
secrets from the vault. Every listener hands a `Deposit` to a `DepositCallback`
(`listener/mod.rs`), whose error is logged and nothing else: the callback is the
application's ledger. The application connects the rest by calls: it derives an
address, watches it, is called back, sweeps.

What makes the components correct:

- a listener credits every output to a watched address, to the user the address
  belongs to, once; where it may fail to, the causes are known;
- the vault returns under an id what was stored under it, whatever failed;
- an address belongs to one user, and rotating it gives a new one;
- several processes on one directory agree on what is in it, and what was made from a
  secret is the secret the vault would load;
- watching an address works while the listener runs, and ends;
- what a sweep or a proxy call returns is what the chain did, and delays, removed
  proxies and reserves are kept however calls overlap.

`PROJECT.json` lists the hazards behind these, each at its line.

## The modules

| module | models | checked by | proofs |
|---|---|---|---|
| `ZcashListener` | the Zcash listener and a node | `MCZcashListener`: `zcash`, `zcash_confirmations` | `ZcashListenerProofs` |
| `Vault` | the vault, its files and the TPM device | `MCVault`: `vault`, `vault_fallback`, `vault_alias` | `VaultProofs` |
| `Registrations` | the watched addresses behind a tokio `RwLock` | with the two that extend it | `RegistrationsProofs` |
| `AssetHubListener` | the Asset Hub listener and its callers | `MCAssetHubListener`: `assethub`, `assethub_reentrant` | `AssetHubListenerProofs` |
| `PenumbraListener` | the Penumbra listener, its callers and a view service | `MCPenumbraListener`: `penumbra` | `PenumbraListenerProofs` |
| `DepositLedger` | what a listener that remembers its deposits promises (abstract) | as `KeepsLedger` in `zcash` and `penumbra` | in both listeners' |
| `SharedVault` | the vaults of several processes on one directory | with `PaymentProcessor` | |
| `PaymentProcessor` | the payment and the Stripe processor over `SharedVault` | `MCPaymentProcessor`: `processor` | `PaymentProcessorProofs` |
| `KeyDerivation` | paths, indices, keys and address formats, as operators | with `DepositAddresses` | |
| `DepositAddresses` | deposit addresses from seed to credit, with rotation | `MCDepositAddresses`: `addresses` | `DepositAddressesProofs` |
| `AssetHubChain` | balances, grants and announcements on Asset Hub (external) | with `Transfers` | |
| `Transfers` | the sweeper and the proxy manager, and their callers | `MCTransfers`: `transfers`, `transfers_source` | `TransfersProofs` |

In each module an operator that a comment calls a mutant is a faulty version of
the one that follows; no specification uses it. It exists to show that a
property notices the fault.

### ZcashListener

`chain` is the node's best chain, which `Mine` extends and `Reorg` replaces from
any fork by a longer branch; a transaction is on a chain at most once. The other
variables are the listener's fields and the locals of `poll`, and `pc` names the
await at which `run` is suspended. One action is one stretch of code between
awaits: `PollCount` and `PollBlock` read the node, `FetchTx` gets a transaction,
`Offer` and `PassOutput` take the outputs in order, `MarkProcessed` inserts the
id after the last. `PollError`, `StartError` and `TxError` are the three ways a
failing request is handled. `Cancel` drops `run`'s future at any await and
`Restart` loses the process. `run` borrows the listener mutably, so `Watch` is
only possible between runs.

Four variables are history, which no action reads: how often each output was
offered, who was credited, how often the listener lost what it knew of a
transaction, and `excused`: the transactions it may pass over. `excused` is
where the code's gaps are named, and it grows by these causes only:

1. the block was on the chain when a run started (`run` starts at the node's height);
2. a reorganisation brought the transaction in at a height already read;
3. `getrawtransaction` failed (the transaction is skipped, its block is not read again);
4. the transaction was processed before its address was watched.

`NothingElsePassedOver` says that there is no fifth, `DuplicateOnlyAfterInterruption`
that a second credit needs a `Cancel` within the transaction or a `Restart`,
`OneOwnerPerAddress` that watching an address again does not move its deposits.

### DepositLedger

What the application may rely on, without the chain, the polls and the locks: four
actions, `Register`, `Offer`, `Dismiss` (a deposit to nobody's address is done with) and
`Lose`. A deposit that is remembered is not offered, one that is offered is
remembered, and `OfferedOnce` follows. `KeepsLedger` in the two listeners that
remember anything is this specification under a mapping:

| `DepositLedger` | `ZcashListener` | `PenumbraListener` |
|---|---|---|
| a deposit | an output | a note |
| `registered` | the entries of `watched` | `watched` |
| `remembered` | outputs of transactions in `processed`, and those before `pos` of the one in hand | `processed` |
| `losses` | `forgotten` of the transaction | `forgotten` |

The node's steps and those of the scan are stutters, and so is `MarkProcessed`, whose
outputs all lie before `pos`; `PassOutput` is a `Dismiss`, and a `Cancel` between an
output and the mark is a `Lose`. The Asset Hub listener remembers nothing and keeps no
ledger: `RepeatedAtHeads` is what it promises instead.

### Vault

`disk` maps each file to its content: nothing, `Torn`, or a blob (sealed or
encrypted, the secret, the password it is under). `store` is the sequence
`StoreSealed` or `StoreEncrypted`, `Truncate`, `Write`, `StoreReturns`: the file is
opened with `truncate(true)`, written, synced, and only then is the cache filled.
`StoreFails` is an I/O error at any of these points and `Close` a drop or a crash
at any of them. `Load` covers a load that misses the cache; one that hits it or
finds no file changes nothing and is no action. `Reads` says what a read gives
and whether the vault goes on using its TPM: it stops for good once the device
is missing. `SecretId` is a record of a stem and the number of ".sealed" it ends
with, which is all that `filename` and `list_secrets` look at.

The history is `may`, the secrets a load of an id may return (the last one stored,
and those whose store failed after truncating), and `sure`, the ids whose last
store returned `Ok` and was followed by no store that failed halfway.

Encryption is abstract: authenticated, so that a wrong password is an error. The
two formats are never taken for each other: the magic of an encrypted file, read
as the length of the sealed private part, is larger than the file. Not modelled
here: two vaults open on one directory (see `SharedVault`), directories that are not synced, a TPM that is
cleared (every sealed file is then lost), and files other programs write.

`tpm.rs:4` says that secrets unseal only "with same boot config"; `seal` sets no
PCR policy, so the boot configuration plays no part. There is no state to check
this on, so it is noted here only.

### Registrations

The Asset Hub and the Penumbra listener keep their addresses alike: `watched`, a map
behind an `RwLock` with which `watch` and `unwatch` write and `run` reads. `queue` is
the lock's waiters, in the order in which tokio serves them, and `guard` says that the
one reader, the listener, holds its guard. A writer's guard lives for one insert or
removal with no await in between, so `Write` is one step; `Grant` and `Release` are
two, and what a listener does between them is its module's. `Abandon` drops the
listener's future: its guard, its place in the queue, and no other's. A caller of
`watch` that gives up while it waits is not modelled.

### AssetHubListener

The reading guard taken for an event is held until the callback returns. `watch` and
`unwatch` are a request in the queue (`Call`) and its service (`ServeWrite`); `run` is
`NextBlock`, then per event `AskRead`, `Offer` or `ServeReadNothing`, `CallbackEnds`,
then `BlockDone`. `BlockFails` is a block, or its events, that cannot be got;
the code passes it over. Two things may go wrong in a block. `EventFails` is a handler's
error, a field that is missing or does not decode (`assethub.rs:161-182`), and costs that
event. `IteratorFails` is an error of the iterator itself (`assethub.rs:149-155`), at a
transfer or at any event before it: the code says `continue`, but subxt's iterator ends
with its first error, so the rest of the block is lost. `Stop` ends a
run at any await and gives up its guard, its place in the queue and its callback.
Where a subscription begins is the chain's: at the last finalized block or after it.
With `Reentrant` the callback calls `watch` or `unwatch` itself. Both handlers lock,
look up and call back alike; they differ in the asset, of which only whether it has a
name is kept.

The history is what was credited, what was credited twice, the blocks at which a
subscription began, and `due`: the transfers finalized during this run for an address
registered then and since, which neither a fault nor a call has taken away. A fault takes
what the code passes over and no more: the block, the rest of the block, or the event.

### PenumbraListener

A poll is `ListNotes`, which takes the service's answer and asks for the lock,
`StartStream`, which gets it, for each note `SkipNote` or `Offer` and `CallbackEnds`, and
`EndStream`. One guard lives for the whole stream and every callback of it.
`StreamFails` is the `?` of the stream; a poll that fails earlier, or finds the service
without a height, has changed nothing and is no step. `Offer` marks the note and calls
the callback in one action, for no await between the two lets `run` be dropped there.
The notes come in any order. The history is how often each note was offered, how often
a process that had marked it died, and which callbacks returned `Ok` and which did
not.

This is the Zcash listener's choice turned round. That one marks a transaction after
its callbacks and may credit twice (`DuplicateOnlyAfterInterruption`); this one marks a
note before, never offers it twice to one process (`OfferedOncePerProcess`), and loses
what its callback does not take, and nothing else (`LostInCallbackOnly`). It keeps no
height, so a note that came before its index was watched, or before `run`, is offered
when it can be (`NotesAreOffered`); one spent before that never is.

A callback that calls `watch` waits for itself here as in the Asset Hub listener,
where `assethub_reentrant` shows it; this model's callbacks do not.

### SharedVault and PaymentProcessor

`SharedVault` is the vault again, of several processes and with less of a single one: one
password, no TPM, whole and torn contents. `Open` is the truncation, `StoreReturns` and
`StoreFails` the write and what follows it, `Die` a process that stops at any point.
Nothing locks the files, so two stores of an id overlap; what the second writer leaves
is its secret or a mix (`Outcomes`), as write positions are each process's own. A
deleted file that a writer still has open is written without effect on the directory
(`linked`). A vault never drops what it has cached, whatever the file becomes.

The history says when something can be promised: `alone`, the processes whose store
had its file to itself so far; `kept`, what a file must hold after such a store or a
delete; `touched`, the files that may have changed since a process cached them.
`LastStoreIsKept` and `CacheIsFile` are promises about these. Neither holds of
overlapping stores: there, the file may be neither secret, and the memory of both
processes wrong.

`PaymentProcessor` adds what is made from the secrets: `InitPolkadot` (a wallet; a seed of
another length leaves the one that is there), and `StripeKey` and `StripeWebhook`, the
two loads of `StripeProcessor::from_vault`, of which the second may fail without notice.
Other processes may act between the two. `MadeFromVault` says when these are
current, `SameAddresses` when two processes give a user the same address, and
`WebhooksVerify` that `verify_webhook`, the operator `Verifies`, takes a signature of the
secret on disk and the last five minutes and no other. A header is a sequence of parts;
of two parts of one name the last counts.

### KeyDerivation and DepositAddresses

`KeyDerivation` holds the pure functions of the three wallets: `from_seed`, the derivation
path, Penumbra's index with its wrapping sum, `encode_ss58` and `decode_ss58` with their
one- and two-byte prefixes, and Zcash's transparent addresses. A hash is perfect (a key
is a record of all that went into it; the checksum of some data is that data), but for
the 32 bits that `compute_address_index` keeps of one, which are a constant function
`Hash`. Names and paths are sequences of characters, so that a user may be called
`u//1`: what keeps the users' paths apart is a matter of characters.

`DepositAddresses` follows an address: `FromVault` (from any of the seeds a vault may
hold, also while the process runs), `Derive`, the two halves of a rotation, `Watch`,
`Unwatch`, `Deposit`, `Restart`. The wallets, and the listeners' maps, are one variable
each and `kind` says which they are, for no two kinds share anything. `Seen` is the
address the listener looks up: Asset Hub's listener encodes the account with Polkadot's
prefix, whatever prefix the address was handed out in. A rotation is a request that has
read the user's index (`RotateBegins`) and returns later (`RotateReturns`), because
`rotate_polkadot_address` takes the index from its caller; at the last index it wraps in a
release build and panics in a debug build (`RotateFails`).

`CreditedToItsUser` has one exception, two users with one Penumbra index, and
`OnlyOtherPrefixesMissed` another, an address of another prefix than Polkadot's, which
is watched in vain. `RotationsAreNew` excuses the users whose index wrapped or who had
two rotations at once.

### Transfers and AssetHubChain

`AssetHubChain` is what the two clients need of the chain, and no part of the
repository: `transfer_keep_alive` over balances, grants with a delay, announcements
with their height, and when each call is accepted. A proxied payment that cannot be
made leaves its extrinsic successful.

In `Transfers` a call is a record of its arguments and a place: refused before anything
is sent (`Begin` with `Refused`), `submit`, `finalize`, `success`, then `ok` or `error`;
the last three are the awaits of each function of `sweep.rs` and `proxy.rs`. The
operators `sweep`, `add_proxy`, `announce` and so on are the extrinsics that these
functions build, and `sweep_native` is a sweep whose minimum is 0. An extrinsic in the
pool may be executed, fail or be dropped, in any order with the others; `GivesUp` is a
request that fails or a caller that drops the future at any of the three awaits, and a
submission that fails may have arrived.

An error after submission therefore says nothing, and `AnswersAreTrue` states what the
other answers say. `proxy_transfer` asks for the success of the outer extrinsic only
(`proxy.rs:378`), so its hash promises that the call was executed and not that the
payment was made. `ReserveIsKept` and `DelaysAreKept` relate a call to others that
overlap it. `SweptFromSource` is what `sweep.rs` says of the source, and is violated:
the signer is made from half of the expanded secret taken as a seed, so its account
is not the derived address (`KeysAssumption`). `ExecutedAsAnnounced` is about retries: a
caller whose `proxy_announced_transfer` ended in an error cannot know whether it was
executed, calls again, and yet the payment is made at most once for each `announce`,
because an execution uses up the announcement. The calls in `Retries` begin only as such
a repetition (`Repeats`); with none in it the system is unrestricted, and the theorems
hold for any.

Left out: fees, nonces, proxy types, deposits for proxies, the encoding of calls and
call hashes, and `pure_address`, which is an event's field as text and not an address
that the other functions would decode (`proxy.rs:514`).

## The runs

| run | shows | bounds |
|---|---|---|
| `zcash` | the invariants, the ledger, and that what stays on the chain settles, under every interleaving | 2 blocks, 2 transactions (one pays both addresses), 2 users, 2 `watch`, 1 failed request, 2 stops |
| `zcash_confirmations` | *violated*: `min_confirmations` is not used | as `zcash` |
| `vault` | cache, files, passwords and listing agree | 2 ids, 2 secrets, 2 passwords, 2 faults, 3 opens, 3 changes of the device |
| `vault_fallback` | *violated*: a TPM hides the files that were encrypted | 1 password |
| `vault_alias` | *violated*: `Custom("wallet")` is `WalletSeed`'s file | 2 ids of one file |
| `assethub` | credits follow the registrations, nothing due is lost, only heads repeat; calls return and due transfers settle unless a callback waits for itself | 2 addresses, 2 users, 2 blocks of up to 2 events, 2 calls, 1 fault, 2 stops, calling callbacks |
| `assethub_reentrant` | *violated*: a callback that calls `watch` never returns | 1 block, 2 calls |
| `penumbra` | a note is offered once per process, credited to its owner, lost in its callback only; the ledger is kept; notes are offered and calls return | 3 notes (2 of one index, 1 of another asset), 2 indices, 2 users, 2 calls, 1 fault, 1 stop |
| `processor` | files, memory, wallets and Stripe processors of one directory agree, and webhooks verify | 2 processes, 3 calls of `store` or `delete`, 2 failing writes or deaths, 3 ids, one secret of a wrong length |
| `addresses` | deposits reach their user, rotations are new, addresses decode | 3 users, `u`, `u1` and `u//1`, 3 indices, 2 addresses handed out, 2 requests, prefixes of one and two bytes, seeds of 16, 32 and 64 bytes |
| `transfers` | answers are true; delays, reserves and removals are kept; what is announced once is paid at most once | 3 overlapping calls out of 13 requests and a retry, 2 keys, 1 block, 1 fault, 1 deposit |
| `transfers_source` | *violated*: a sweep does not pay from the derived address | as `transfers`, without the retry |

The bounds are the smallest at which each case meets another. Two blocks are a
reorganisation that replaces one by two, or a poll over two heights that fails at
the second and starts again. Two transactions
and two addresses tell apart what is marked, credited and skipped, and one of them
twice offers two outputs. Two stops are a cancel and a restart, in either order.
Two secrets and two passwords tell old from new, three opens let a vault without a
TPM follow and precede one with. Every bound on a number is a constant with `Max` in its name,
and a guard of the actions it bounds. Users, secrets and passwords are symmetric
where a run declares it; no run with a liveness property does. Three calls are a
grant, an announcement and the payment they lead to, or a sweep between two others,
and one block tells a delay of 1 from none. A fourth call
is made only to repeat an announced payment whose call has ended in an error (`Retries`):
a grant, an announcement, a payment that is executed while its request fails, and the
retry. On a chain that kept an announcement after its execution the run finds, through
that retry, the second payment that `ExecutedAsAnnounced` excludes. The 13
requests hold each function at least once, amounts at, above and below the minimum and the reserve, and an address
that does not decode. In `processor` three changes are two stores that overlap and a
third that repairs them, or a delete below an open file. In `addresses` the
numerals of the three indices are `1`, `11` and `111`, so that without the separator
`u` and `u1` share paths, and `u` and `u//1` share Penumbra's indices; two addresses are
all that a collision, or a rotation that repeats, needs.

Deadlock is checked in `addresses`, where a restart is always possible; the other
systems may come to rest when the bounds are used up, or when nobody calls.

## Fairness

`zcash` assumes weak fairness of `RunStart` and of `Poll`: tokio polls the
future, and each request is answered or fails. The client is made without a
timeout (`zcash.rs:56`), so the second is an assumption about the node, and the run
says nothing of a node that keeps a request open for ever. `assethub` assumes
the same of a run's steps and the service of the lock, and that a callback that is
not itself waiting in `watch` returns; one that is waits for ever, and
`OnlyOwnCallsHang` says that nothing else does. `penumbra` assumes the service of the
lock, and that a poll and its stream go on. `transfers` has no fairness: whether an
extrinsic is ever finalized is the chain's. `processor` and `addresses` need none.
Nothing is assumed of the environment: no block need be mined and no one need
start a run.

## The proofs

All theorems hold for every value of the constants.

`ZcashListenerProofs` proves `TypeOK`, `DuplicateOnlyAfterInterruption`,
`NothingElsePassedOver`, `OneOwnerPerAddress` and `KeepsLedger`.
- *At most once.* `OnceInv` adds to the bound on `offered` what the transaction in
  progress knows: outputs below `pos` have been offered since the transaction was
  last forgotten, the others not yet, and a transaction not in `processed` has an
  offer left. The last is what `processed` is for.
- *Nothing passed over.* The property speaks of blocks below `last_height`, which
  moves only at the end of a poll, so the invariant (`SettledInv`) also follows the
  scan: every block up to `Reached`, every transaction of the current block before
  `next` and every output before `pos` is settled, and the current block, where a
  reorganisation has taken it off the chain, is replaced at heights that are
  excused.
- *One owner.* `watched` only grows at its end, so the first entry of an address stays
  the first, and all that was credited to the address carries its user.
- *The ledger.* Each action is a step of `DepositLedger` or a stutter, under the types
  and places of the first theorem.

`VaultProofs` proves `TypeOK` and, for ids that share no file (`OneFileEach`),
`LoadReturnsStored`, `StoredLoads` and `PasswordProtects`, from one invariant:
`CacheInv` (a cached secret may be loaded and its file is not another password's),
`FileInv` (the secret in a file may be loaded, except just after `Write`), `CallInv`
(what the store in progress has written) and `SureInv` (a settled id has one secret).
`OneFileEach` is needed: without it `vault_alias` breaks the first. `ListIsExact` takes more
(`PlainNames`): a custom secret named like a fixed one is not listed at all, and of one
named like a file `list_secrets` cuts every ".sealed". The ids of `vault` satisfy both.
With them a custom id comes back from its file's name (`CustomOfFile`), and what is
cached has a file, so that asking the cache first makes no difference.

`RegistrationsProofs` has one lemma for each operation of the lock: what it does to the
queue, to the registrations, and to the listener's own place, which is at most one
(`LockTypeOK`). Both listeners' proofs cite these and never open the queue.

`AssetHubListenerProofs` proves `TypeOK`, `CreditIsCurrent`, `DueIsCredited`,
`RepeatedAtHeads` and, stated there, the action property `OwnCallHangs`. Its `PlaceInv` says that
the guard is held exactly in the callback and at which event `run` then is. `CreditIsCurrent` follows from the guard, which lets
no writer in. `DueInv` adds to `DueIsCredited` that what is due is in a block that is
there, still registered to its user, and not the event just offered: without the last
an event could be passed once its callback is done. `CreditInv` says that what was
credited lies behind `run` or in a block at which a subscription began, which is why
only such a block is credited again. For `OwnCallHangs` the guard is held while the
callback waits, so nothing in the queue is served and it only grows at its end
(`HangStep`): that the listener hangs is proved for every instance, where
`assethub_reentrant` shows one; that it hangs for no other reason (`OnlyOwnCallsHang`) is
liveness and model-checked.

`PenumbraListenerProofs` proves `TypeOK`, `CreditIsCurrent`, `LostInCallbackOnly`,
`KeepsLedger`, and from it `OfferedOncePerProcess`: a ledger offers a deposit at most
once more than what was known of it was lost (`LedgerOffersOnce`, by an invariant about
what is not remembered: it has an offer left), and the listener is a ledger. The run checks
`KeepsLedger` and needs no run of what follows from it. `PlaceInv` says that no note is in a callback unless `run` is.

`PaymentProcessorProofs` proves, for any number of processes, `TypeOK`, `LastStoreIsKept`,
`CacheIsFile`, `MadeFromVault`, `SameAddresses` and `WebhooksVerify`. `LastStoreIsKept`
needs to know what leads to it: a store that is `alone` has the file truncated and no other writer
(`AloneWrites`), and nobody writes a file that something is promised of (`KeptRests`).
`CacheIsFile` needs that a vault in a store counts its file as touched (`CallsTouch`).
`MadeFromVault` is split by secret, and the key of a Stripe processor in the making is
the cached one (`MakingIsCached`), which is where other processes act in between.
`SameAddresses` follows from the two: both wallets are what the file holds. So does
`WebhooksVerify`, whose secret is what the file holds (`WebhookIsFile`). That property takes
headers of one time and one signature; `OnlySignedVerifies` takes any header, its parts
repeated and in any order: one that passes has a time within five
minutes, and a signature of that same time by the secret on disk. It rests on a sequence
having a last part of a name (`LastPlace`).

`DepositAddressesProofs` begins with sequences: `PathsDiffer` says that a path gives back
its user and index, whatever the names hold, since of two ways to read it the longer
numeral would contain a slash. From it, two addresses with one account are of one
user and index (`AccountsDiffer`), whatever seed they come from. The invariant adds the
form of what was handed out, watched, credited and missed, and for `RotationsAreNew`
that a user who is not excused has been given no index beyond the stored one. The
proofs take names, indices, seeds and prefixes as they come.

The same module proves the address formats as such, for every key and every prefix that
fits its 14 bits (`SomePrefixes`): `decode_ss58` takes back what `encode_ss58` wrote
(`Ss58RoundTrip`), refuses it with any other first byte (`OtherNetworkRefused`), which
where the length changes is a matter of length and else one of the checksum, and no two
prefixes or keys share an address (`Ss58OneToOne`): the 14 bits of a prefix come back from
its two bytes (`PrefixBits`), and the first byte says which form it is (`Ss58Form`).
`TransparentRoundTrip` is Zcash's. `AddressesDecode` follows for what is handed out.

`TransfersProofs` proves `TypeOK`, `AnswersAreTrue`, `DelaysAreKept`, `RemovedIsGone`,
`ReserveIsKept` and `ExecutedAsAnnounced`, for any requests and any number of calls that
overlap. Every grant was made by a call that was executed (`MadeInv`), so a delegate's payment, which the chain
accepts under a grant, comes after that call and has waited its delay. `RemovedInv` says
that a grant that was removed and is there was made again later, and for this a grant for
the signer's own account must be `add_proxy`'s: `KeysAssumption` has the account that
`create_pure_proxy` creates keyless. `FreshInv` says that a fresh sweep finds what its
caller has read, and its payment then leaves the reserve. The calls need not be finitely
many: `BoundInv` says that of those executed one is the last, which the order of execution
needs. `ExecutedAsAnnounced` compares two numbers of calls, and `CountInv` adds a third: the
announcements that stand and the executed calls together are at most the executed
`announce` calls. An `announce` raises both sides; a `proxy_announced_transfer` takes at least one
from the announcements and counts as one execution.

Assumed are the named assumptions on the constants and, where a theorem says so,
`OneFileEach` or `PlainNames`. Only model-checked are the liveness properties, which the
proof system does not reach: `EveryPaymentSettles`, `DueSettles`, `OnlyOwnCallsHang`,
`NotesAreOffered` and `CallsReturn`. Every invariant and every action property that a
passing run checks is also proved.

## The plan

Done: every module of the table above, and its proofs.

1. A contract for the registrations of the two listeners that share the lock: what a
   caller of `watch` may rely on when it has returned, as an abstract module both implement.
2. The conversions: amounts of deposits, asset ids cut to 32 bits, the hours of a
   delay.

## Not modelled

The Polkadot listeners' `run` and `poll` decode nothing yet (a TODO in the code) and
report no deposit, so there is nothing to state of them; only their `watch` and `unwatch`
are modelled. That `poll` reads the finalized head alone, and none of the blocks since
its last call, will matter once it decodes. Ciphers, curves, hashes and the TPM's
commands are arithmetic on large values and are abstracted to what their results tell
apart; base58 is a bijection and left out. Amounts of deposits are floating point.
`get_balance` and the cached client of the Penumbra listener change nothing that another
operation sees. The Stripe HTTP calls, the examples and the chain specifications are
I/O and data.

Some inputs are left out too. The Penumbra listener's callback is optional; a run without
one (`penumbra.rs:241`) marks every note it sees and offers none, and the model always
has one. A note without a commitment, which would share the empty string with the next
such note (`penumbra.rs:155`), and an asset id beyond 32 bits (`assethub.rs:205`) are not
what the view service and the pallet send. `verify_webhook` subtracts the header's time
from the clock as `i64` (`stripe.rs:84`); the difference overflows for a time close to the
least `i64` only, and the model's times are near now. Its payload is left out with the
message authentication code. One hazard that `PROJECT.json` lists has no property:
`pure_address`, the text of a field whose form is the library's.

A property names the causes for which it makes an exception (`excused`, `may`, `touched`,
a colliding index, a fault). Some of these are the worst outcome of a hazard: the
transaction that a failed request skips, the file that a crash tears. There the property
shows that nothing else has that outcome; the outcome itself is the code's, and is
described with the module.
