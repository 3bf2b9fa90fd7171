-------------------------- MODULE DepositAddresses --------------------------
(***************************************************************************)
(* The life of a deposit address: a wallet made from a seed derives it for *)
(* a user, rotate_polkadot_address (src/src/lib.rs) replaces it by one of  *)
(* the user's next index, a listener watches it, and the deposits to it    *)
(* are credited to the user it is watched for.  The application, not part  *)
(* of the repository, stores each user's index over restarts, and serves   *)
(* several requests at once.                                               *)
(***************************************************************************)
EXTENDS KeyDerivation, FiniteSets

CONSTANTS
  Requests,  \* the application's concurrent requests
  Seeds,     \* the wallet seeds the vault may hold
  Prefixes,  \* SS58 prefixes
  Stored,    \* the indices the application may have stored before it starts
  MaxHanded  \* bound: addresses handed out

ASSUME PrefixesAssumption == Prefixes \subseteq SomePrefixes
ASSUME StoredAssumption == Stored \subseteq [Users -> Indices]
ASSUME MaxHandedAssumption == MaxHanded \in Nat

Wallets == {"polkadot", "zcash", "penumbra"}

VARIABLES
  kind,      \* which of the wallets and listeners: they share nothing
  wallet,    \* what the wallet keeps of the seed it was made from, None before
  watched,   \* the listener's map from addresses to <<user, index>>
  current,   \* each user's index, as the application has it stored
  request,   \* the <<user, index>> a request to rotate has read, or None
  \* history, read by no action:
  handed,    \* the addresses handed out
  credited,  \* the deposits credited: their account and <<user, index>>
  missed,    \* the addresses whose deposits were not, though watched
  repeated,  \* the users to whom a rotation has given an address again
  excused    \* the users whose index has wrapped, or been stored out of order

history == <<handed, credited, missed, repeated, excused>>
vars    == <<kind, wallet, watched, current, request, history>>

\* The application comes with the indices of an earlier time.
Init ==
  /\ kind \in Wallets /\ wallet = None /\ watched = {}
  /\ current \in Stored
  /\ request = [r \in Requests |-> None]
  /\ handed = {} /\ credited = {} /\ missed = {} /\ repeated = {} /\ excused = {}

-----------------------------------------------------------------------------

\* from_vault: a wallet that cannot be made leaves the one that is there.
FromVault == \E seed \in Seeds :
  /\ Secret(kind, seed) # None
  /\ wallet' = Secret(kind, seed)
  /\ UNCHANGED <<kind, watched, current, request, history>>

\* Whom a deposit is made to: a key, or one of Penumbra's address indices.
Account(user, index) ==
  IF kind = "penumbra" THEN AddressIndex(user, index) ELSE Key(kind, wallet, user, index)

\* derive_address, in the form of a network: a Substrate chain's prefix, or Zcash's main
\* (0) or test network.
Address(user, index, prefix) ==
  CASE kind = "polkadot" -> EncodeSs58(Account(user, index), prefix)
    [] kind = "zcash"    -> EncodeTransparent(Account(user, index), prefix = 0)
    [] kind = "penumbra" -> Account(user, index)

Hand(user, index, prefix) ==
  /\ wallet # None
  /\ handed' = handed \cup
       {[user |-> user, index |-> index, prefix |-> prefix,
         account |-> Account(user, index), address |-> Address(user, index, prefix)]}
  /\ Cardinality(handed') <= MaxHanded

\* derive_address and polkadot_address.  There is a rotation for Polkadot only: the other
\* wallets' indices are up to the application.
Derive == \E user \in Users, index \in Indices, prefix \in Prefixes :
  /\ kind = "polkadot" => index = current[user]
  /\ Hand(user, index, prefix)
  /\ UNCHANGED <<kind, wallet, watched, current, request, credited, missed, repeated, excused>>

\* A request to rotate begins with the index stored.
RotateBegins(r) == \E user \in Users :
  /\ kind = "polkadot" /\ request[r] = None
  /\ request' = [request EXCEPT ![r] = <<user, current[user]>>]
  /\ UNCHANGED <<kind, wallet, watched, current, history>>

Given(user, index) == \E h \in handed : h.user = user /\ h.index = index

\* Mutant: the address is of the index that was stored.
RotatesInPlace(user, index, new) ==
  /\ Hand(user, index, 0)
  /\ current' = [current EXCEPT ![user] = new]
  /\ repeated' = IF Given(user, index) THEN repeated \cup {user} ELSE repeated

\* Mutant: the index stored is one wider than the index derived from.
RotatesWide(user, index, new) ==
  /\ Hand(user, new, 0)
  /\ current' = [current EXCEPT ![user] = index + 1]
  /\ UNCHANGED repeated

Rotates(user, index, new) ==
  /\ Hand(user, new, 0)
  /\ current' = [current EXCEPT ![user] = new]
  /\ repeated' = IF Given(user, new) THEN repeated \cup {user} ELSE repeated

\* rotate_polkadot_address, and the new index stored.  At the last index a release build
\* begins again at 0.
RotateReturns(r) ==
  LET user == request[r][1]  index == request[r][2] IN
  /\ request[r] # None
  /\ request' = [request EXCEPT ![r] = None]
  /\ Rotates(user, index, IF index = MaxIndex THEN 0 ELSE index + 1)
  /\ excused' = IF index = MaxIndex \/ current[user] # index
                  THEN excused \cup {user} ELSE excused
  /\ UNCHANGED <<kind, wallet, watched, credited, missed>>

\* A debug build panics at the last index, and there may be no wallet.
RotateFails(r) ==
  /\ request[r] # None
  /\ request[r][2] = MaxIndex \/ wallet = None
  /\ request' = [request EXCEPT ![r] = None]
  /\ UNCHANGED <<kind, wallet, watched, current, history>>

-----------------------------------------------------------------------------
(* The listeners *)

\* An address watched again is for whom it is watched last, but on Zcash's list the entry
\* found first counts.
Watch == \E h \in handed :
  LET there == {e \in watched : e.address = h.address}
      entry == [address |-> h.address, owner |-> <<h.user, h.index>>]
  IN
  /\ watched' = IF kind = "zcash" /\ there # {} THEN watched
                ELSE (watched \ there) \cup {entry}
  /\ UNCHANGED <<kind, wallet, current, request, history>>

\* Zcash's list has no unwatch.
Unwatch == \E h \in handed :
  /\ kind # "zcash"
  /\ watched' = {e \in watched : e.address # h.address}
  /\ UNCHANGED <<kind, wallet, current, request, history>>

\* Mutant: the account is encoded with Kusama's prefix.
SeenElsewhere(h) == IF kind = "polkadot" THEN EncodeSs58(h.account, 2) ELSE h.address

\* How the listener sees the account of a deposit: Asset Hub's account encoded anew, with
\* Polkadot's prefix (parse_address_to_ss58).
Seen(h) == IF kind = "polkadot" THEN EncodeSs58(h.account, 0) ELSE h.address

\* A deposit to an address handed out: the listener credits who is watching it.
Deposit == \E h \in handed :
  LET found == {e \in watched : e.address = Seen(h)} IN
  /\ credited' = credited \cup {[account |-> h.account, owner |-> e.owner] : e \in found}
  /\ missed' = IF found = {} /\ \E e \in watched : e.address = h.address
                 THEN missed \cup {h} ELSE missed
  /\ UNCHANGED <<kind, wallet, watched, current, request, handed, repeated, excused>>

\* The process restarts: the wallet and the watch list start empty.
Restart ==
  /\ wallet' = None /\ watched' = {}
  /\ request' = [r \in Requests |-> None]
  /\ UNCHANGED <<kind, current, history>>

Next ==
  \/ FromVault \/ Derive \/ Watch \/ Unwatch \/ Deposit \/ Restart
  \/ \E r \in Requests : RotateBegins(r) \/ RotateReturns(r) \/ RotateFails(r)

Spec == Init /\ [][Next]_vars

-----------------------------------------------------------------------------
(* Properties *)

\* The wallet's and the listener's fields: an address is watched for whom it was handed to.
TypeOK ==
  /\ kind \in Wallets
  /\ wallet \in {Secret(kind, seed) : seed \in Seeds} \cup {None}
  /\ \A e \in watched : \E h \in handed :
       e = [address |-> h.address, owner |-> <<h.user, h.index>>]
  /\ current \in [Users -> Indices]
  /\ request \in [Requests -> (Users \X Indices) \cup {None}]
  /\ excused \subseteq Users /\ repeated \subseteq Users

\* A deposit is credited to the user its account was handed to, whatever the users are
\* called, over rotations, new seeds and restarts; only users with one Penumbra index can
\* have each other's deposits.
CreditedToItsUser ==
  \A c \in credited, h \in handed :
    c.account = h.account /\ c.owner # <<h.user, h.index>> =>
      kind = "penumbra" /\ \E g \in handed :
        c.owner = <<g.user, g.index>> /\ g.account = h.account

\* A deposit to a watched address is missed only where the address has another prefix
\* than Polkadot's: the listener compares Polkadot's form.
OnlyOtherPrefixesMissed == \A h \in missed : kind = "polkadot" /\ h.prefix # 0

\* A rotation gives a user an address it has not had before, whatever seeds and restarts
\* come between, until the index wraps or two rotations of the user overlap.
RotationsAreNew == repeated \subseteq excused

\* What an address says is the key it was derived as, on its own network only: with
\* another first byte it is refused.
AddressesDecode == \A h \in handed :
  /\ kind = "polkadot" =>
       /\ DecodeSs58(h.address) = h.account
       /\ \A byte \in {PrefixBytes(prefix)[1] : prefix \in Prefixes} \ {h.address[1]} :
            DecodeSs58([h.address EXCEPT ![1] = byte]) = None
  /\ kind = "zcash" => DecodeTransparent(h.address) = <<h.account, h.prefix = 0>>
=============================================================================
