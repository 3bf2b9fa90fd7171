---------------------------- MODULE KeyDerivation ----------------------------
(***************************************************************************)
(* How a user's deposit addresses come from the wallet's seed: the wallets *)
(* of src/src/wallet/, and the encodings of the addresses.                 *)
(*                                                                         *)
(* Every hash is perfect, its argument stands for it, but the 32 bits      *)
(* Penumbra keeps of one.  A 32-byte key is one element of an address, and *)
(* so is its checksum; a name is a sequence of characters, as a path is.   *)
(***************************************************************************)
EXTENDS Naturals, Sequences

CONSTANTS
  Chars, Slash, \* the characters of names and paths
  Users,        \* names
  MaxIndex,     \* the largest derivation index, 2^32 - 1 in the code
  Numeral,      \* an index as it is formatted
  Hash,         \* the first 32 bits of Penumbra's hash of a user and an index
  None          \* no wallet, no key

Indices == 0..MaxIndex

ASSUME MaxIndexAssumption == MaxIndex \in Nat
ASSUME UsersAssumption == Slash \in Chars /\ \A u \in Users : u \in Seq(Chars)
ASSUME NumeralAssumption ==
  /\ \A i \in Indices : Numeral[i] \in Seq(Chars \ {Slash})
  /\ \A i, j \in Indices : Numeral[i] = Numeral[j] => i = j
ASSUME HashAssumption == Hash \in [Users \X Indices -> Indices]

-----------------------------------------------------------------------------
(* from_seed: what a wallet keeps of a seed, its first 32 bytes and the rest *)

Seed(length, head, tail) == [length |-> length, head |-> head, tail |-> tail]

PolkadotSecret(seed) ==
  CASE seed.length = 32 -> <<seed.head>>
    [] seed.length = 64 -> <<seed.head, seed.tail>>
    [] OTHER            -> None

\* Zcash's and Penumbra's wallets leave the rest.
HeadSecret(seed) == IF seed.length < 32 THEN None ELSE <<seed.head>>

Secret(wallet, seed) ==
  IF wallet = "polkadot" THEN PolkadotSecret(seed) ELSE HeadSecret(seed)

-----------------------------------------------------------------------------
(* derive_keypair, derive_child_seed, compute_address_index *)

\* Mutant: nothing between the user and the index.
PathJoined(user, index) == user \o Numeral[index]

\* {user_id}//{index}, after what all paths of a wallet begin with.
Path(user, index) == user \o <<Slash, Slash>> \o Numeral[index]

Key(wallet, secret, user, index) ==
  [wallet |-> wallet, secret |-> secret, path |-> Path(user, index)]

AddressIndex(user, index) == (Hash[user, index] + index) % (MaxIndex + 1)

-----------------------------------------------------------------------------
(* encode_ss58 and decode_ss58 *)

\* Beyond them encode_ss58 panics.
SomePrefixes == 0..16383

PrefixBytes(prefix) ==
  IF prefix < 64 THEN <<prefix>>
  ELSE <<(prefix % 256) \div 4 + 64, prefix \div 256 + (prefix % 4) * 64>>

Checksum(data) == [of |-> data]
Checked(data)  == Append(data, Checksum(data))

EncodeSs58(key, prefix) == Checked(PrefixBytes(prefix) \o <<key>>)

\* Mutant: the one-byte prefixes end at 64.
PrefixLengthTo64(address) == IF address[1] <= 64 THEN 1 ELSE 2

PrefixLength(address) == IF address[1] < 64 THEN 1 ELSE 2

\* None for an error: not of the length the prefix calls for, or another checksum.
DecodeSs58(address) ==
  LET n == PrefixLength(address) IN
  IF Len(address) = n + 2 /\ address = Checked(SubSeq(address, 1, n + 1))
    THEN address[n + 1] ELSE None

-----------------------------------------------------------------------------
(* encode_transparent_address and decode_transparent_address *)

Version(mainnet) == IF mainnet THEN <<28, 184>> ELSE <<29, 37>>

EncodeTransparent(key, mainnet) == Checked(Append(Version(mainnet), key))

DecodeTransparent(address) ==
  IF /\ Len(address) = 4 /\ address = Checked(SubSeq(address, 1, 3))
     /\ \E mainnet \in BOOLEAN : SubSeq(address, 1, 2) = Version(mainnet)
    THEN <<address[3], SubSeq(address, 1, 2) = Version(TRUE)>> ELSE None
=============================================================================
