----------------------- MODULE DepositAddressesProofs -----------------------
(***************************************************************************)
(* Proofs about KeyDerivation and DepositAddresses, for any users' names,  *)
(* indices, seeds, prefixes and requests: paths, address formats, and      *)
(* whose a deposit is.                                                     *)
(***************************************************************************)
EXTENDS DepositAddresses, SequenceTheorems, TLAPS

\* s is the concatenation of u, m and d, element by element.
Joins(s, u, m, d) ==
  /\ Len(s) = Len(u) + Len(m) + Len(d)
  /\ \A k \in 1..Len(u) : s[k] = u[k]
  /\ \A k \in 1..Len(m) : s[Len(u) + k] = m[k]
  /\ \A k \in 1..Len(d) : s[Len(u) + Len(m) + k] = d[k]

LEMMA ConcatJoins ==
  ASSUME NEW S, NEW u \in Seq(S), NEW m \in Seq(S), NEW d \in Seq(S)
  PROVE  Joins(u \o m \o d, u, m, d)
<1>1. Len(u \o m \o d) = Len(u) + Len(m) + Len(d)
  OBVIOUS
<1>2. \A k \in 1..Len(u) : (u \o m \o d)[k] = u[k]
  OBVIOUS
<1>3. \A k \in 1..Len(m) : (u \o m \o d)[Len(u) + k] = m[k]
  OBVIOUS
<1>4. \A k \in 1..Len(d) : (u \o m \o d)[Len(u) + Len(m) + k] = d[k]
  OBVIOUS
<1> QED BY <1>1, <1>2, <1>3, <1>4 DEF Joins

Separator == <<Slash, Slash>>

LEMMA SeparatorType == Separator \in Seq(Chars) /\ Len(Separator) = 2 /\ Separator[2] = Slash
BY UsersAssumption DEF Separator

\* Numerals are of characters, none of them a slash.
LEMMA NumeralType ==
  ASSUME NEW i \in Indices
  PROVE  /\ Numeral[i] \in Seq(Chars) /\ Len(Numeral[i]) \in Nat
         /\ \A k \in 1..Len(Numeral[i]) : Numeral[i][k] # Slash
<1>1. Numeral[i] \in Seq(Chars \ {Slash})
  BY NumeralAssumption
<1>2. \A k \in 1..Len(Numeral[i]) : Numeral[i][k] # Slash
  BY <1>1, ElementOfSeq
<1> QED BY <1>1, <1>2, SeqMonotonic, LenProperties

LEMMA PathJoins ==
  ASSUME NEW u \in Seq(Chars), NEW i \in Indices
  PROVE  Joins(Path(u, i), u, Separator, Numeral[i])
<1>1. Joins(u \o Separator \o Numeral[i], u, Separator, Numeral[i])
  BY NumeralType, SeparatorType, ConcatJoins
<1>2. Path(u, i) = u \o Separator \o Numeral[i]
  BY DEF Path, Separator
<1> QED BY <1>1, <1>2

\* The numerals of a path are of one length: the last slash before the shorter one would
\* be inside the longer one.
LEMMA NumeralsAsLong ==
  ASSUME NEW s, NEW u \in Seq(Chars), NEW v \in Seq(Chars), NEW d \in Seq(Chars), NEW e \in Seq(Chars),
         \A k \in 1..Len(e) : e[k] # Slash,
         Joins(s, u, Separator, d), Joins(s, v, Separator, e)
  PROVE  ~(Len(d) < Len(e))
<1> SUFFICES ASSUME Len(d) < Len(e) PROVE FALSE
  OBVIOUS
<1> DEFINE k == Len(e) - Len(d)
<1>1. Len(u) \in Nat /\ Len(v) \in Nat /\ Len(d) \in Nat /\ Len(e) \in Nat
  BY LenProperties
<1>2. Len(s) = Len(u) + 2 + Len(d) /\ Len(s) = Len(v) + 2 + Len(e)
  BY SeparatorType DEF Joins
<1>3. k \in 1..Len(e) /\ Len(u) + 2 = Len(v) + 2 + k
  <2>1. ASSUME NEW a \in Nat, NEW b \in Nat, NEW f \in Nat, NEW g \in Nat,
               a + 2 + f = b + 2 + g, f < g
        PROVE  g - f \in 1..g /\ a + 2 = b + 2 + (g - f)
    BY <2>1
  <2>2. Len(u) + 2 + Len(d) = Len(v) + 2 + Len(e)
    BY <1>2
  <2> QED BY <1>1, <2>1, <2>2
<1>4. s[Len(v) + 2 + k] = e[k]
  BY <1>3, SeparatorType DEF Joins
<1>5. s[Len(u) + 2] = Slash
  BY SeparatorType DEF Joins
<1> QED BY <1>3, <1>4, <1>5

LEMMA JoinsOnce ==
  ASSUME NEW s, NEW u \in Seq(Chars), NEW v \in Seq(Chars), NEW d \in Seq(Chars), NEW e \in Seq(Chars),
         \A k \in 1..Len(d) : d[k] # Slash, \A k \in 1..Len(e) : e[k] # Slash,
         Joins(s, u, Separator, d), Joins(s, v, Separator, e)
  PROVE  u = v /\ d = e
<1>1. Len(u) \in Nat /\ Len(v) \in Nat /\ Len(d) \in Nat /\ Len(e) \in Nat
  BY LenProperties
<1>2. ~(Len(d) < Len(e)) /\ ~(Len(e) < Len(d))
  BY NumeralsAsLong
<1>3. Len(s) = Len(u) + 2 + Len(d) /\ Len(s) = Len(v) + 2 + Len(e)
  BY SeparatorType DEF Joins
<1>4. Len(d) = Len(e) /\ Len(u) = Len(v)
  BY <1>1, <1>2, <1>3
<1>5. \A k \in 1..Len(u) : u[k] = v[k]
  BY <1>4 DEF Joins
<1>6. \A k \in 1..Len(d) : d[k] = e[k]
  BY <1>4 DEF Joins
<1> QED BY <1>4, <1>5, <1>6, SeqEqual

\* Two users, or two indices, have two paths, whatever the users are called: a name may
\* hold separators and digits (derive_keypair, derive_child_seed).
THEOREM PathsDiffer ==
  ASSUME NEW u \in Seq(Chars), NEW v \in Seq(Chars), NEW i \in Indices, NEW j \in Indices,
         Path(u, i) = Path(v, j)
  PROVE  u = v /\ i = j
<1>1. Joins(Path(u, i), u, Separator, Numeral[i])
  BY PathJoins
<1>2. Joins(Path(v, j), v, Separator, Numeral[j])
  BY PathJoins
<1>3. Joins(Path(u, i), v, Separator, Numeral[j])
  BY <1>2
<1>4. u = v /\ Numeral[i] = Numeral[j]
  BY <1>1, <1>3, NumeralType, JoinsOnce
<1> QED BY <1>4, NumeralAssumption

-----------------------------------------------------------------------------

\* The key of an SS58 address is its last element but one.
KeyAt(address, key, n) == Len(address) = n + 2 /\ address[n + 1] = key

PrefixLen(prefix) == IF prefix < 64 THEN 1 ELSE 2

LEMMA Ss58Key ==
  ASSUME NEW key, NEW prefix \in SomePrefixes
  PROVE  KeyAt(EncodeSs58(key, prefix), key, PrefixLen(prefix))
<1>1. CASE prefix < 64
  BY <1>1 DEF EncodeSs58, Checked, PrefixBytes, KeyAt, PrefixLen, SomePrefixes
<1>2. CASE ~(prefix < 64)
  BY <1>2 DEF EncodeSs58, Checked, PrefixBytes, KeyAt, PrefixLen, SomePrefixes
<1> QED BY <1>1, <1>2

LEMMA ZeroPrefix == 0 \in SomePrefixes
BY DEF SomePrefixes

LEMMA OneKey ==
  ASSUME NEW address, NEW k, NEW l, NEW m \in Nat, NEW n \in Nat,
         KeyAt(address, k, m), KeyAt(address, l, n)
  PROVE  k = l
<1>1. m = n
  BY DEF KeyAt
<1> QED BY <1>1 DEF KeyAt

\* An address is of one key.
LEMMA Ss58Injective ==
  ASSUME NEW k, NEW l, NEW p \in SomePrefixes, NEW q \in SomePrefixes, EncodeSs58(k, p) = EncodeSs58(l, q)
  PROVE  k = l
<1>1. KeyAt(EncodeSs58(k, p), k, PrefixLen(p))
  BY Ss58Key
<1>2. KeyAt(EncodeSs58(l, q), l, PrefixLen(q))
  BY Ss58Key
<1>3. PrefixLen(p) \in Nat /\ PrefixLen(q) \in Nat
  BY DEF PrefixLen
<1>4. KeyAt(EncodeSs58(k, p), l, PrefixLen(q))
  BY <1>2
<1> QED BY <1>1, <1>3, <1>4, OneKey

\* And so is one of Zcash's.
LEMMA TransparentInjective ==
  ASSUME NEW k, NEW l, NEW p \in BOOLEAN, NEW q \in BOOLEAN,
         EncodeTransparent(k, p) = EncodeTransparent(l, q)
  PROVE  k = l
<1>1. \A key : \A b \in BOOLEAN : KeyAt(EncodeTransparent(key, b), key, 2)
  BY DEF EncodeTransparent, Checked, Version, KeyAt
<1>2. KeyAt(EncodeTransparent(k, p), k, 2)
  BY <1>1
<1>3. KeyAt(EncodeTransparent(l, q), l, 2)
  BY <1>1
<1>4. KeyAt(EncodeTransparent(k, p), l, 2)
  BY <1>3
<1> QED BY <1>2, <1>4, OneKey

-----------------------------------------------------------------------------
(* What an address says *)

\* The data under a checksum.
LEMMA CheckedData ==
  ASSUME NEW S, NEW data \in Seq(S), NEW n \in Nat, Len(data) = n
  PROVE  /\ Checked(data) \in Seq(S \cup {Checksum(data)}) /\ Len(Checked(data)) = n + 1
         /\ \A i \in 1..n : Checked(data)[i] = data[i]
         /\ Checked(data)[n + 1] = Checksum(data)
         /\ SubSeq(Checked(data), 1, n) = data
<1> DEFINE T == S \cup {Checksum(data)}
<1>1. data \in Seq(T) /\ Checksum(data) \in T
  BY SeqMonotonic
<1> HIDE DEF T
<1>2. /\ Checked(data) \in Seq(T) /\ Len(Checked(data)) = n + 1
      /\ \A i \in 1..n : Checked(data)[i] = data[i]
      /\ Checked(data)[n + 1] = Checksum(data)
  BY <1>1, AppendProperties DEF Checked
<1>3. /\ SubSeq(Checked(data), 1, n) \in Seq(T) /\ Len(SubSeq(Checked(data), 1, n)) = n
      /\ \A i \in 1..n : SubSeq(Checked(data), 1, n)[i] = data[i]
  <2>1. \A i \in 1..n : Checked(data)[i] \in T
    BY <1>1, <1>2, ElementOfSeq
  <2>2. /\ SubSeq(Checked(data), 1, n) \in Seq(T)
        /\ Len(SubSeq(Checked(data), 1, n)) = IF 1 <= n THEN n - 1 + 1 ELSE 0
        /\ \A i \in 1..n - 1 + 1 : SubSeq(Checked(data), 1, n)[i] = Checked(data)[1 + i - 1]
    BY <2>1, SubSeqProperties
  <2> QED BY <1>2, <2>2
<1>4. SubSeq(Checked(data), 1, n) = data
  BY <1>1, <1>3, SeqEqual
<1> QED BY <1>2, <1>4 DEF T

Ss58Data(key, prefix) == PrefixBytes(prefix) \o <<key>>

\* The first byte of a prefix tells whether there is a second.
LEMMA Ss58DataForm ==
  ASSUME NEW key, NEW prefix \in SomePrefixes
  PROVE  LET data == Ss58Data(key, prefix)  n == PrefixLen(prefix) IN
         /\ data \in Seq(Nat \cup {key}) /\ n \in {1, 2} /\ Len(data) = n + 1
         /\ data[1] \in Nat /\ data[1] = PrefixBytes(prefix)[1]
         /\ n = IF data[1] < 64 THEN 1 ELSE 2
         /\ data[n + 1] = key
<1>1. CASE prefix < 64
  <2>1. PrefixBytes(prefix) = <<prefix>> /\ prefix \in Nat
    BY <1>1 DEF PrefixBytes, SomePrefixes
  <2> QED BY <1>1, <2>1 DEF Ss58Data, PrefixLen
<1>2. CASE ~(prefix < 64)
  <2> DEFINE a == (prefix % 256) \div 4 + 64
             b == prefix \div 256 + (prefix % 4) * 64
  <2>1. a \in Nat /\ b \in Nat /\ ~(a < 64)
    <3>1. prefix \in Nat
      BY DEF SomePrefixes
    <3>2. prefix % 256 \in Nat /\ prefix \div 256 \in Nat /\ prefix % 4 \in Nat
      BY <3>1
    <3>3. (prefix % 256) \div 4 \in Nat
      BY <3>2
    <3> QED BY <3>2, <3>3
  <2>2. PrefixBytes(prefix) = <<a, b>>
    BY <1>2 DEF PrefixBytes
  <2> HIDE DEF a, b
  <2> QED BY <1>2, <2>1, <2>2 DEF Ss58Data, PrefixLen
<1> QED BY <1>1, <1>2

\* An address: its length, its bytes and its checksum.
LEMMA Ss58Form ==
  ASSUME NEW key, NEW prefix \in SomePrefixes
  PROVE  LET address == EncodeSs58(key, prefix)
             data == Ss58Data(key, prefix)
             n == PrefixLen(prefix)
         IN
         /\ n \in {1, 2} /\ Len(address) = n + 2
         /\ address \in Seq(Nat \cup {key, Checksum(data)})
         /\ address[1] \in Nat /\ address[1] = PrefixBytes(prefix)[1] /\ address[1] = data[1]
         /\ n = PrefixLength(address)
         /\ address[n + 1] = key /\ address[n + 2] = Checksum(data)
         /\ SubSeq(address, 1, n + 1) = data /\ address = Checked(data)
<1> DEFINE data == Ss58Data(key, prefix)
           n == PrefixLen(prefix)
           address == EncodeSs58(key, prefix)
<1>1. /\ data \in Seq(Nat \cup {key}) /\ n \in {1, 2} /\ Len(data) = n + 1
      /\ data[1] \in Nat /\ data[1] = PrefixBytes(prefix)[1]
      /\ n = IF data[1] < 64 THEN 1 ELSE 2
      /\ data[n + 1] = key
  BY Ss58DataForm
<1>2. address = Checked(data)
  BY DEF EncodeSs58, Ss58Data
<1> HIDE DEF data, n, address
<1>3. /\ address \in Seq((Nat \cup {key}) \cup {Checksum(data)}) /\ Len(address) = (n + 1) + 1
      /\ \A i \in 1..(n + 1) : address[i] = data[i]
      /\ address[(n + 1) + 1] = Checksum(data)
      /\ SubSeq(address, 1, n + 1) = data
  <2>1. n + 1 \in Nat
    BY <1>1
  <2>2. /\ Checked(data) \in Seq((Nat \cup {key}) \cup {Checksum(data)})
        /\ Len(Checked(data)) = (n + 1) + 1
        /\ \A i \in 1..(n + 1) : Checked(data)[i] = data[i]
        /\ Checked(data)[(n + 1) + 1] = Checksum(data)
        /\ SubSeq(Checked(data), 1, n + 1) = data
    <3> DEFINE l == n + 1
               S == Nat \cup {key}
    <3>1. l \in Nat /\ Len(data) = l /\ data \in Seq(S)
      BY <1>1
    <3> HIDE DEF l, S
    <3>2. /\ Checked(data) \in Seq(S \cup {Checksum(data)}) /\ Len(Checked(data)) = l + 1
          /\ \A i \in 1..l : Checked(data)[i] = data[i]
          /\ Checked(data)[l + 1] = Checksum(data)
          /\ SubSeq(Checked(data), 1, l) = data
      BY <3>1, CheckedData
    <3> QED BY <3>2 DEF l, S
  <2> QED BY <1>2, <2>2
<1>4. (Nat \cup {key}) \cup {Checksum(data)} = Nat \cup {key, Checksum(data)} /\ n + 1 + 1 = n + 2
  BY <1>1
<1>5. address[1] = data[1] /\ address[n + 1] = data[n + 1]
  BY <1>1, <1>3
<1>6. n = PrefixLength(address)
  BY <1>1, <1>5 DEF PrefixLength
<1> QED BY <1>1, <1>2, <1>3, <1>4, <1>5, <1>6 DEF data, n, address

\* decode_ss58 gives the key that encode_ss58 was given, for every key and every prefix.
THEOREM Ss58RoundTrip ==
  ASSUME NEW key, NEW prefix \in SomePrefixes
  PROVE  DecodeSs58(EncodeSs58(key, prefix)) = key
<1> DEFINE data == Ss58Data(key, prefix)
           n == PrefixLen(prefix)
           address == EncodeSs58(key, prefix)
<1>1. /\ Len(address) = n + 2 /\ n = PrefixLength(address) /\ address[n + 1] = key
      /\ SubSeq(address, 1, n + 1) = data /\ address = Checked(data)
  BY Ss58Form
<1> HIDE DEF data, n, address
<1>2. DecodeSs58(address) = key
  BY <1>1 DEF DecodeSs58
<1> QED BY <1>2 DEF address

\* decode_ss58 refuses an address of encode_ss58's with another first byte, whichever: the
\* lengths differ, or the checksum is over another prefix.
THEOREM OtherNetworkRefused ==
  ASSUME NEW key, NEW prefix \in SomePrefixes, NEW byte \in Nat, byte # EncodeSs58(key, prefix)[1]
  PROVE  DecodeSs58([EncodeSs58(key, prefix) EXCEPT ![1] = byte]) = None
<1> DEFINE data == Ss58Data(key, prefix)
           n == PrefixLen(prefix)
           address == EncodeSs58(key, prefix)
           other == [address EXCEPT ![1] = byte]
           T == Nat \cup {key, Checksum(data)}
<1>1. /\ n \in {1, 2} /\ Len(address) = n + 2 /\ address \in Seq(T)
      /\ address[1] = data[1] /\ address[n + 2] = Checksum(data)
  BY Ss58Form
<1>2. byte # address[1]
  OBVIOUS
<1>3. byte \in T
  OBVIOUS
<1> HIDE DEF data, n, address, T
<1>4. /\ other \in Seq(T) /\ Len(other) = n + 2 /\ other[1] = byte /\ other[n + 2] = Checksum(data)
  <2>1. 1 \in 1..Len(address) /\ n + 2 \in 1..Len(address) /\ n + 2 # 1
    BY <1>1
  <2> QED BY <1>1, <1>3, <2>1, ExceptSeq
<1> HIDE DEF other
<1>5. ASSUME NEW m \in {1, 2}, Len(other) = m + 2, other = Checked(SubSeq(other, 1, m + 1))
      PROVE  FALSE
  <2> DEFINE found == SubSeq(other, 1, m + 1)
  <2>1. m = n
    BY <1>1, <1>4, <1>5
  <2>2. \A i \in 1..m + 1 : other[i] \in T
    BY <1>4, <1>5, ElementOfSeq
  <2>3. /\ found \in Seq(T)
        /\ Len(found) = IF 1 <= m + 1 THEN m + 1 - 1 + 1 ELSE 0
        /\ \A i \in 1..m + 1 - 1 + 1 : found[i] = other[1 + i - 1]
    BY <2>2, SubSeqProperties
  <2>4. found[1] = byte /\ Len(found) = m + 1
    BY <1>4, <2>3
  <2>5. other = Checked(found)
    BY <1>5
  <2> HIDE DEF found
  <2>6. Checked(found)[m + 1 + 1] = Checksum(found)
    <3>1. m + 1 \in Nat
      OBVIOUS
    <3>2. found \in Seq(T) /\ Len(found) = m + 1
      BY <2>3, <2>4
    <3> QED BY <3>1, <3>2, CheckedData
  <2>7. Checksum(found) = Checksum(data)
    <3>1. m + 1 + 1 = n + 2
      BY <1>1, <2>1
    <3> QED BY <1>4, <2>5, <2>6, <3>1
  <2>8. found = data
    BY <2>7 DEF Checksum
  <2> QED BY <1>1, <1>2, <2>4, <2>8
<1>6. PrefixLength(other) \in {1, 2}
  BY DEF PrefixLength
<1>7. DecodeSs58(other) = None
  BY <1>5, <1>6 DEF DecodeSs58
<1> QED BY <1>7 DEF other, address

LEMMA QuarterRest ==
  ASSUME NEW x \in Nat
  PROVE  x \div 4 \in Nat /\ x % 4 \in 0..3 /\ x = 4 * (x \div 4) + (x % 4)
<1>1. x % 4 \in Nat /\ x % 4 < 4
  OBVIOUS
<1>2. x \div 4 \in Nat
  OBVIOUS
<1>3. x = 4 * (x \div 4) + (x % 4)
  OBVIOUS
<1> QED BY <1>1, <1>2, <1>3

\* A prefix of 14 bits is its highest six, the six below them and its lowest two.
LEMMA PrefixParts ==
  ASSUME NEW x \in SomePrefixes
  PROVE  /\ x \div 256 \in 0..63 /\ x % 4 \in 0..3 /\ (x % 256) \div 4 \in Nat
         /\ x = 256 * (x \div 256) + 4 * ((x % 256) \div 4) + (x % 4)
<1>1. x \in Nat /\ x < 16384
  BY DEF SomePrefixes
<1> DEFINE a == x \div 256
           y == x % 256
           b == y \div 4
           c == y % 4
<1>2. a \in Nat /\ y \in Nat /\ x = 256 * a + y /\ y < 256
  BY <1>1
<1>3. a \in 0..63
  BY <1>1, <1>2
<1>4. b \in Nat /\ c \in 0..3 /\ y = 4 * b + c
  <2> HIDE DEF y
  <2> QED BY <1>2, QuarterRest
<1>5. x % 4 \in 0..3 /\ x = 4 * (x \div 4) + (x % 4) /\ x \div 4 \in Nat
  BY <1>1, QuarterRest
<1>6. x % 4 = c
  <2> HIDE DEF a, b, c, y
  <2>1. ASSUME NEW d \in Nat, NEW e \in Nat, NEW r \in 0..3, NEW t \in 0..3, 4 * d + r = 4 * e + t
        PROVE  r = t
    BY <2>1
  <2> DEFINE d == 64 * a + b
  <2>2. x = 4 * d + c /\ d \in Nat
    BY <1>2, <1>4
  <2> HIDE DEF d
  <2>3. 4 * (x \div 4) + (x % 4) = 4 * d + c
    BY <1>5, <2>2
  <2> QED BY <1>4, <1>5, <2>1, <2>2, <2>3
<1> HIDE DEF a, b, c, y
<1>7. a \in 0..63 /\ x % 4 \in 0..3 /\ b \in Nat /\ x = 256 * a + 4 * b + (x % 4)
  BY <1>2, <1>3, <1>4, <1>5, <1>6
<1> QED BY <1>7 DEF a, b, y

\* The two bytes of a prefix hold all of its bits.
LEMMA PrefixBits ==
  ASSUME NEW p \in SomePrefixes, NEW q \in SomePrefixes,
         (p % 256) \div 4 + 64 = (q % 256) \div 4 + 64,
         p \div 256 + (p % 4) * 64 = q \div 256 + (q % 4) * 64
  PROVE  p = q
<1>1. ASSUME NEW x \in SomePrefixes
      PROVE  /\ x \div 256 \in 0..63 /\ x % 4 \in 0..3 /\ (x % 256) \div 4 \in Nat
             /\ x = 256 * (x \div 256) + 4 * ((x % 256) \div 4) + (x % 4)
  BY <1>1, PrefixParts
<1>2. p % 4 = q % 4 /\ p \div 256 = q \div 256
  <2>1. ASSUME NEW a \in 0..63, NEW b \in 0..63, NEW c \in 0..3, NEW d \in 0..3, a + c * 64 = b + d * 64
        PROVE  a = b /\ c = d
    BY <2>1
  <2> DEFINE a(x) == x \div 256
             c(x) == x % 4
  <2>2. a(p) \in 0..63 /\ c(p) \in 0..3 /\ a(q) \in 0..63 /\ c(q) \in 0..3
    BY <1>1
  <2>3. a(p) + c(p) * 64 = a(q) + c(q) * 64
    OBVIOUS
  <2> HIDE DEF a, c
  <2>4. a(p) = a(q) /\ c(p) = c(q)
    <3> DEFINE e == a(p)  f == a(q)  g == c(p)  h == c(q)
    <3>1. e \in 0..63 /\ f \in 0..63 /\ g \in 0..3 /\ h \in 0..3
      BY <2>2
    <3>2. e + g * 64 = f + h * 64
      BY <2>3
    <3> HIDE DEF e, f, g, h
    <3>3. e = f /\ g = h
      BY <2>1, <3>1, <3>2
    <3> QED BY <3>3 DEF e, f, g, h
  <2> QED BY <2>4 DEF a, c
<1>3. (p % 256) \div 4 = (q % 256) \div 4
  <2> DEFINE a(x) == (x % 256) \div 4
  <2>1. a(p) \in Nat /\ a(q) \in Nat /\ a(p) + 64 = a(q) + 64
    BY <1>1
  <2> HIDE DEF a
  <2>2. a(p) = a(q)
    BY <2>1
  <2> QED BY <2>2 DEF a
<1> QED BY <1>1, <1>2, <1>3

\* encode_ss58 gives each key in each prefix an address of its own: no address is of two
\* networks.
THEOREM Ss58OneToOne ==
  ASSUME NEW k, NEW l, NEW p \in SomePrefixes, NEW q \in SomePrefixes, EncodeSs58(k, p) = EncodeSs58(l, q)
  PROVE  k = l /\ p = q
<1>1. k = l
  BY Ss58Injective
<1>2. PrefixLen(p) = PrefixLen(q) /\ Ss58Data(k, p) = Ss58Data(l, q)
  <2>1. /\ PrefixLen(p) = PrefixLength(EncodeSs58(k, p))
        /\ SubSeq(EncodeSs58(k, p), 1, PrefixLen(p) + 1) = Ss58Data(k, p)
    BY Ss58Form
  <2>2. /\ PrefixLen(q) = PrefixLength(EncodeSs58(l, q))
        /\ SubSeq(EncodeSs58(l, q), 1, PrefixLen(q) + 1) = Ss58Data(l, q)
    BY Ss58Form
  <2> QED BY <2>1, <2>2
<1>3. CASE p < 64
  <2>1. q < 64
    BY <1>2, <1>3 DEF PrefixLen
  <2>2. Ss58Data(k, p)[1] = PrefixBytes(p)[1]
    BY Ss58DataForm, Zenon
  <2>3. Ss58Data(l, q)[1] = PrefixBytes(q)[1]
    BY Ss58DataForm, Zenon
  <2> QED BY <1>1, <1>2, <1>3, <2>1, <2>2, <2>3 DEF PrefixBytes
<1>4. CASE ~(p < 64)
  <2>1. ~(q < 64)
    BY <1>2, <1>4 DEF PrefixLen
  <2> DEFINE a(x) == (x % 256) \div 4 + 64
             b(x) == x \div 256 + (x % 4) * 64
  <2>2. PrefixBytes(p) = <<a(p), b(p)>> /\ PrefixBytes(q) = <<a(q), b(q)>>
    BY <1>4, <2>1 DEF PrefixBytes
  <2> HIDE DEF a, b
  <2>3. <<a(p), b(p)>> \o <<k>> = <<a(q), b(q)>> \o <<l>>
    BY <1>2, <2>2 DEF Ss58Data
  <2>4. a(p) = a(q) /\ b(p) = b(q)
    BY <2>3
  <2> QED BY <1>1, <2>4, PrefixBits DEF a, b
<1> QED BY <1>1, <1>3, <1>4

\* decode_transparent_address gives the key and the network that encode_transparent_address
\* was given.
THEOREM TransparentRoundTrip ==
  ASSUME NEW key, NEW mainnet \in BOOLEAN
  PROVE  DecodeTransparent(EncodeTransparent(key, mainnet)) = <<key, mainnet>>
<1> DEFINE data == Append(Version(mainnet), key)
           address == EncodeTransparent(key, mainnet)
<1>1. PICK a \in Nat, b \in Nat : Version(mainnet) = <<a, b>> /\ (mainnet <=> <<a, b>> = Version(TRUE))
  BY DEF Version
<1>2. /\ data \in Seq(Nat \cup {key}) /\ Len(data) = 3
      /\ data[1] = a /\ data[2] = b /\ data[3] = key
  BY <1>1
<1>3. address = Checked(data)
  BY DEF EncodeTransparent
<1> HIDE DEF data, address
<1>4. /\ Len(address) = 3 + 1 /\ \A i \in 1..3 : address[i] = data[i]
      /\ SubSeq(address, 1, 3) = data
  <2> DEFINE S == Nat \cup {key}  n == 3
  <2>1. data \in Seq(S) /\ n \in Nat /\ Len(data) = n
    BY <1>2
  <2> HIDE DEF S, n
  <2>2. /\ Len(Checked(data)) = n + 1 /\ \A i \in 1..n : Checked(data)[i] = data[i]
        /\ SubSeq(Checked(data), 1, n) = data
    BY <2>1, CheckedData
  <2> QED BY <1>3, <2>2 DEF n
<1>5. address[1] = a /\ address[2] = b /\ address[3] = key
  BY <1>2, <1>4
<1>6. SubSeq(address, 1, 2) = <<a, b>>
  <2>1. \A i \in 1..2 : address[i] \in Nat
    BY <1>5
  <2>2. /\ SubSeq(address, 1, 2) \in Seq(Nat)
        /\ Len(SubSeq(address, 1, 2)) = IF 1 <= 2 THEN 2 - 1 + 1 ELSE 0
        /\ \A i \in 1..2 - 1 + 1 : SubSeq(address, 1, 2)[i] = address[1 + i - 1]
    BY <2>1, SubSeqProperties
  <2> DEFINE version == SubSeq(address, 1, 2)
  <2>3. version \in Seq(Nat) /\ Len(version) = 2 /\ version[1] = a /\ version[2] = b
    <3>1. 2 - 1 + 1 = 2 /\ 1 + 1 - 1 = 1 /\ 1 + 2 - 1 = 2
      OBVIOUS
    <3> QED BY <1>5, <2>2, <3>1
  <2> HIDE DEF version
  <2>4. version = <<a, b>>
    BY <2>3
  <2> QED BY <2>4 DEF version
<1>7. Len(address) = 4 /\ address = Checked(SubSeq(address, 1, 3))
  <2>1. Len(address) = 4
    BY <1>4
  <2>2. SubSeq(address, 1, 3) = data
    BY <1>4
  <2> QED BY <1>3, <2>1, <2>2, Zenon
<1>8. \E m \in BOOLEAN : SubSeq(address, 1, 2) = Version(m)
  BY <1>1, <1>6
<1>9. DecodeTransparent(address) = <<address[3], SubSeq(address, 1, 2) = Version(TRUE)>>
  BY <1>7, <1>8 DEF DecodeTransparent
<1>10. (SubSeq(address, 1, 2) = Version(TRUE)) = mainnet
  BY <1>1, <1>6
<1> QED BY <1>5, <1>9, <1>10 DEF address

-----------------------------------------------------------------------------
(* The invariant *)

\* What was handed out is of a user and an index, and its address is of its account.
HandedForm == \A h \in handed :
  /\ h.user \in Users /\ h.index \in Indices /\ h.prefix \in SomePrefixes
  /\ kind = "penumbra" => h.account = AddressIndex(h.user, h.index) /\ h.address = h.account
  /\ kind # "penumbra" => \E secret : h.account = Key(kind, secret, h.user, h.index)
  /\ kind = "polkadot" => h.address = EncodeSs58(h.account, h.prefix)
  /\ kind = "zcash" => h.address = EncodeTransparent(h.account, h.prefix = 0)

\* What is credited or watched was handed out.
WatchedHanded == \A e \in watched : \E h \in handed :
  e = [address |-> h.address, owner |-> <<h.user, h.index>>]
CreditedHanded == \A c \in credited : \E g \in handed :
  c.owner = <<g.user, g.index>> /\ c.account = g.account

\* Only an address of another prefix is missed.
MissedForm == \A h \in missed : kind = "polkadot" /\ h.prefix # 0

\* Until a user is excused, the index stored is the largest handed out.
Current ==
  /\ current \in [Users -> Indices]
  /\ request \in [Requests -> (Users \X Indices) \cup {None}]
  /\ kind # "polkadot" => \A r \in Requests : request[r] = None
  /\ kind = "polkadot" =>
       \A h \in handed : h.user \notin excused => h.index <= current[h.user]
Repeats == repeated \subseteq excused /\ excused \subseteq Users

Types == kind \in Wallets /\ wallet \in {Secret(kind, seed) : seed \in Seeds} \cup {None}

IInv ==
  Types /\ HandedForm /\ WatchedHanded /\ CreditedHanded /\ MissedForm /\ Current /\ Repeats

\* An account is of one user and index, except for Penumbra.
LEMMA AccountsDiffer ==
  ASSUME HandedForm, NEW g \in handed, NEW h \in handed, kind # "penumbra", g.account = h.account
  PROVE  g.user = h.user /\ g.index = h.index
<1>1. /\ g.user \in Users /\ g.index \in Indices /\ h.user \in Users /\ h.index \in Indices
  BY DEF HandedForm
<1>2. /\ g.user \in Seq(Chars) /\ h.user \in Seq(Chars)
  BY <1>1, UsersAssumption
<1>3. PICK s : g.account = Key(kind, s, g.user, g.index)
  BY DEF HandedForm
<1>4. PICK t : h.account = Key(kind, t, h.user, h.index)
  BY DEF HandedForm
<1>5. Key(kind, s, g.user, g.index).path = Key(kind, t, h.user, h.index).path
  BY <1>3, <1>4
<1>6. Path(g.user, g.index) = Path(h.user, h.index)
  BY <1>5 DEF Key
<1> QED BY <1>1, <1>2, <1>6, PathsDiffer

\* Addresses of one form are of one account.
LEMMA AddressesDiffer ==
  ASSUME HandedForm, kind \in Wallets, NEW g \in handed, NEW h \in handed, g.address = Seen(h)
  PROVE  g.account = h.account
<1>1. CASE kind = "polkadot"
  <2>1. EncodeSs58(g.account, g.prefix) = EncodeSs58(h.account, 0)
    BY <1>1 DEF HandedForm, Seen
  <2>2. g.prefix \in SomePrefixes /\ 0 \in SomePrefixes
    BY ZeroPrefix DEF HandedForm
  <2> QED BY <2>1, <2>2, Ss58Injective
<1>2. CASE kind = "zcash"
  <2>1. EncodeTransparent(g.account, g.prefix = 0) = EncodeTransparent(h.account, h.prefix = 0)
    BY <1>2 DEF HandedForm, Seen
  <2>2. (g.prefix = 0) \in BOOLEAN /\ (h.prefix = 0) \in BOOLEAN
    OBVIOUS
  <2> QED BY <2>1, <2>2, TransparentInjective
<1>3. CASE kind = "penumbra"
  BY <1>3 DEF HandedForm, Seen
<1> QED BY <1>1, <1>2, <1>3 DEF Wallets

LEMMA InitInv == Init => IInv
BY StoredAssumption DEF Init, IInv, Types, HandedForm, WatchedHanded, CreditedHanded, MissedForm,
   Current, Repeats

\* What Hand hands out has the form of what is handed out.
LEMMA HandStep ==
  ASSUME IInv, NEW user \in Users, NEW index \in Indices, NEW prefix \in SomePrefixes,
         Hand(user, index, prefix), kind' = kind
  PROVE  /\ HandedForm' /\ handed \subseteq handed'
         /\ \A h \in handed' : h \in handed \/ (h.user = user /\ h.index = index)
<1> DEFINE new == [user |-> user, index |-> index, prefix |-> prefix,
                   account |-> Account(user, index), address |-> Address(user, index, prefix)]
<1>1. handed' = handed \cup {new}
  BY DEF Hand
<1>2. /\ new.user = user /\ new.index = index /\ new.prefix = prefix
      /\ new.account = Account(user, index) /\ new.address = Address(user, index, prefix)
  OBVIOUS
<1> HIDE DEF new
<1>3. kind = "penumbra" => new.account = AddressIndex(user, index) /\ new.address = new.account
  BY <1>2 DEF Account, Address
<1>4. kind # "penumbra" => new.account = Key(kind, wallet, user, index)
  BY <1>2 DEF Account
<1>5. kind = "polkadot" => new.address = EncodeSs58(new.account, prefix)
  BY <1>2 DEF Address
<1>6. kind = "zcash" => new.address = EncodeTransparent(new.account, prefix = 0)
  BY <1>2 DEF Address
<1>7. HandedForm'
  <2> SUFFICES ASSUME NEW h \in handed'
               PROVE  /\ h.user \in Users /\ h.index \in Indices /\ h.prefix \in SomePrefixes
                      /\ kind = "penumbra" =>
                           h.account = AddressIndex(h.user, h.index) /\ h.address = h.account
                      /\ kind # "penumbra" =>
                           \E secret : h.account = Key(kind, secret, h.user, h.index)
                      /\ kind = "polkadot" => h.address = EncodeSs58(h.account, h.prefix)
                      /\ kind = "zcash" => h.address = EncodeTransparent(h.account, h.prefix = 0)
    BY DEF HandedForm
  <2>1. CASE h \in handed
    BY <2>1 DEF IInv, HandedForm
  <2>2. CASE h = new
    BY <2>2, <1>2, <1>3, <1>4, <1>5, <1>6
  <2> QED BY <2>1, <2>2, <1>1
<1> QED BY <1>1, <1>2, <1>7

LEMMA FromVaultStep == ASSUME IInv, FromVault PROVE IInv'
<1>1. Types'
  BY DEF FromVault, IInv, Types
<1>2. HandedForm'
  BY DEF FromVault, history, IInv, HandedForm
<1>3. WatchedHanded' /\ CreditedHanded' /\ MissedForm' /\ Current' /\ Repeats'
  BY DEF FromVault, history, IInv, WatchedHanded, CreditedHanded, MissedForm, Current, Repeats
<1> QED BY <1>1, <1>2, <1>3 DEF IInv

LEMMA DeriveStep == ASSUME IInv, Derive PROVE IInv'
<1> PICK user \in Users, index \in Indices, prefix \in Prefixes :
      /\ kind = "polkadot" => index = current[user]
      /\ Hand(user, index, prefix)
      /\ UNCHANGED <<kind, wallet, watched, current, request, credited, missed, repeated, excused>>
  BY DEF Derive
<1>p. prefix \in SomePrefixes
  BY PrefixesAssumption
<1>1. /\ HandedForm' /\ handed \subseteq handed'
      /\ \A h \in handed' : h \in handed \/ (h.user = user /\ h.index = index)
  BY <1>p, HandStep
<1>2. Types' /\ MissedForm' /\ Repeats'
  BY DEF IInv, Types, MissedForm, Repeats
<1>3. WatchedHanded' /\ CreditedHanded'
  BY <1>1 DEF IInv, WatchedHanded, CreditedHanded
<1>4. Current'
  <2>1. current \in [Users -> Indices]
    BY DEF IInv, Current
  <2>2. ASSUME kind = "polkadot", NEW h \in handed', h.user \notin excused
        PROVE  h.index <= current[h.user]
    <3>1. CASE h \in handed BY <2>2, <3>1 DEF IInv, Current
    <3>2. CASE h.user = user /\ h.index = index
      <4>1. h.index = current[h.user] /\ current[h.user] \in Nat
        BY <2>1, <2>2, <3>2 DEF Indices
      <4> QED BY <4>1
    <3> QED BY <1>1, <3>1, <3>2
  <2> QED BY <2>2 DEF IInv, Current
<1> QED BY <1>1, <1>2, <1>3, <1>4 DEF IInv

LEMMA RotateBeginsStep == ASSUME IInv, NEW r \in Requests, RotateBegins(r) PROVE IInv'
<1> PICK user \in Users :
      /\ kind = "polkadot" /\ request[r] = None
      /\ request' = [request EXCEPT ![r] = <<user, current[user]>>]
      /\ UNCHANGED <<kind, wallet, watched, current, history>>
  BY DEF RotateBegins
<1>1. HandedForm'
  BY DEF history, IInv, HandedForm
<1>2. Types' /\ WatchedHanded' /\ CreditedHanded' /\ MissedForm' /\ Repeats'
  BY DEF history, IInv, Types, WatchedHanded, CreditedHanded, MissedForm, Repeats
<1>3. Current'
  BY DEF history, IInv, Current
<1> QED BY <1>1, <1>2, <1>3 DEF IInv

LEMMA RotateReturnsStep == ASSUME IInv, NEW r \in Requests, RotateReturns(r) PROVE IInv'
<1> DEFINE user == request[r][1]
           index == request[r][2]
           new == IF index = MaxIndex THEN 0 ELSE index + 1
<1>1. /\ request[r] # None /\ request' = [request EXCEPT ![r] = None]
      /\ Hand(user, new, 0) /\ current' = [current EXCEPT ![user] = new]
      /\ repeated' = IF Given(user, new) THEN repeated \cup {user} ELSE repeated
      /\ excused' = IF index = MaxIndex \/ current[user] # index
                     THEN excused \cup {user} ELSE excused
      /\ UNCHANGED <<kind, wallet, watched, credited, missed>>
  BY DEF RotateReturns, Rotates
<1>2. user \in Users /\ index \in Indices
  BY <1>1 DEF IInv, Current
<1>3. new \in Indices
  BY <1>2, MaxIndexAssumption DEF Indices
<1>4. kind = "polkadot"
  BY <1>1 DEF IInv, Current
<1> HIDE DEF user, index
<1>5. /\ HandedForm' /\ handed \subseteq handed'
      /\ \A h \in handed' : h \in handed \/ (h.user = user /\ h.index = new)
  BY <1>1, <1>2, <1>3, ZeroPrefix, HandStep
<1>6. Types' /\ MissedForm'
  BY <1>1 DEF IInv, Types, MissedForm
<1>7. WatchedHanded' /\ CreditedHanded'
  BY <1>1, <1>5 DEF IInv, WatchedHanded, CreditedHanded
<1>8. user \notin excused' => current[user] = index /\ new = index + 1 /\ index \in Nat
  BY <1>1, <1>2 DEF Indices
<1>9. Current'
  <2>1. current \in [Users -> Indices] /\ current' \in [Users -> Indices]
    BY <1>1, <1>2, <1>3 DEF IInv, Current
  <2>2. request' \in [Requests -> (Users \X Indices) \cup {None}]
    BY <1>1 DEF IInv, Current
  <2>3. ASSUME NEW h \in handed', h.user \notin excused' PROVE h.index <= current'[h.user]
    <3>1. CASE h \notin handed
      <4>1. h.user = user /\ h.index = new
        BY <1>5, <3>1
      <4>2. current'[user] = new /\ new \in Nat
        BY <1>1, <1>2, <1>3, <2>1 DEF Indices
      <4> QED BY <4>1, <4>2
    <3>2. CASE h \in handed
      <4>1. h.user \notin excused /\ h.user \in Users /\ h.index \in Indices
        BY <1>1, <2>3, <3>2 DEF IInv, HandedForm
      <4>2. h.index <= current[h.user]
        BY <1>4, <3>2, <4>1 DEF IInv, Current
      <4>3. CASE h.user = user
        <5>1. current'[h.user] = current[h.user] + 1
          BY <1>1, <1>2, <1>8, <2>1, <2>3, <4>3
        <5> QED BY <4>1, <4>2, <5>1, <2>1 DEF Indices
      <4>4. CASE h.user # user
        BY <1>1, <2>1, <4>2, <4>4
      <4> QED BY <4>3, <4>4
    <3> QED BY <3>1, <3>2
  <2> QED BY <1>1, <1>4, <2>1, <2>2, <2>3 DEF Current
<1>10. Repeats'
  <2>1. Given(user, new) => user \in excused'
    <3> SUFFICES ASSUME Given(user, new), user \notin excused' PROVE FALSE
      OBVIOUS
    <3>1. PICK h \in handed : h.user = user /\ h.index = new
      BY DEF Given
    <3>2. user \notin excused
      BY <1>1
    <3>3. new <= current[user]
      BY <1>4, <3>1, <3>2 DEF IInv, Current
    <3> QED BY <1>8, <3>3
  <2> QED BY <1>1, <1>2, <2>1 DEF IInv, Repeats
<1> QED BY <1>5, <1>6, <1>7, <1>9, <1>10 DEF IInv

LEMMA RotateFailsStep == ASSUME IInv, NEW r \in Requests, RotateFails(r) PROVE IInv'
<1>1. /\ request' = [request EXCEPT ![r] = None]
      /\ UNCHANGED <<kind, wallet, watched, current, history>>
  BY DEF RotateFails
<1>2. HandedForm'
  BY <1>1 DEF history, IInv, HandedForm
<1>3. Types' /\ WatchedHanded' /\ CreditedHanded' /\ MissedForm' /\ Repeats'
  BY <1>1 DEF history, IInv, Types, WatchedHanded, CreditedHanded, MissedForm, Repeats
<1>4. Current'
  BY <1>1 DEF history, IInv, Current
<1> QED BY <1>2, <1>3, <1>4 DEF IInv

\* Watching, unwatching and restarting only change what is watched.
LEMMA WatchedStep ==
  ASSUME IInv, WatchedHanded', UNCHANGED <<kind, current, history>>,
         wallet' \in {wallet, None}, request' \in {request, [r \in Requests |-> None]}
  PROVE  IInv'
<1>1. HandedForm'
  BY DEF history, IInv, HandedForm
<1>2. Types' /\ CreditedHanded' /\ MissedForm' /\ Repeats'
  BY DEF history, IInv, Types, CreditedHanded, MissedForm, Repeats
<1>3. Current'
  BY DEF history, IInv, Current
<1> QED BY <1>1, <1>2, <1>3 DEF IInv

LEMMA WatchStep == ASSUME IInv, Watch PROVE IInv'
<1> PICK h \in handed :
      /\ watched' \subseteq watched \cup {[address |-> h.address, owner |-> <<h.user, h.index>>]}
      /\ UNCHANGED <<kind, wallet, current, request, history>>
  BY DEF Watch
<1>1. WatchedHanded'
  BY DEF history, IInv, WatchedHanded
<1> QED BY <1>1, WatchedStep

LEMMA UnwatchStep == ASSUME IInv, Unwatch PROVE IInv'
<1>1. watched' \subseteq watched /\ UNCHANGED <<kind, wallet, current, request, history>>
  BY DEF Unwatch
<1>2. WatchedHanded'
  BY <1>1 DEF history, IInv, WatchedHanded
<1> QED BY <1>1, <1>2, WatchedStep

LEMMA RestartStep == ASSUME IInv, Restart PROVE IInv'
<1>1. WatchedHanded'
  BY DEF Restart, WatchedHanded
<1> QED BY <1>1, WatchedStep DEF Restart

LEMMA DepositStep == ASSUME IInv, Deposit PROVE IInv'
<1> PICK h \in handed :
      LET found == {e \in watched : e.address = Seen(h)} IN
      /\ credited' = credited \cup {[account |-> h.account, owner |-> e.owner] : e \in found}
      /\ missed' = IF found = {} /\ \E e \in watched : e.address = h.address
                     THEN missed \cup {h} ELSE missed
      /\ UNCHANGED <<kind, wallet, watched, current, request, handed, repeated, excused>>
  BY DEF Deposit
<1>1. HandedForm'
  BY DEF IInv, HandedForm
<1>2. Types' /\ WatchedHanded' /\ Repeats'
  BY DEF IInv, Types, WatchedHanded, Repeats
<1>3. Current'
  BY DEF IInv, Current
<1>4. CreditedHanded'
  <2> SUFFICES ASSUME NEW c \in credited'
               PROVE  \E g \in handed : c.owner = <<g.user, g.index>> /\ c.account = g.account
    BY DEF CreditedHanded
  <2>1. CASE c \in credited
    BY <2>1 DEF IInv, CreditedHanded
  <2>2. CASE c \notin credited
    <3>1. PICK e \in watched : /\ e.address = Seen(h)
                               /\ c = [account |-> h.account, owner |-> e.owner]
      BY <2>2
    <3>2. PICK g \in handed : e = [address |-> g.address, owner |-> <<g.user, g.index>>]
      BY DEF IInv, WatchedHanded
    <3>3. g.address = Seen(h) /\ c.owner = <<g.user, g.index>> /\ c.account = h.account
      BY <3>1, <3>2
    <3>4. g.account = h.account
      BY <3>3, AddressesDiffer DEF IInv, Types
    <3> QED BY <3>3, <3>4
  <2> QED BY <2>1, <2>2
<1>5. MissedForm'
  <2> SUFFICES ASSUME NEW m \in missed', m \notin missed
               PROVE  kind = "polkadot" /\ m.prefix # 0
    BY DEF IInv, MissedForm
  <2>1. m = h /\ {e \in watched : e.address = Seen(h)} = {} /\ \E e \in watched : e.address = h.address
    OBVIOUS
  <2>2. Seen(h) # h.address
    BY <2>1
  <2>3. kind = "polkadot"
    BY <2>2 DEF Seen
  <2>4. h.prefix = 0 => Seen(h) = h.address
    BY <2>3 DEF Seen, IInv, HandedForm
  <2> QED BY <2>1, <2>2, <2>3, <2>4
<1> QED BY <1>1, <1>2, <1>3, <1>4, <1>5 DEF IInv

LEMMA NextInv == IInv /\ [Next]_vars => IInv'
<1> SUFFICES ASSUME IInv, [Next]_vars PROVE IInv'
  OBVIOUS
<1>1. CASE Next
  BY <1>1, FromVaultStep, DeriveStep, WatchStep, UnwatchStep, DepositStep, RestartStep,
     RotateBeginsStep, RotateReturnsStep, RotateFailsStep DEF Next
<1>2. CASE UNCHANGED vars
  <2>1. HandedForm'
    BY <1>2 DEF vars, history, IInv, HandedForm
  <2>2. Types' /\ WatchedHanded' /\ CreditedHanded' /\ MissedForm' /\ Current' /\ Repeats'
    BY <1>2 DEF vars, history, IInv, Types, WatchedHanded, CreditedHanded, MissedForm, Current,
       Repeats
  <2> QED BY <2>1, <2>2 DEF IInv
<1> QED BY <1>1, <1>2

\* The inductive invariant: what derive_address, rotate_polkadot_address and the listeners'
\* watch and lookup leave.
THEOREM AddressesInv == Spec => []IInv
BY InitInv, NextInv, PTL DEF Spec

-----------------------------------------------------------------------------
(* The properties *)

\* Every field has its type in every reachable state (the wallets, the watch lists).
THEOREM AddressTypes == Spec => []TypeOK
<1>1. IInv => TypeOK
  BY DEF IInv, Types, WatchedHanded, Current, Repeats, TypeOK
<1> QED BY <1>1, AddressesInv, PTL

\* Deposits are credited to whom their account was handed to, whatever the users are called;
\* only one Penumbra index can be of two users (derive_address, the listeners' watch).
THEOREM DepositsFindTheirUser == Spec => []CreditedToItsUser
<1>1. ASSUME IInv PROVE CreditedToItsUser
  <2> SUFFICES ASSUME NEW c \in credited, NEW h \in handed, c.account = h.account,
                      c.owner # <<h.user, h.index>>
               PROVE  kind = "penumbra" /\ \E g \in handed :
                        c.owner = <<g.user, g.index>> /\ g.account = h.account
    BY DEF CreditedToItsUser
  <2>1. PICK g \in handed : c.owner = <<g.user, g.index>> /\ c.account = g.account
    BY <1>1 DEF IInv, CreditedHanded
  <2>2. g.account = h.account
    BY <2>1
  <2>3. kind # "penumbra" => g.user = h.user /\ g.index = h.index
    BY <1>1, <2>2, AccountsDiffer DEF IInv
  <2> QED BY <2>1, <2>2, <2>3
<1> QED BY <1>1, AddressesInv, PTL

\* A watched address is missed only in the form of another chain (parse_address_to_ss58).
THEOREM OwnFormIsFound == Spec => []OnlyOtherPrefixesMissed
<1>1. IInv => OnlyOtherPrefixesMissed
  BY DEF IInv, MissedForm, OnlyOtherPrefixesMissed
<1> QED BY <1>1, AddressesInv, PTL

\* Rotations that neither wrap nor overlap give new addresses (rotate_polkadot_address).
THEOREM RotationsGiveNew == Spec => []RotationsAreNew
<1>1. IInv => RotationsAreNew
  BY DEF IInv, Repeats, RotationsAreNew
<1> QED BY <1>1, AddressesInv, PTL

\* An address handed out says the key and the network it was derived with, and an SS58
\* address with another network's first byte is refused (derive_address, decode_ss58,
\* decode_transparent_address).
THEOREM AddressesSayTheirKey == Spec => []AddressesDecode
<1>1. ASSUME IInv PROVE AddressesDecode
  <2> SUFFICES ASSUME NEW h \in handed
               PROVE  /\ kind = "polkadot" =>
                           /\ DecodeSs58(h.address) = h.account
                           /\ \A byte \in {PrefixBytes(prefix)[1] : prefix \in Prefixes} \ {h.address[1]} :
                                DecodeSs58([h.address EXCEPT ![1] = byte]) = None
                      /\ kind = "zcash" => DecodeTransparent(h.address) = <<h.account, h.prefix = 0>>
    BY DEF AddressesDecode
  <2>1. h.prefix \in SomePrefixes
    BY <1>1 DEF IInv, HandedForm
  <2>2. ASSUME kind = "polkadot" PROVE DecodeSs58(h.address) = h.account
    BY <1>1, <2>1, <2>2, Ss58RoundTrip DEF IInv, HandedForm
  <2>3. ASSUME kind = "polkadot", NEW prefix \in Prefixes, PrefixBytes(prefix)[1] # h.address[1]
        PROVE  DecodeSs58([h.address EXCEPT ![1] = PrefixBytes(prefix)[1]]) = None
    <3>1. h.address = EncodeSs58(h.account, h.prefix)
      BY <1>1, <2>3 DEF IInv, HandedForm
    <3>2. PrefixBytes(prefix)[1] \in Nat
      BY Ss58DataForm, PrefixesAssumption
    <3> QED BY <2>1, <2>3, <3>1, <3>2, OtherNetworkRefused
  <2>4. ASSUME kind = "zcash" PROVE DecodeTransparent(h.address) = <<h.account, h.prefix = 0>>
    <3>1. h.address = EncodeTransparent(h.account, h.prefix = 0) /\ (h.prefix = 0) \in BOOLEAN
      BY <1>1, <2>4 DEF IInv, HandedForm
    <3> QED BY <3>1, TransparentRoundTrip
  <2> QED BY <2>2, <2>3, <2>4
<1> QED BY <1>1, AddressesInv, PTL
=============================================================================
