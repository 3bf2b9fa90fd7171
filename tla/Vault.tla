------------------------------- MODULE Vault -------------------------------
(***************************************************************************)
(* The secret vault: src/src/vault.rs over tpm.rs (sealed files) and       *)
(* crypto.rs (files encrypted under a password).  One process has the      *)
(* vault open at a time and calls it through `&mut self`, so its calls do  *)
(* not overlap; it may die between any two steps on the file system and be *)
(* opened again with another password, and the TPM device may come and go. *)
(*                                                                         *)
(* A file is truncated, written and synced in place.  What is in it is     *)
(* abstracted to a blob: sealed or encrypted, the secret, and the password *)
(* that encrypts it; a file cut short is Torn.  A sealed blob never passes *)
(* for an encrypted one (its first bytes are a length, not the magic), nor *)
(* an encrypted one for a sealed (the magic reads as a length beyond the   *)
(* file), and the cipher is authenticated: a wrong password is an error.   *)
(***************************************************************************)
EXTENDS Integers, FiniteSets

CONSTANTS
  Ids,       \* the SecretIds in use: [custom, stem, suffixes], see filename
  FixedStems,\* stems of WalletSeed, StripeSecretKey and StripeWebhookSecret
  Secrets,   \* secret values
  Passwords, \* passwords a vault can be opened with
  None,      \* no password, no value, no file
  Torn,      \* the content of a file truncated or partly written
  MaxFaults, \* bound: failing file and TPM operations
  MaxOpens,  \* bound: times the vault is opened
  MaxDevice  \* bound: times the TPM device comes or goes

ASSUME BoundsAssumption == MaxFaults \in Nat /\ MaxOpens \in Nat /\ MaxDevice \in Nat
ASSUME NoneAssumption ==
  /\ None \notin Secrets \cup Passwords \cup {Torn}
  /\ Ids \subseteq [custom : BOOLEAN, stem : STRING, suffixes : Nat]

VARIABLES
  device,    \* /dev/tpmrm0 or /dev/tpm0 exists
  disk,      \* content of each file of data_dir: None, Torn or a blob
  open,      \* a vault is open
  uses_tpm, password, cache,  \* its fields; cache[id] is None where there is no entry
  pc,        \* "ready", or where a call of store is
  job,       \* the id, the secret and the blob of that call
  faults, opens, changes,
  \* history, read by no action:
  may,       \* may[id]: the secrets stored under id that a load may still return
  sure       \* the ids whose last store returned Ok, with no call begun after it

vault   == <<open, uses_tpm, password, cache>>
call    == <<pc, job>>
bounds  == <<faults, opens, changes>>
history == <<may, sure>>
vars    == <<device, disk, vault, call, bounds, history>>

\* filename appends ".sealed"; a name is its stem and the ".sealed"s it ends with,
\* so WalletSeed and Custom("wallet") have the stem "wallet" and no suffix.
filename(id) == [stem |-> id.stem, suffixes |-> id.suffixes + 1]

\* Mutant: a custom secret may be named like a file.
CustomOfOnce(f) == [custom |-> TRUE, stem |-> f.stem, suffixes |-> f.suffixes]

\* trim_end_matches removes every ".sealed".
CustomOf(f) == [custom |-> TRUE, stem |-> f.stem, suffixes |-> 0]

Files == {filename(id) : id \in Ids}
NoJob == [id |-> None, secret |-> None, blob |-> None]

Sealed(s)       == [kind |-> "tpm", secret |-> s, key |-> None]
Encrypted(s, p) == [kind |-> "enc", secret |-> s, key |-> p]
Blobs == {Sealed(s) : s \in Secrets} \cup {Encrypted(s, p) : s \in Secrets, p \in Passwords}
ASSUME ContentAssumption == None \notin Blobs /\ Torn \notin Blobs

\* No two ids share a file.
OneFileEach == \A i, j \in Ids : filename(i) = filename(j) => i = j

\* The custom secrets in use are named unlike the fixed ones and unlike files.
PlainNames == \A id \in Ids : id.suffixes = 0 /\ (id.custom <=> id.stem \notin FixedStems)

Ready == open /\ pc = "ready"

Init ==
  /\ device \in BOOLEAN
  /\ disk = [f \in Files |-> None]
  /\ open = FALSE /\ uses_tpm = FALSE /\ password = None /\ cache = [id \in Ids |-> None]
  /\ pc = "ready" /\ job = NoJob
  /\ faults = 0 /\ opens = 0 /\ changes = 0
  /\ may = [id \in Ids |-> {}]
  /\ sure = {}

Fault == faults < MaxFaults /\ faults' = faults + 1

DeviceChanges ==
  /\ changes < MaxDevice
  /\ changes' = changes + 1
  /\ device' = ~device
  /\ UNCHANGED <<disk, vault, call, faults, opens, history>>

Open == \E p \in Passwords \cup {None} :
  /\ ~open
  /\ opens < MaxOpens
  /\ opens' = opens + 1
  /\ open' = TRUE
  /\ uses_tpm' = device
  /\ password' = p
  /\ cache' = [id \in Ids |-> None]
  /\ UNCHANGED <<device, disk, call, faults, changes, history>>

\* A store that has truncated the file leaves what it stored possible.
Unsettle ==
  /\ may' = IF pc \in {"write", "sync"}
              THEN [may EXCEPT ![job.id] = @ \cup {job.secret}] ELSE may
  /\ sure' = IF pc \in {"write", "sync"} THEN sure \ {job.id} ELSE sure

\* The vault is dropped, or its process dies: in the middle of a store, too.
Close ==
  /\ open
  /\ open' = FALSE /\ uses_tpm' = FALSE /\ password' = None
  /\ cache' = [id \in Ids |-> None]
  /\ pc' = "ready" /\ job' = NoJob
  /\ Unsettle
  /\ UNCHANGED <<device, disk, bounds>>

-----------------------------------------------------------------------------
(* store *)

\* The TPM is used while the device is there; when it has gone, the vault falls
\* back to encryption for good, which takes a password.
StoreSealed == \E id \in Ids, s \in Secrets :
  /\ Ready /\ uses_tpm /\ device
  /\ pc' = "open"
  /\ job' = [id |-> id, secret |-> s, blob |-> Sealed(s)]
  /\ UNCHANGED <<device, disk, vault, bounds, history>>

StoreEncrypted == \E id \in Ids, s \in Secrets :
  /\ Ready /\ ~(uses_tpm /\ device)
  /\ uses_tpm' = FALSE
  /\ IF password = None
       THEN UNCHANGED call
       ELSE /\ pc' = "open"
            /\ job' = [id |-> id, secret |-> s, blob |-> Encrypted(s, password)]
  /\ UNCHANGED <<device, disk, open, password, cache, bounds, history>>

\* OpenOptions ... truncate(true).
Truncate ==
  /\ pc = "open"
  /\ disk' = [disk EXCEPT ![filename(job.id)] = Torn]
  /\ pc' = "write"
  /\ UNCHANGED <<device, vault, job, bounds, history>>

\* Mutant: the secret is written as it is.
WritePlain ==
  /\ pc = "write"
  /\ disk' = [disk EXCEPT ![filename(job.id)] = job.secret]
  /\ pc' = "sync"
  /\ UNCHANGED <<device, vault, job, bounds, history>>

Write ==
  /\ pc = "write"
  /\ disk' = [disk EXCEPT ![filename(job.id)] = job.blob]
  /\ pc' = "sync"
  /\ UNCHANGED <<device, vault, job, bounds, history>>

StoreReturns ==
  /\ pc = "sync"
  /\ cache' = [cache EXCEPT ![job.id] = job.secret]
  /\ pc' = "ready" /\ job' = NoJob
  /\ may' = [may EXCEPT ![job.id] = {job.secret}]
  /\ sure' = sure \cup {job.id}
  /\ UNCHANGED <<device, disk, open, uses_tpm, password, bounds>>

\* open, write_all or sync_all fails: the file is as it was, Torn or new, and the
\* cache keeps what it had.
StoreFails ==
  /\ pc \in {"open", "write", "sync"}
  /\ Fault
  /\ pc' = "ready" /\ job' = NoJob
  /\ Unsettle
  /\ UNCHANGED <<device, disk, vault, opens, changes>>

-----------------------------------------------------------------------------
(* load, delete, exists, list_secrets *)

\* Mutant: the password is not looked at.
DecryptAny(b) == IF b \in Blobs /\ b.kind = "enc" THEN b.secret ELSE None

\* crypto::decrypt under the vault's password; None is an error.
Decrypt(b) ==
  IF b \in Blobs /\ b.kind = "enc" /\ b.key = password THEN b.secret ELSE None

\* Mutant: a vault whose TPM has gone gives up instead of decrypting.
ReadsNothing(b) == {[secret |-> IF uses_tpm /\ device /\ b \in Blobs /\ b.kind = "tpm"
                                  THEN b.secret ELSE None, tpm |-> uses_tpm /\ device]}

\* What reading content b can give: the secret, or None for an error, and whether
\* the vault goes on using the TPM.  A torn file of less than four bytes fails
\* before the device is looked for.
Reads(b) ==
  IF uses_tpm /\ device
    THEN {[secret |-> IF b \in Blobs /\ b.kind = "tpm" THEN b.secret ELSE None, tpm |-> TRUE]}
    ELSE {[secret |-> Decrypt(b), tpm |-> FALSE]}
           \cup IF uses_tpm /\ b = Torn THEN {[secret |-> None, tpm |-> TRUE]} ELSE {}

\* A load that misses the cache; one that hits it, or finds no file, changes nothing.
Load == \E id \in Ids :
  /\ Ready
  /\ cache[id] = None
  /\ disk[filename(id)] # None
  /\ \E r \in Reads(disk[filename(id)]) :
       /\ uses_tpm' = r.tpm
       /\ cache' = [cache EXCEPT ![id] = r.secret]
  /\ UNCHANGED <<device, disk, open, password, call, bounds, history>>

\* Any other error of the TPM fails the call of store or load and changes nothing.
TpmFails ==
  /\ Ready /\ uses_tpm /\ device
  /\ Fault
  /\ UNCHANGED <<device, disk, vault, call, opens, changes, history>>

\* Mutant: the file goes, the cache entry stays.
DeleteCacheStays == \E id \in Ids :
  /\ Ready
  /\ disk' = [disk EXCEPT ![filename(id)] = None]
  /\ may' = [may EXCEPT ![id] = {}]
  /\ sure' = sure \ {id}
  /\ UNCHANGED <<device, vault, call, bounds>>

Delete == \E id \in Ids :
  /\ Ready
  /\ cache' = [cache EXCEPT ![id] = None]
  /\ disk' = [disk EXCEPT ![filename(id)] = None]
  /\ may' = [may EXCEPT ![id] = {}]
  /\ sure' = sure \ {id}
  /\ UNCHANGED <<device, open, uses_tpm, password, call, bounds>>

\* remove_file fails, when the cache has already let the secret go.
DeleteFails == \E id \in Ids :
  /\ Ready
  /\ disk[filename(id)] # None
  /\ Fault
  /\ cache' = [cache EXCEPT ![id] = None]
  /\ UNCHANGED <<device, disk, open, uses_tpm, password, call, opens, changes, history>>

exists(id) == cache[id] # None \/ disk[filename(id)] # None

\* The three fixed ids are asked for; the files of other stems are custom secrets.
list_secrets ==
  {id \in Ids : ~id.custom /\ exists(id)}
    \cup {CustomOf(f) : f \in {g \in Files : disk[g] # None /\ g.stem \notin FixedStems}}

Next ==
  \/ DeviceChanges \/ Open \/ Close
  \/ StoreSealed \/ StoreEncrypted \/ Truncate \/ Write \/ StoreReturns \/ StoreFails
  \/ Load \/ TpmFails \/ Delete \/ DeleteFails

Spec == Init /\ [][Next]_vars

-----------------------------------------------------------------------------
(* Properties *)

\* The fields, the files and the call hold what they may hold.
TypeOK ==
  /\ device \in BOOLEAN
  /\ disk \in [Files -> Blobs \cup {None, Torn}]
  /\ open \in BOOLEAN
  /\ uses_tpm \in BOOLEAN
  /\ password \in Passwords \cup {None}
  /\ cache \in [Ids -> Secrets \cup {None}]
  /\ pc \in {"ready", "open", "write", "sync"}
  /\ pc # "ready" => /\ job \in [id : Ids, secret : Secrets, blob : Blobs]
                    /\ job.blob.secret = job.secret
  /\ faults \in Nat /\ opens \in Nat /\ changes \in Nat
  /\ may \in [Ids -> SUBSET Secrets]
  /\ sure \in SUBSET Ids

\* What load(id) can return here, TPM failures apart; None is an error.
Loads(id) ==
  IF cache[id] # None THEN {cache[id]}
  ELSE IF disk[filename(id)] = None THEN {None}
  ELSE {r.secret : r \in Reads(disk[filename(id)])}

\* A load returns the last secret stored under its id, or one whose store failed or
\* was cut short after truncating the file, and nothing once it is deleted: cache and
\* file never disagree, across failing calls, crashes and a TPM that comes and goes.
LoadReturnsStored ==
  Ready => \A id \in Ids : Loads(id) \subseteq may[id] \cup {None}

\* The vault can read content b: the sealed with the TPM it uses, the encrypted when
\* it uses none and has the password.
Readable(b) ==
  /\ b \in Blobs
  /\ IF uses_tpm /\ device THEN b.kind = "tpm" ELSE b.kind = "enc" /\ b.key = password

\* A secret whose store returned Ok is loaded, from the cache or its file, by every
\* vault that can read the file, whatever other calls failed since.
StoredLoads ==
  Ready => \A id \in sure : Readable(disk[filename(id)]) => Loads(id) = may[id]

\* A vault opened with one password returns no secret that is encrypted under
\* another: not from the file, nor from a cache an earlier password filled.
PasswordProtects ==
  Ready => \A id \in Ids :
    LET b == disk[filename(id)] IN
      b \in Blobs /\ b.kind = "enc" /\ b.key # password => Loads(id) = {None}

\* list_secrets, which asks the cache and the files for a fixed id and the files
\* alone for a custom one, lists the ids that have a file.
ListIsExact ==
  Ready => list_secrets = {id \in Ids : disk[filename(id)] # None}

\* vault.rs:4, "Tries TPM first, falls back to encrypted file storage": a vault that
\* has the password loads a secret that was stored encrypted under it, TPM or not.
StoredSecretLoadable ==
  Ready => \A id \in sure :
    LET b == disk[filename(id)] IN
      b.kind = "enc" /\ b.key = password => Loads(id) = may[id]
=============================================================================
