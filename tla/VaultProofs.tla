---------------------------- MODULE VaultProofs ----------------------------
(***************************************************************************)
(* Proofs about Vault: the types, what a load returns when no two ids      *)
(* share a file, and what list_secrets lists when custom names are plain.  *)
(***************************************************************************)
EXTENDS Vault, TLAPS

\* A field of a job, once a call of store has one.
LEMMA JobType ==
  ASSUME TypeOK, pc # "ready"
  PROVE  /\ job.id \in Ids /\ job.secret \in Secrets /\ job.blob \in Blobs
         /\ filename(job.id) \in Files /\ job.blob.secret = job.secret
BY DEF TypeOK, Files

\* Every blob holds a secret.
LEMMA BlobType ==
  ASSUME NEW b \in Blobs
  PROVE  /\ b.secret \in Secrets
         /\ b.kind \in {"tpm", "enc"}
BY DEF Blobs, Sealed, Encrypted

\* A blob that is made holds what it is made of.
LEMMA MadeBlobs ==
  ASSUME NEW s \in Secrets
  PROVE  /\ Sealed(s) \in Blobs /\ Sealed(s).secret = s
         /\ \A p \in Passwords : Encrypted(s, p) \in Blobs /\ Encrypted(s, p).secret = s
BY DEF Blobs, Sealed, Encrypted

\* What a read gives is None, or the secret of a blob the vault has the password of.
LEMMA ReadsType ==
  ASSUME NEW b, NEW r \in Reads(b)
  PROVE  /\ r.secret # None => /\ b \in Blobs /\ r.secret = b.secret
                               /\ b.kind = "enc" => b.key = password
         /\ r.secret \in Secrets \cup {None}
         /\ r.tpm \in BOOLEAN
<1>1. CASE uses_tpm /\ device
  <2>1. r = [secret |-> IF b \in Blobs /\ b.kind = "tpm" THEN b.secret ELSE None, tpm |-> TRUE]
    BY <1>1 DEF Reads
  <2> QED
    BY <2>1, BlobType
<1>2. CASE ~(uses_tpm /\ device)
  <2>1. \/ r = [secret |-> Decrypt(b), tpm |-> FALSE]
        \/ r = [secret |-> None, tpm |-> TRUE]
    BY <1>2 DEF Reads
  <2>2. /\ Decrypt(b) # None => b \in Blobs /\ Decrypt(b) = b.secret /\ b.key = password
        /\ Decrypt(b) \in Secrets \cup {None}
    BY BlobType DEF Decrypt
  <2>3. CASE r = [secret |-> Decrypt(b), tpm |-> FALSE]
    BY <2>2, <2>3
  <2>4. CASE r = [secret |-> None, tpm |-> TRUE]
    BY <2>4
  <2> QED
    BY <2>1, <2>3, <2>4
<1> QED
  BY <1>1, <1>2

\* Every call and every event of the environment keeps the types.
LEMMA TypeStep == TypeOK /\ [Next]_vars => TypeOK'
<1> SUFFICES ASSUME TypeOK, [Next]_vars PROVE TypeOK'
  OBVIOUS
<1> USE DEF TypeOK, vault, call, bounds, history
<1>1. CASE DeviceChanges
  BY <1>1, BoundsAssumption DEF DeviceChanges
<1>2. CASE Open
  BY <1>2, BoundsAssumption DEF Open
<1>3. CASE Close
  BY <1>3, JobType DEF Close, Unsettle
<1>4. CASE StoreSealed
  BY <1>4, MadeBlobs DEF StoreSealed
<1>5. CASE StoreEncrypted
  <2>1. CASE password = None
    BY <1>5, <2>1 DEF StoreEncrypted, Ready
  <2>2. CASE password # None
    <3>1. PICK id \in Ids, s \in Secrets :
            job' = [id |-> id, secret |-> s, blob |-> Encrypted(s, password)]
      BY <1>5, <2>2 DEF StoreEncrypted
    <3> DEFINE b == Encrypted(s, password)
    <3>2. b \in Blobs /\ b.secret = s
      BY <2>2, MadeBlobs
    <3> HIDE DEF b
    <3>3. job' = [id |-> id, secret |-> s, blob |-> b]
      BY <3>1 DEF b
    <3> QED
      BY <1>5, <2>2, <3>2, <3>3 DEF StoreEncrypted
  <2> QED
    BY <2>1, <2>2
<1>6. CASE Truncate
  BY <1>6, JobType DEF Truncate
<1>7. CASE Write
  BY <1>7, JobType DEF Write
<1>8. CASE StoreReturns
  BY <1>8, JobType DEF StoreReturns
<1>9. CASE StoreFails
  BY <1>9, JobType DEF StoreFails, Unsettle, Fault
<1>10. CASE Load
  BY <1>10, ReadsType DEF Load
<1>11. CASE TpmFails
  BY <1>11 DEF TpmFails, Fault
<1>12. CASE Delete
  BY <1>12 DEF Delete, Files
<1>13. CASE DeleteFails
  BY <1>13 DEF DeleteFails, Fault
<1>14. CASE UNCHANGED vars
  BY <1>14 DEF vars
<1> QED
  BY <1>1, <1>2, <1>3, <1>4, <1>5, <1>6, <1>7, <1>8, <1>9, <1>10, <1>11, <1>12, <1>13,
     <1>14 DEF Next

\* Type correctness of the vault, for all ids, secrets, passwords and bounds.
THEOREM TypeCorrect == Spec => []TypeOK
<1>1. Init => TypeOK
  <2> SUFFICES ASSUME Init PROVE TypeOK
    OBVIOUS
  <2>1. disk \in [Files -> Blobs \cup {None, Torn}]
    BY DEF Init
  <2>2. cache \in [Ids -> Secrets \cup {None}]
    BY DEF Init
  <2>3. may \in [Ids -> SUBSET Secrets]
    BY DEF Init
  <2> QED
    BY <2>1, <2>2, <2>3 DEF Init, TypeOK
<1> QED
  BY <1>1, TypeStep, PTL DEF Spec

-----------------------------------------------------------------------------
(* What is loaded was stored *)

\* A cached secret may be loaded, has a file, and if that is encrypted, then under
\* the vault's password.
CacheInv == \A id \in Ids : cache[id] # None =>
  /\ cache[id] \in may[id]
  /\ disk[filename(id)] # None
  /\ disk[filename(id)] \in Blobs /\ disk[filename(id)].kind = "enc"
       => disk[filename(id)].key = password

\* The secret in a file may be loaded, but while a store has just written it.
FileInv == \A id \in Ids : disk[filename(id)] \in Blobs /\ ~(pc = "sync" /\ job.id = id)
  => disk[filename(id)].secret \in may[id]

\* The blob under way is encrypted under the vault's password, and on disk at the end;
\* only an open vault has a call.
CallInv ==
  /\ pc # "ready" => open
  /\ pc = "sync" => disk[filename(job.id)] = job.blob
  /\ pc # "ready" /\ job.blob.kind = "enc" => job.blob.key = password

\* A settled id has one secret.
SureInv == \A id \in sure : \E s \in Secrets : may[id] = {s}

StoredInv == CacheInv /\ FileInv /\ CallInv /\ SureInv

\* Every step keeps StoredInv when no two ids share a file.
LEMMA StoredStep ==
  ASSUME OneFileEach
  PROVE  TypeOK /\ StoredInv /\ [Next]_vars => StoredInv'
<1> SUFFICES ASSUME TypeOK, StoredInv, [Next]_vars PROVE StoredInv'
  OBVIOUS
<1>f. \A id \in Ids : filename(id) \in Files
  BY DEF Files
<1>n. None \notin Blobs /\ Torn \notin Blobs /\ Torn # None /\ None \notin Secrets
  BY ContentAssumption, NoneAssumption
<1> USE DEF StoredInv
<1>1. CASE DeviceChanges
  <2>1. CacheInv'
    BY <1>1, <1>f, <1>n, JobType DEF DeviceChanges, CacheInv, TypeOK, OneFileEach, vault, call, history
  <2>2. FileInv'
    BY <1>1, <1>f, <1>n, JobType DEF DeviceChanges, FileInv, TypeOK, OneFileEach, vault, call, history
  <2>3. CallInv'
    BY <1>1, <1>f, <1>n, JobType DEF DeviceChanges, CallInv, TypeOK, OneFileEach, vault, call, history
  <2>4. SureInv'
    BY <1>1, <1>f, <1>n, JobType DEF DeviceChanges, SureInv, TypeOK, OneFileEach, vault, call, history
  <2> QED
    BY <2>1, <2>2, <2>3, <2>4
<1>2. CASE Open
  <2>1. CacheInv'
    BY <1>2, <1>f, <1>n, JobType DEF Open, CacheInv, TypeOK, OneFileEach, call, history
  <2>2. FileInv'
    BY <1>2, <1>f, <1>n, JobType DEF Open, FileInv, TypeOK, OneFileEach, call, history
  <2>3. CallInv'
    BY <1>2, <1>f, <1>n, JobType DEF Open, CallInv, TypeOK, OneFileEach, call, history
  <2>4. SureInv'
    BY <1>2, <1>f, <1>n, JobType DEF Open, SureInv, TypeOK, OneFileEach, call, history
  <2> QED
    BY <2>1, <2>2, <2>3, <2>4
<1>3. CASE Close
  <2>1. CacheInv'
    BY <1>3, <1>f, <1>n, JobType DEF Close, CacheInv, TypeOK, OneFileEach, Unsettle, bounds
  <2>2. FileInv'
    BY <1>3, <1>f, <1>n, JobType DEF Close, FileInv, CallInv, TypeOK, OneFileEach, Unsettle, bounds
  <2>3. CallInv'
    BY <1>3, <1>f, <1>n, JobType DEF Close, CallInv, TypeOK, OneFileEach, Unsettle, bounds
  <2>4. SureInv'
    BY <1>3, <1>f, <1>n, JobType DEF Close, SureInv, TypeOK, OneFileEach, Unsettle, bounds
  <2> QED
    BY <2>1, <2>2, <2>3, <2>4
<1>4. CASE StoreSealed
  <2>1. CacheInv'
    BY <1>4, <1>f, <1>n, JobType DEF StoreSealed, CacheInv, TypeOK, OneFileEach, Ready, Sealed, vault, history
  <2>2. FileInv'
    BY <1>4, <1>f, <1>n, JobType DEF StoreSealed, FileInv, TypeOK, OneFileEach, Ready, Sealed, vault, history
  <2>3. CallInv'
    BY <1>4, <1>f, <1>n, JobType DEF StoreSealed, CallInv, TypeOK, OneFileEach, Ready, Sealed, vault, history
  <2>4. SureInv'
    BY <1>4, <1>f, <1>n, JobType DEF StoreSealed, SureInv, TypeOK, OneFileEach, Ready, Sealed, vault, history
  <2> QED
    BY <2>1, <2>2, <2>3, <2>4
<1>5. CASE StoreEncrypted
  <2>1. CacheInv'
    BY <1>5, <1>f, <1>n, JobType DEF StoreEncrypted, CacheInv, TypeOK, OneFileEach, Ready, Encrypted, history, call
  <2>2. FileInv'
    BY <1>5, <1>f, <1>n, JobType DEF StoreEncrypted, FileInv, TypeOK, OneFileEach, Ready, Encrypted, history, call
  <2>3. CallInv'
    BY <1>5, <1>f, <1>n, JobType DEF StoreEncrypted, CallInv, TypeOK, OneFileEach, Ready, Encrypted, history, call
  <2>4. SureInv'
    BY <1>5, <1>f, <1>n, JobType DEF StoreEncrypted, SureInv, TypeOK, OneFileEach, Ready, Encrypted, history, call
  <2> QED
    BY <2>1, <2>2, <2>3, <2>4
<1>6. CASE Truncate
  <2>1. CacheInv'
    BY <1>6, <1>f, <1>n, JobType DEF Truncate, CacheInv, TypeOK, OneFileEach, vault, history
  <2>2. FileInv'
    BY <1>6, <1>f, <1>n, JobType DEF Truncate, FileInv, TypeOK, OneFileEach, vault, history
  <2>3. CallInv'
    BY <1>6, <1>f, <1>n, JobType DEF Truncate, CallInv, TypeOK, OneFileEach, vault, history
  <2>4. SureInv'
    BY <1>6, <1>f, <1>n, JobType DEF Truncate, SureInv, TypeOK, OneFileEach, vault, history
  <2> QED
    BY <2>1, <2>2, <2>3, <2>4
<1>7. CASE Write
  <2>1. CacheInv'
    BY <1>7, <1>f, <1>n, JobType DEF Write, CacheInv, CallInv, TypeOK, OneFileEach, vault, history
  <2>2. FileInv'
    BY <1>7, <1>f, <1>n, JobType DEF Write, FileInv, TypeOK, OneFileEach, vault, history
  <2>3. CallInv'
    BY <1>7, <1>f, <1>n, JobType DEF Write, CallInv, TypeOK, OneFileEach, vault, history
  <2>4. SureInv'
    BY <1>7, <1>f, <1>n, JobType DEF Write, SureInv, TypeOK, OneFileEach, vault, history
  <2> QED
    BY <2>1, <2>2, <2>3, <2>4
<1>8. CASE StoreReturns
  <2>1. CacheInv'
    BY <1>8, <1>f, <1>n, JobType DEF StoreReturns, CacheInv, CallInv, TypeOK, OneFileEach
  <2>2. FileInv'
    BY <1>8, <1>f, <1>n, JobType DEF StoreReturns, FileInv, CallInv, TypeOK, OneFileEach
  <2>3. CallInv'
    BY <1>8, <1>f, <1>n, JobType DEF StoreReturns, CallInv, TypeOK, OneFileEach
  <2>4. SureInv'
    BY <1>8, <1>f, <1>n, JobType DEF StoreReturns, SureInv, TypeOK, OneFileEach
  <2> QED
    BY <2>1, <2>2, <2>3, <2>4
<1>9. CASE StoreFails
  <2>1. CacheInv'
    BY <1>9, <1>f, <1>n, JobType DEF StoreFails, CacheInv, TypeOK, OneFileEach, vault, Unsettle
  <2>2. FileInv'
    BY <1>9, <1>f, <1>n, JobType DEF StoreFails, FileInv, CallInv, TypeOK, OneFileEach, vault, Unsettle
  <2>3. CallInv'
    BY <1>9, <1>f, <1>n, JobType DEF StoreFails, CallInv, TypeOK, OneFileEach, vault, Unsettle
  <2>4. SureInv'
    BY <1>9, <1>f, <1>n, JobType DEF StoreFails, SureInv, TypeOK, OneFileEach, vault, Unsettle
  <2> QED
    BY <2>1, <2>2, <2>3, <2>4
<1>10. CASE Load
  <2>1. CacheInv'
    <3>1. PICK id \in Ids : /\ pc = "ready"
                            /\ \E r \in Reads(disk[filename(id)]) :
                                 cache' = [cache EXCEPT ![id] = r.secret]
                            /\ UNCHANGED <<disk, password, may>>
                            /\ disk[filename(id)] # None
      BY <1>10 DEF Load, Ready, history
    <3>2. PICK r \in Reads(disk[filename(id)]) : cache' = [cache EXCEPT ![id] = r.secret]
      BY <3>1
    <3>3. r.secret # None =>
            /\ r.secret \in may[id]
            /\ disk[filename(id)].kind = "enc" => disk[filename(id)].key = password
      <4> DEFINE b == disk[filename(id)]
      <4>1. r.secret # None =>
              /\ b \in Blobs /\ r.secret = b.secret
              /\ b.kind = "enc" => b.key = password
        BY <3>2, ReadsType
      <4>2. b \in Blobs => b.secret \in may[id]
        BY <3>1 DEF FileInv
      <4> QED
        BY <4>1, <4>2
    <3> QED
      BY <3>1, <3>2, <3>3 DEF CacheInv, TypeOK
  <2>2. FileInv'
    BY <1>10, <1>f, <1>n, JobType DEF Load, FileInv, TypeOK, OneFileEach, Ready, call, history
  <2>3. CallInv'
    BY <1>10, <1>f, <1>n, JobType DEF Load, CallInv, TypeOK, OneFileEach, Ready, call, history
  <2>4. SureInv'
    BY <1>10, <1>f, <1>n, JobType DEF Load, SureInv, TypeOK, OneFileEach, Ready, call, history
  <2> QED
    BY <2>1, <2>2, <2>3, <2>4
<1>11. CASE TpmFails
  <2>1. CacheInv'
    BY <1>11, <1>f, <1>n, JobType DEF TpmFails, CacheInv, TypeOK, OneFileEach, vault, call, history
  <2>2. FileInv'
    BY <1>11, <1>f, <1>n, JobType DEF TpmFails, FileInv, TypeOK, OneFileEach, vault, call, history
  <2>3. CallInv'
    BY <1>11, <1>f, <1>n, JobType DEF TpmFails, CallInv, TypeOK, OneFileEach, vault, call, history
  <2>4. SureInv'
    BY <1>11, <1>f, <1>n, JobType DEF TpmFails, SureInv, TypeOK, OneFileEach, vault, call, history
  <2> QED
    BY <2>1, <2>2, <2>3, <2>4
<1>12. CASE Delete
  <2>1. CacheInv'
    BY <1>12, <1>f, <1>n, JobType DEF Delete, CacheInv, TypeOK, OneFileEach, Ready, call
  <2>2. FileInv'
    BY <1>12, <1>f, <1>n, JobType DEF Delete, FileInv, TypeOK, OneFileEach, Ready, call
  <2>3. CallInv'
    BY <1>12, <1>f, <1>n, JobType DEF Delete, CallInv, TypeOK, OneFileEach, Ready, call
  <2>4. SureInv'
    BY <1>12, <1>f, <1>n, JobType DEF Delete, SureInv, TypeOK, OneFileEach, Ready, call
  <2> QED
    BY <2>1, <2>2, <2>3, <2>4
<1>13. CASE DeleteFails
  <2>1. CacheInv'
    BY <1>13, <1>f, <1>n, JobType DEF DeleteFails, CacheInv, TypeOK, OneFileEach, Ready, call, history
  <2>2. FileInv'
    BY <1>13, <1>f, <1>n, JobType DEF DeleteFails, FileInv, TypeOK, OneFileEach, Ready, call, history
  <2>3. CallInv'
    BY <1>13, <1>f, <1>n, JobType DEF DeleteFails, CallInv, TypeOK, OneFileEach, Ready, call, history
  <2>4. SureInv'
    BY <1>13, <1>f, <1>n, JobType DEF DeleteFails, SureInv, TypeOK, OneFileEach, Ready, call, history
  <2> QED
    BY <2>1, <2>2, <2>3, <2>4
<1>14. CASE UNCHANGED vars
  BY <1>14 DEF vars, vault, call, history, CacheInv, FileInv, CallInv, SureInv
<1> QED
  BY <1>1, <1>2, <1>3, <1>4, <1>5, <1>6, <1>7, <1>8, <1>9, <1>10, <1>11, <1>12, <1>13,
     <1>14 DEF Next

\* StoredInv holds throughout when no two ids share a file.
LEMMA StoredAlways ==
  ASSUME OneFileEach
  PROVE  Spec => [](TypeOK /\ StoredInv)
<1>1. Init => StoredInv
  BY NoneAssumption, ContentAssumption
     DEF Init, StoredInv, CacheInv, FileInv, CallInv, SureInv, Files
<1>2. TypeOK /\ StoredInv /\ [Next]_vars => StoredInv'
  BY StoredStep
<1> QED
  BY <1>1, <1>2, TypeCorrect, PTL DEF Spec

\* What a load returns, from the cache or the file.
LEMMA LoadsFrom ==
  ASSUME TypeOK, NEW id \in Ids, NEW s \in Loads(id), s # None
  PROVE  \/ cache[id] = s
         \/ LET b == disk[filename(id)] IN
              /\ cache[id] = None /\ b \in Blobs /\ s = b.secret
              /\ b.kind = "enc" => b.key = password
<1>1. CASE cache[id] # None
  BY <1>1 DEF Loads
<1>2. CASE cache[id] = None
  <2> DEFINE b == disk[filename(id)]
  <2>1. PICK r \in Reads(b) : r.secret = s
    BY <1>2 DEF Loads
  <2>2. b \in Blobs /\ s = b.secret /\ (b.kind = "enc" => b.key = password)
    <3> HIDE DEF b
    <3> QED
      BY <2>1, ReadsType
  <2> QED
    BY <1>2, <2>2
<1> QED
  BY <1>1, <1>2

\* A load returns what was stored under its id, if no two ids share a file: for all
\* crashes, failing calls and changes of the device.
THEOREM LoadsWhatWasStored ==
  ASSUME OneFileEach
  PROVE  Spec => []LoadReturnsStored
<1>1. TypeOK /\ StoredInv => LoadReturnsStored
  <2> SUFFICES ASSUME TypeOK, StoredInv, Ready, NEW id \in Ids, NEW s \in Loads(id), s # None
               PROVE  s \in may[id]
    BY DEF LoadReturnsStored
  <2> QED
    BY LoadsFrom DEF StoredInv, CacheInv, FileInv, Ready
<1> QED
  BY <1>1, StoredAlways, PTL

\* No vault gives out what is encrypted under another password.
THEOREM OtherPasswordsFail ==
  ASSUME OneFileEach
  PROVE  Spec => []PasswordProtects
<1>1. TypeOK /\ StoredInv => PasswordProtects
  <2> SUFFICES ASSUME TypeOK, StoredInv, Ready, NEW id \in Ids,
                      disk[filename(id)] \in Blobs, disk[filename(id)].kind = "enc",
                      disk[filename(id)].key # password
               PROVE  Loads(id) = {None}
    BY DEF PasswordProtects
  <2>1. cache[id] = None
    BY DEF StoredInv, CacheInv
  <2>2. \A s \in Loads(id) : s = None
    BY <2>1, LoadsFrom
  <2>3. Loads(id) # {}
    BY <2>1 DEF Loads, Reads
  <2> QED
    BY <2>2, <2>3
<1> QED
  BY <1>1, StoredAlways, PTL

\* A secret that was stored is loaded wherever its file can be read.
THEOREM StoredIsLoaded ==
  ASSUME OneFileEach
  PROVE  Spec => []StoredLoads
<1>1. TypeOK /\ StoredInv => StoredLoads
  <2> SUFFICES ASSUME TypeOK, StoredInv, Ready, NEW id \in sure, Readable(disk[filename(id)])
               PROVE  Loads(id) = may[id]
    BY DEF StoredLoads
  <2> DEFINE b == disk[filename(id)]
  <2>1. id \in Ids /\ b \in Blobs /\ b.secret \in Secrets /\ b # None /\ b # Torn
    BY ContentAssumption, BlobType DEF TypeOK, Readable
  <2>2. \A s \in Loads(id) : s # None
    <3>1. CASE uses_tpm /\ device
      BY <2>1, <3>1, NoneAssumption DEF Loads, Reads, Readable
    <3>2. CASE ~(uses_tpm /\ device)
      <4>1. Reads(b) = {[secret |-> b.secret, tpm |-> FALSE]}
        BY <2>1, <3>2 DEF Reads, Readable, Decrypt
      <4> QED
        BY <2>1, <4>1, NoneAssumption DEF Loads
    <3> QED
      BY <3>1, <3>2
  <2>3. Loads(id) \subseteq may[id]
    BY <2>1, <2>2, LoadsFrom DEF StoredInv, CacheInv, FileInv, Ready
  <2>4. Loads(id) # {}
    BY <2>1 DEF Loads, Reads
  <2>5. PICK s : may[id] = {s}
    BY DEF StoredInv, SureInv
  <2> QED
    BY <2>3, <2>4, <2>5
<1> QED
  BY <1>1, StoredAlways, PTL

-----------------------------------------------------------------------------
(* What is listed has a file *)

LEMMA PlainNamesApart == PlainNames => OneFileEach
<1> SUFFICES ASSUME PlainNames, NEW i \in Ids, NEW j \in Ids, filename(i) = filename(j)
             PROVE  i = j
  BY DEF OneFileEach
<1>1. i \in [custom : BOOLEAN, stem : STRING, suffixes : Nat] /\ j \in [custom : BOOLEAN, stem : STRING, suffixes : Nat]
  BY NoneAssumption
<1>2. i.stem = j.stem
  BY DEF filename
<1>3. i.suffixes = 0 /\ j.suffixes = 0 /\ i.custom = j.custom
  BY <1>1, <1>2 DEF PlainNames
<1> QED
  BY <1>1, <1>2, <1>3

\* The custom id that a file's name gives back is the one the file was named after.
LEMMA CustomOfFile ==
  ASSUME PlainNames, NEW id \in Ids
  PROVE  /\ filename(id).stem = id.stem
         /\ id.custom => CustomOf(filename(id)) = id
<1>1. id \in [custom : BOOLEAN, stem : STRING, suffixes : Nat]
  BY NoneAssumption
<1>2. filename(id).stem = id.stem
  BY DEF filename
<1>3. ASSUME id.custom PROVE CustomOf(filename(id)) = id
  <2>1. id.custom = TRUE /\ id.suffixes = 0
    BY <1>1, <1>3 DEF PlainNames
  <2>2. CustomOf(filename(id)) = [custom |-> TRUE, stem |-> id.stem, suffixes |-> 0]
    BY <1>2 DEF CustomOf
  <2> QED
    BY <1>1, <2>1, <2>2
<1> QED
  BY <1>2, <1>3

\* list_secrets, which looks for a fixed id in cache and file and for the custom ones in the
\* directory, lists the ids that have a file, if the custom secrets are named unlike the
\* fixed ones and unlike files: across crashes, failing calls and deletions.
THEOREM ListsWhatHasFiles ==
  ASSUME PlainNames
  PROVE  Spec => []ListIsExact
<1>1. TypeOK /\ StoredInv => ListIsExact
  <2> SUFFICES ASSUME StoredInv
               PROVE  list_secrets = {id \in Ids : disk[filename(id)] # None}
    BY DEF ListIsExact
  <2> DEFINE Stored == {id \in Ids : disk[filename(id)] # None}
             Found  == {g \in Files : disk[g] # None /\ g.stem \notin FixedStems}
  <2>1. \A id \in Ids : exists(id) <=> disk[filename(id)] # None
    BY DEF exists, StoredInv, CacheInv
  <2>2. \A f \in Found : CustomOf(f) \in Stored
    <3> SUFFICES ASSUME NEW f \in Found PROVE CustomOf(f) \in Stored
      OBVIOUS
    <3>1. PICK id \in Ids : f = filename(id)
      BY DEF Files
    <3>2. id.custom
      BY <3>1, CustomOfFile DEF PlainNames
    <3> QED
      BY <3>1, <3>2, CustomOfFile
  <2>3. \A id \in Stored : id.custom => \E f \in Found : id = CustomOf(f)
    <3> SUFFICES ASSUME NEW id \in Stored, id.custom PROVE \E f \in Found : id = CustomOf(f)
      OBVIOUS
    <3>1. filename(id) \in Files /\ filename(id).stem \notin FixedStems
      BY CustomOfFile DEF Files, PlainNames
    <3> QED
      BY <3>1, CustomOfFile
  <2>4. list_secrets = {id \in Ids : ~id.custom /\ exists(id)} \cup {CustomOf(f) : f \in Found}
    BY DEF list_secrets
  <2> QED
    BY <2>1, <2>2, <2>3, <2>4
<1> QED
  BY <1>1, PlainNamesApart, StoredAlways, PTL
=============================================================================
