----------------------------- MODULE SharedVault -----------------------------
(***************************************************************************)
(* One directory of secrets under several processes, each with a Vault of  *)
(* its own: src/src/vault.rs over encrypt_to_file of src/src/crypto.rs.    *)
(* Nothing locks the files, and a vault never drops what it has cached.    *)
(*                                                                         *)
(* All vaults have the same password and no TPM (Vault.tla has the rest).  *)
(* A file holds a whole secret, nothing yet (Blank), or pieces (Torn): two *)
(* writers of a file leave the one's bytes over the other's.  A file that  *)
(* is deleted while a writer has it open takes what is written with it.    *)
(***************************************************************************)
EXTENDS Naturals, FiniteSets

CONSTANTS
  Procs,     \* the processes
  Ids,       \* the SecretIds, each with a file of its own
  None,      \* no file, no entry, no call
  Blank, Torn, \* the content of a file just truncated, and of a mix or a part
  Unknown,   \* no promise about a file
  MaxChanges, \* bound: calls of store and delete
  MaxFaults   \* bound: writes that fail and processes that die

ASSUME SharedBoundsAssumption == MaxChanges \in Nat /\ MaxFaults \in Nat

\* A store that is the n-th change stores secret n.
Secrets == 1..MaxChanges

ASSUME MarksAssumption ==
  /\ {None, Blank, Torn, Unknown} \cap Nat = {}
  /\ None \notin Ids /\ None # Blank /\ None # Torn /\ Blank # Torn
  /\ Unknown \notin {None, Blank, Torn}

VARIABLES
  disk,      \* the content of each id's file
  cache,     \* cache[p][id]: what p's vault has in memory
  call,      \* call[p]: the call of store p is in
  changes, faults,
  \* history, read by no action:
  alone,     \* the processes whose store has had its file to itself so far
  kept,      \* kept[id]: what the file must hold, Unknown while calls overlap or fail
  touched    \* <<p, id>>: the file may have changed since p cached the secret

calls   == <<call, changes>>
traces  == <<alone, kept, touched>>
shared  == <<disk, cache, calls, faults, traces>>

NoCall == [id |-> None, secret |-> None, linked |-> FALSE]
Free(p) == call[p] = NoCall
Writers(id) == {p \in Procs : call[p].id = id /\ call[p].linked}

SharedInit ==
  /\ disk = [id \in Ids |-> None]
  /\ cache = [p \in Procs |-> [id \in Ids |-> None]]
  /\ call = [p \in Procs |-> NoCall] /\ changes = 0
  /\ faults = 0
  /\ alone = {} /\ kept = [id \in Ids |-> None] /\ touched = {}

-----------------------------------------------------------------------------
(* store *)

Begins(p, id) ==
  /\ Free(p)
  /\ changes < MaxChanges /\ changes' = changes + 1
  /\ call' = [call EXCEPT ![p] =
       [id |-> id, secret |-> changes + 1, linked |-> TRUE]]
  /\ alone' = IF Writers(id) = {} THEN alone \cup {p} ELSE alone \ Writers(id)
  /\ kept' = [kept EXCEPT ![id] = Unknown]
  /\ touched' = touched \cup (Procs \X {id})
  /\ UNCHANGED <<cache, faults>>

\* Mutant: the file is opened as it is.
OpenWhole(p, id) ==
  /\ Begins(p, id)
  /\ disk' = [disk EXCEPT ![id] = IF @ = None THEN Blank ELSE @]

\* The secret is encrypted, and the file opened with truncate(true).
Open(p, id) ==
  /\ Begins(p, id)
  /\ disk' = [disk EXCEPT ![id] = Blank]

\* What a write can leave: the file's own new content, unless another has written to
\* the file since it was truncated.
Outcomes(p) == IF disk[call[p].id] = Blank THEN {call[p].secret} ELSE {call[p].secret, Torn}

\* The file is written and synced, and the secret cached.
StoreReturns(p) ==
  LET id == call[p].id IN
  /\ ~Free(p)
  /\ cache' = [cache EXCEPT ![p][id] = call[p].secret]
  /\ call' = [call EXCEPT ![p] = NoCall]
  /\ IF call[p].linked
       THEN /\ \E content \in Outcomes(p) : disk' = [disk EXCEPT ![id] = content]
            /\ touched' = (touched \cup (Procs \X {id}))
                             \ (IF p \in alone THEN {<<p, id>>} ELSE {})
       ELSE UNCHANGED <<disk, touched>>
  /\ kept' = IF p \in alone THEN [kept EXCEPT ![id] = call[p].secret] ELSE kept
  /\ alone' = alone \ {p}
  /\ UNCHANGED <<changes, faults>>

\* The write is cut short, or the sync fails: store returns the error, the cache stays.
StoreFails(p) ==
  LET id == call[p].id IN
  /\ ~Free(p)
  /\ faults < MaxFaults /\ faults' = faults + 1
  /\ call' = [call EXCEPT ![p] = NoCall]
  /\ IF call[p].linked
       THEN /\ \E content \in Outcomes(p) \cup {Torn} : disk' = [disk EXCEPT ![id] = content]
            /\ touched' = touched \cup (Procs \X {id})
       ELSE UNCHANGED <<disk, touched>>
  /\ alone' = alone \ {p}
  /\ UNCHANGED <<cache, changes, kept>>

-----------------------------------------------------------------------------
(* load and delete *)

\* What load returns: the cached secret, or the one in the file; None for an error.
Found(p, id) ==
  IF cache[p][id] # None THEN cache[p][id]
  ELSE IF disk[id] \in Secrets THEN disk[id] ELSE None

\* load caches what it reads.
Reads(p, id) ==
  /\ cache' = [cache EXCEPT ![p][id] = Found(p, id)]
  /\ touched' = IF cache[p][id] = None /\ Found(p, id) # None
                  THEN touched \ {<<p, id>>} ELSE touched

Load(p, id) ==
  /\ Free(p)
  /\ Reads(p, id)
  /\ UNCHANGED <<disk, calls, faults, alone, kept>>

Unlinks(id) ==
  /\ changes < MaxChanges /\ changes' = changes + 1
  /\ disk' = [disk EXCEPT ![id] = None]
  /\ call' = [p \in Procs |-> IF p \in Writers(id) THEN [call[p] EXCEPT !.linked = FALSE]
                              ELSE call[p]]
  /\ alone' = alone \ Writers(id)
  /\ kept' = [kept EXCEPT ![id] = None]
  /\ touched' = touched \cup (Procs \X {id})
  /\ UNCHANGED faults

\* Mutant: the cache keeps what is deleted, and counts as the file's.
DeleteCached(p, id) ==
  /\ Free(p)
  /\ changes < MaxChanges /\ changes' = changes + 1
  /\ disk' = [disk EXCEPT ![id] = None]
  /\ kept' = [kept EXCEPT ![id] = None]
  /\ touched' = touched \cup ((Procs \ {p}) \X {id})
  /\ UNCHANGED <<cache, call, faults, alone>>

\* The entry goes first, then the file.
Delete(p, id) ==
  /\ Free(p)
  /\ cache' = [cache EXCEPT ![p][id] = None]
  /\ Unlinks(id)

\* The process dies, perhaps with a file half written, and starts anew.
Die(p) ==
  /\ faults < MaxFaults /\ faults' = faults + 1
  /\ cache' = [cache EXCEPT ![p] = [id \in Ids |-> None]]
  /\ call' = [call EXCEPT ![p] = NoCall]
  /\ alone' = alone \ {p}
  /\ IF call[p].linked
       THEN /\ \E content \in Outcomes(p) \cup {disk[call[p].id], Torn} :
                 disk' = [disk EXCEPT ![call[p].id] = content]
            /\ touched' = touched \cup (Procs \X {call[p].id})
       ELSE UNCHANGED <<disk, touched>>
  /\ UNCHANGED <<changes, kept>>

-----------------------------------------------------------------------------
(* Properties *)

SharedTypeOK ==
  /\ disk \in [Ids -> Secrets \cup {None, Blank, Torn}]
  /\ cache \in [Procs -> [Ids -> Secrets \cup {None}]]
  /\ call \in [Procs -> [id : Ids, secret : Secrets, linked : BOOLEAN] \cup {NoCall}]
  /\ changes \in 0..MaxChanges /\ faults \in Nat
  /\ alone \subseteq Procs
  /\ kept \in [Ids -> Secrets \cup {None, Unknown}]
  /\ touched \subseteq Procs \X Ids

\* A store that returned with its file to itself is what the file holds, and a deleted
\* file stays deleted, until another store of the id begins: whatever stores before it
\* overlapped, failed or died, and whatever a writer still does to a deleted file.
LastStoreIsKept == \A id \in Ids : kept[id] # Unknown => disk[id] = kept[id]

\* A vault's memory is the file's content as long as nobody has touched the file since:
\* the process's own failed and deleted secrets included.
CacheIsFile ==
  \A p \in Procs, id \in Ids :
    cache[p][id] # None /\ <<p, id>> \notin touched => disk[id] = cache[p][id]
=============================================================================
