----------------------- MODULE PaymentProcessorProofs -----------------------
(***************************************************************************)
(* Proofs about PaymentProcessor, for any number of processes, secrets and *)
(* changes: types, what the shared files and the caches hold, what the     *)
(* wallets and Stripe processors were made from, and which webhooks pass.  *)
(***************************************************************************)
EXTENDS PaymentProcessor, WellFoundedInduction, TLAPS

\* A store that has had its file to itself is its only writer, and the file is still
\* as store has truncated it.
AloneWrites ==
  \A p \in alone : /\ call[p] # NoCall /\ call[p].linked
                   /\ \A q \in Procs : call[q].id = call[p].id /\ call[q].linked => q = p
                   /\ disk[call[p].id] = Blank

\* Nobody is writing a file that something is promised about.
KeptRests == \A id \in Ids, p \in Procs :
  kept[id] # Unknown => ~(call[p].id = id /\ call[p].linked)

\* A vault in store counts its file as touched.
CallsTouch == \A p \in Procs : call[p] # NoCall => <<p, call[p].id>> \in touched

\* The secret key of a Stripe processor being made is the cached one.
MakingIsCached ==
  \A p \in Procs : making[p] # None => making[p] = cache[p][StripeSecretKey]

\* What TypeOK says of the processor's own fields.
OwnType ==
  /\ polkadot \in [Procs -> (Secrets \ BadSeeds) \cup {None}]
  /\ stripe \in [Procs -> [key : Secrets \cup {None}, webhook : Secrets \cup {None}]]
  /\ making \in [Procs -> Secrets \cup {None}]
  /\ \A p \in Procs : making[p] # None => Free(p)
  /\ replaced \subseteq Procs \X Ids

\* MadeFromVault, secret by secret.
SeedMade == \A p \in Procs :
  polkadot[p] # None /\ <<p, WalletSeed>> \notin replaced => polkadot[p] = cache[p][WalletSeed]
KeyMade == \A p \in Procs :
  stripe[p].key # None /\ <<p, StripeSecretKey>> \notin replaced
    => stripe[p].key = cache[p][StripeSecretKey]
WebhookMade == \A p \in Procs :
  stripe[p].webhook # None /\ <<p, StripeWebhookSecret>> \notin replaced
    => stripe[p].webhook = cache[p][StripeWebhookSecret]
MadeParts == SeedMade /\ KeyMade /\ WebhookMade

FilesInv == SharedTypeOK /\ AloneWrites /\ KeptRests /\ CallsTouch /\ LastStoreIsKept /\ CacheIsFile

IInv == FilesInv /\ OwnType /\ MakingIsCached /\ MadeParts

-----------------------------------------------------------------------------

LEMMA Marks ==
  /\ None \notin Secrets /\ Blank \notin Secrets /\ Torn \notin Secrets /\ Unknown \notin Secrets
  /\ None \notin Ids /\ None # Blank /\ None # Torn /\ Blank # Torn
  /\ Unknown # None /\ Unknown # Blank /\ Unknown # Torn
  /\ NoCall.id = None /\ NoCall.linked = FALSE
BY MarksAssumption, SharedBoundsAssumption DEF Secrets, NoCall

LEMMA FilesInit == SharedInit => FilesInv
BY Marks, SharedBoundsAssumption
DEF SharedInit, FilesInv, SharedTypeOK, AloneWrites, KeptRests, CallsTouch, LastStoreIsKept,
    CacheIsFile

\* What a store leaves when it had its file to itself.
LEMMA AloneOutcome ==
  ASSUME FilesInv, NEW p \in alone
  PROVE  Outcomes(p) = {call[p].secret}
BY DEF FilesInv, AloneWrites, Outcomes

LEMMA OpenStep ==
  ASSUME FilesInv, NEW p \in Procs, NEW id \in Ids, Open(p, id)
  PROVE  FilesInv'
<1> USE Marks DEF FilesInv
<1>c. /\ call \in [Procs -> [id : Ids, secret : Secrets, linked : BOOLEAN] \cup {NoCall}]
      /\ call[p] = NoCall
      /\ call' = [call EXCEPT ![p] = [id |-> id, secret |-> changes + 1, linked |-> TRUE]]
      /\ changes + 1 \in Secrets /\ changes' = changes + 1 /\ changes' \in 0..MaxChanges
  BY SharedBoundsAssumption DEF Open, Begins, Free, SharedTypeOK, Secrets
<1>n. call'[p] # NoCall /\ call'[p].id = id /\ call'[p].linked
  BY <1>c
<1>o. \A q \in Procs : q # p => call'[q] = call[q]
  BY <1>c
<1>w. Writers(id) \subseteq Procs
  BY DEF Writers
<1>1. SharedTypeOK'
  BY <1>c, <1>w DEF Open, Begins, SharedTypeOK
<1>2. AloneWrites'
  <2> SUFFICES ASSUME NEW q \in alone'
               PROVE  /\ call'[q] # NoCall /\ call'[q].linked
                      /\ \A r \in Procs : call'[r].id = call'[q].id /\ call'[r].linked => r = q
                      /\ disk'[call'[q].id] = Blank
    BY DEF AloneWrites
  <2>d. disk' = [disk EXCEPT ![id] = Blank] /\ disk \in [Ids -> Secrets \cup {None, Blank, Torn}]
    BY DEF Open, SharedTypeOK
  <2>0. q \in Procs
    BY <1>1 DEF SharedTypeOK
  <2>1. CASE q = p
    <3>1. p \notin alone
      BY <1>c DEF AloneWrites
    <3>2. Writers(id) = {}
      BY <2>1, <3>1 DEF Open, Begins
    <3> QED BY <3>2, <2>1, <1>n, <1>o, <2>d DEF Writers
  <2>2. CASE q # p
    <3>1. q \in alone /\ q \notin Writers(id)
      <4>1. CASE Writers(id) = {} BY <4>1, <2>2 DEF Open, Begins
      <4>2. CASE Writers(id) # {} BY <4>2, <2>2 DEF Open, Begins
      <4> QED BY <4>1, <4>2
    <3>2. call[q].id # id /\ call[q].id \in Ids /\ call'[q] = call[q]
      BY <3>1, <2>0, <2>2, <1>c, <1>o DEF Writers, AloneWrites
    <3> QED BY <3>1, <3>2, <1>n, <1>o, <2>d DEF AloneWrites
  <2> QED BY <2>1, <2>2
<1>3. KeptRests'
  <2>1. kept' = [kept EXCEPT ![id] = Unknown] /\ kept \in [Ids -> Secrets \cup {None, Unknown}]
    BY DEF Open, Begins, SharedTypeOK
  <2> QED BY <2>1, <1>n, <1>o DEF KeptRests
<1>4. CallsTouch'
  <2>1. touched' = touched \cup (Procs \X {id})
    BY DEF Open, Begins
  <2> QED BY <2>1, <1>n, <1>o DEF CallsTouch
<1>5. LastStoreIsKept'
  <2>1. kept' = [kept EXCEPT ![id] = Unknown] /\ kept \in [Ids -> Secrets \cup {None, Unknown}]
    BY DEF Open, Begins, SharedTypeOK
  <2>2. disk' = [disk EXCEPT ![id] = Blank] /\ disk \in [Ids -> Secrets \cup {None, Blank, Torn}]
    BY DEF Open, SharedTypeOK
  <2> QED BY <2>1, <2>2 DEF LastStoreIsKept
<1>6. CacheIsFile'
  <2>1. touched' = touched \cup (Procs \X {id}) /\ cache' = cache
    BY DEF Open, Begins
  <2>2. disk' = [disk EXCEPT ![id] = Blank] /\ disk \in [Ids -> Secrets \cup {None, Blank, Torn}]
    BY DEF Open, SharedTypeOK
  <2> QED BY <2>1, <2>2 DEF CacheIsFile
<1> QED BY <1>1, <1>2, <1>3, <1>4, <1>5, <1>6

\* A vault leaves store in a way that promises nothing: whatever is in its file then,
\* and in its memory of that secret.
LEMMA LeavesStep ==
  ASSUME FilesInv, NEW p \in Procs, SharedTypeOK',
         call' = [call EXCEPT ![p] = NoCall], alone' = alone \ {p}, kept' = kept,
         \A q \in Procs, i \in Ids :
           cache'[q][i] # None => cache'[q][i] = cache[q][i] \/ (q = p /\ i = call[p].id),
         \/ /\ call[p].linked
            /\ \E content \in Secrets \cup {None, Blank, Torn} :
                 disk' = [disk EXCEPT ![call[p].id] = content]
            /\ touched' = touched \cup (Procs \X {call[p].id})
         \/ UNCHANGED <<disk, touched>>
  PROVE  FilesInv'
<1> USE Marks DEF FilesInv
<1> DEFINE i == call[p].id
<1>c. /\ call \in [Procs -> [id : Ids, secret : Secrets, linked : BOOLEAN] \cup {NoCall}]
      /\ call'[p] = NoCall /\ \A q \in Procs : q # p => call'[q] = call[q]
  BY DEF SharedTypeOK
<1>i. call[p] # NoCall => i \in Ids
  BY <1>c
<1>l. call[p].linked => call[p] # NoCall
  OBVIOUS
<1>d. \A j \in Ids : j # i \/ ~call[p].linked => disk'[j] = disk[j]
  BY DEF SharedTypeOK
<1>t. touched \subseteq touched'
  OBVIOUS
<1>1. AloneWrites'
  <2> SUFFICES ASSUME NEW q \in alone'
               PROVE  /\ call'[q] # NoCall /\ call'[q].linked
                      /\ \A r \in Procs : call'[r].id = call'[q].id /\ call'[r].linked => r = q
                      /\ disk'[call'[q].id] = Blank
    BY DEF AloneWrites
  <2>1. q \in alone /\ q # p /\ q \in Procs /\ call'[q] = call[q]
    BY <1>c DEF SharedTypeOK
  <2>2. call[q].id \in Ids /\ (call[q].id # i \/ ~call[p].linked)
    BY <2>1, <1>c DEF AloneWrites
  <2> QED BY <2>1, <2>2, <1>c, <1>d DEF AloneWrites
<1>2. KeptRests'
  BY <1>c DEF KeptRests
<1>3. CallsTouch'
  BY <1>c, <1>t DEF CallsTouch
<1>4. LastStoreIsKept'
  <2> SUFFICES ASSUME NEW j \in Ids, kept[j] # Unknown PROVE disk'[j] = kept[j]
    BY DEF LastStoreIsKept
  <2>1. j # i \/ ~call[p].linked
    BY DEF KeptRests
  <2> QED BY <2>1, <1>d DEF LastStoreIsKept
<1>5. CacheIsFile'
  <2> SUFFICES ASSUME NEW q \in Procs, NEW j \in Ids, cache'[q][j] # None, <<q, j>> \notin touched'
               PROVE  disk'[j] = cache'[q][j]
    BY DEF CacheIsFile
  <2>1. <<q, j>> \notin touched
    BY <1>t
  <2>2. ~(q = p /\ j = i)
    <3>1. CASE call[p] = NoCall BY <3>1
    <3>2. CASE call[p] # NoCall BY <3>2, <2>1 DEF CallsTouch
    <3> QED BY <3>1, <3>2
  <2>3. cache'[q][j] = cache[q][j]
    BY <2>2
  <2>4. disk'[j] = disk[j]
    <3>1. CASE UNCHANGED <<disk, touched>> BY <3>1
    <3>2. CASE touched' = touched \cup (Procs \X {i})
      <4>1. j # i BY <3>2
      <4> QED BY <4>1, <1>d
    <3> QED BY <3>1, <3>2
  <2> QED BY <2>1, <2>3, <2>4 DEF CacheIsFile
<1> QED BY <1>1, <1>2, <1>3, <1>4, <1>5

\* What a call of store is.
LEMMA CallType ==
  ASSUME SharedTypeOK, NEW p \in Procs, call[p] # NoCall
  PROVE  call[p].id \in Ids /\ call[p].secret \in Secrets
BY DEF SharedTypeOK

LEMMA OutcomesType ==
  ASSUME SharedTypeOK, NEW p \in Procs, call[p] # NoCall
  PROVE  Outcomes(p) \subseteq Secrets \cup {None, Blank, Torn}
BY CallType DEF Outcomes

LEMMA StoreReturnsStep ==
  ASSUME FilesInv, NEW p \in Procs, StoreReturns(p)
  PROVE  FilesInv'
<1> USE Marks DEF FilesInv
<1> DEFINE i == call[p].id
<1>f. call[p] # NoCall
  BY DEF StoreReturns, Free
<1>c. i \in Ids /\ call[p].secret \in Secrets
  BY <1>f, CallType
<1>o. Outcomes(p) \subseteq Secrets \cup {None, Blank, Torn}
  BY <1>f, OutcomesType
<1>s. /\ cache' = [cache EXCEPT ![p][i] = call[p].secret]
      /\ call' = [call EXCEPT ![p] = NoCall] /\ alone' = alone \ {p}
      /\ changes' = changes /\ faults' = faults
      /\ kept' = IF p \in alone THEN [kept EXCEPT ![i] = call[p].secret] ELSE kept
  BY DEF StoreReturns
<1>e. IF call[p].linked
        THEN /\ \E content \in Outcomes(p) : disk' = [disk EXCEPT ![i] = content]
             /\ touched' = (touched \cup (Procs \X {i}))
                             \ (IF p \in alone THEN {<<p, i>>} ELSE {})
        ELSE disk' = disk /\ touched' = touched
  BY DEF StoreReturns
<1>1. SharedTypeOK'
  <2>1. cache' \in [Procs -> [Ids -> Secrets \cup {None}]]
    BY <1>s, <1>c DEF SharedTypeOK
  <2>2. kept' \in [Ids -> Secrets \cup {None, Unknown}]
    BY <1>s, <1>c DEF SharedTypeOK
  <2>3. disk' \in [Ids -> Secrets \cup {None, Blank, Torn}]
    BY <1>e, <1>o DEF SharedTypeOK
  <2>4. touched' \subseteq Procs \X Ids
    BY <1>e, <1>c DEF SharedTypeOK
  <2>5. call' \in [Procs -> [id : Ids, secret : Secrets, linked : BOOLEAN] \cup {NoCall}]
    BY <1>s DEF SharedTypeOK
  <2> QED BY <1>s, <2>1, <2>2, <2>3, <2>4, <2>5 DEF SharedTypeOK
<1>2. CASE p \notin alone
  <2>1. \A q \in Procs, j \in Ids :
          cache'[q][j] # None => cache'[q][j] = cache[q][j] \/ (q = p /\ j = i)
    BY <1>s DEF SharedTypeOK
  <2>2. \/ /\ call[p].linked
           /\ \E content \in Secrets \cup {None, Blank, Torn} : disk' = [disk EXCEPT ![i] = content]
           /\ touched' = touched \cup (Procs \X {i})
        \/ UNCHANGED <<disk, touched>>
    BY <1>e, <1>2, <1>o
  <2> QED BY <1>1, <1>2, <1>s, <2>1, <2>2, LeavesStep
<1>3. CASE p \in alone
  <2>1. /\ disk' = [disk EXCEPT ![i] = call[p].secret]
        /\ touched' = (touched \cup (Procs \X {i})) \ {<<p, i>>}
        /\ kept' = [kept EXCEPT ![i] = call[p].secret]
    BY <1>3, <1>s, <1>e, AloneOutcome DEF AloneWrites
  <2>2. \A q \in Procs : call[q].id = i /\ call[q].linked => q = p
    BY <1>3 DEF AloneWrites
  <2>3. call'[p] = NoCall /\ \A q \in Procs : q # p => call'[q] = call[q]
    BY <1>s DEF SharedTypeOK
  <2>4. AloneWrites'
    <3> SUFFICES ASSUME NEW q \in alone'
                 PROVE  /\ call'[q] # NoCall /\ call'[q].linked
                        /\ \A r \in Procs : call'[r].id = call'[q].id /\ call'[r].linked => r = q
                        /\ disk'[call'[q].id] = Blank
      BY DEF AloneWrites
    <3>1. q \in alone /\ q # p /\ q \in Procs /\ call'[q] = call[q] /\ call[q] # NoCall
      BY <1>s, <2>3 DEF SharedTypeOK, AloneWrites
    <3>2. call[q].id \in Ids /\ call[q].id # i
      BY <3>1, <2>2, CallType DEF AloneWrites
    <3>3. disk'[call[q].id] = disk[call[q].id]
      BY <2>1, <3>2 DEF SharedTypeOK
    <3> QED BY <3>1, <3>3, <2>3 DEF AloneWrites
  <2>5. KeptRests'
    <3> SUFFICES ASSUME NEW j \in Ids, NEW q \in Procs, kept'[j] # Unknown
                 PROVE  ~(call'[q].id = j /\ call'[q].linked)
      BY DEF KeptRests
    <3>1. CASE q = p BY <3>1, <2>3
    <3>2. CASE q # p
      <4>1. CASE j = i BY <4>1, <3>2, <2>2, <2>3
      <4>2. CASE j # i
        <5>1. kept'[j] = kept[j] BY <4>2, <2>1 DEF SharedTypeOK
        <5> QED BY <5>1, <3>2, <2>3 DEF KeptRests
      <4> QED BY <4>1, <4>2
    <3> QED BY <3>1, <3>2
  <2>6. CallsTouch'
    <3> SUFFICES ASSUME NEW q \in Procs, call'[q] # NoCall PROVE <<q, call'[q].id>> \in touched'
      BY DEF CallsTouch
    <3>1. q # p /\ call'[q] = call[q]
      BY <2>3
    <3>2. <<q, call[q].id>> \in touched /\ <<q, call[q].id>> # <<p, i>>
      BY <3>1 DEF CallsTouch
    <3> QED BY <3>1, <3>2, <2>1
  <2>7. LastStoreIsKept'
    BY <2>1, <1>c DEF LastStoreIsKept, SharedTypeOK
  <2>8. CacheIsFile'
    <3> SUFFICES ASSUME NEW q \in Procs, NEW j \in Ids, cache'[q][j] # None, <<q, j>> \notin touched'
                 PROVE  disk'[j] = cache'[q][j]
      BY DEF CacheIsFile
    <3>1. CASE q = p /\ j = i
      BY <3>1, <2>1, <1>s, <1>c DEF SharedTypeOK
    <3>2. CASE ~(q = p /\ j = i)
      <4>1. <<q, j>> \notin touched /\ j # i
        BY <3>2, <2>1
      <4>2. cache'[q][j] = cache[q][j] /\ disk'[j] = disk[j]
        BY <4>1, <2>1, <1>s DEF SharedTypeOK
      <4> QED BY <4>1, <4>2 DEF CacheIsFile
    <3> QED BY <3>1, <3>2
  <2> QED BY <1>1, <2>4, <2>5, <2>6, <2>7, <2>8
<1> QED BY <1>2, <1>3

LEMMA StoreFailsStep ==
  ASSUME FilesInv, NEW p \in Procs, StoreFails(p)
  PROVE  FilesInv'
<1> USE Marks
<1>f. call[p] # NoCall /\ SharedTypeOK
  BY DEF StoreFails, Free, FilesInv
<1>o. Outcomes(p) \cup {Torn} \subseteq Secrets \cup {None, Blank, Torn} /\ call[p].id \in Ids
  BY <1>f, OutcomesType, CallType
<1>1. \/ /\ call[p].linked
         /\ \E content \in Secrets \cup {None, Blank, Torn} :
              disk' = [disk EXCEPT ![call[p].id] = content]
         /\ touched' = touched \cup (Procs \X {call[p].id})
      \/ UNCHANGED <<disk, touched>>
  BY <1>o DEF StoreFails
<1>2. /\ call' = [call EXCEPT ![p] = NoCall] /\ alone' = alone \ {p}
      /\ kept' = kept /\ cache' = cache /\ changes' = changes /\ faults' = faults + 1
  BY DEF StoreFails
<1>3. SharedTypeOK'
  <2>1. disk' \in [Ids -> Secrets \cup {None, Blank, Torn}] /\ touched' \subseteq Procs \X Ids
    BY <1>1, <1>f, <1>o DEF SharedTypeOK
  <2>2. call' \in [Procs -> [id : Ids, secret : Secrets, linked : BOOLEAN] \cup {NoCall}]
    BY <1>2, <1>f DEF SharedTypeOK
  <2> QED BY <1>f, <1>2, <2>1, <2>2 DEF SharedTypeOK
<1> QED BY <1>1, <1>2, <1>3, LeavesStep

LEMMA DieStep ==
  ASSUME FilesInv, NEW p \in Procs, Die(p)
  PROVE  FilesInv'
<1> USE Marks
<1>f. SharedTypeOK
  BY DEF FilesInv
<1>o. call[p].linked =>
        /\ Outcomes(p) \cup {disk[call[p].id], Torn} \subseteq Secrets \cup {None, Blank, Torn}
        /\ call[p].id \in Ids
  <2> SUFFICES ASSUME call[p].linked
               PROVE  /\ Outcomes(p) \cup {disk[call[p].id], Torn} \subseteq Secrets \cup {None, Blank, Torn}
                      /\ call[p].id \in Ids
    OBVIOUS
  <2>1. call[p] # NoCall
    OBVIOUS
  <2> QED BY <2>1, <1>f, OutcomesType, CallType DEF SharedTypeOK
<1>1. \/ /\ call[p].linked
         /\ \E content \in Secrets \cup {None, Blank, Torn} :
              disk' = [disk EXCEPT ![call[p].id] = content]
         /\ touched' = touched \cup (Procs \X {call[p].id})
      \/ UNCHANGED <<disk, touched>>
  BY <1>o DEF Die
<1>2. /\ call' = [call EXCEPT ![p] = NoCall] /\ alone' = alone \ {p} /\ kept' = kept
      /\ cache' = [cache EXCEPT ![p] = [id \in Ids |-> None]]
      /\ changes' = changes /\ faults' = faults + 1
  BY DEF Die
<1>3. SharedTypeOK'
  <2>1. disk' \in [Ids -> Secrets \cup {None, Blank, Torn}] /\ touched' \subseteq Procs \X Ids
    BY <1>1, <1>f, <1>o DEF SharedTypeOK
  <2>2. call' \in [Procs -> [id : Ids, secret : Secrets, linked : BOOLEAN] \cup {NoCall}]
    BY <1>2, <1>f DEF SharedTypeOK
  <2>3. cache' \in [Procs -> [Ids -> Secrets \cup {None}]]
    BY <1>2, <1>f DEF SharedTypeOK
  <2> QED BY <1>f, <1>2, <2>1, <2>2, <2>3 DEF SharedTypeOK
<1>4. \A q \in Procs, i \in Ids :
        cache'[q][i] # None => cache'[q][i] = cache[q][i] \/ (q = p /\ i = call[p].id)
  BY <1>2, <1>f DEF SharedTypeOK
<1> QED BY <1>1, <1>2, <1>3, <1>4, LeavesStep

\* What load returns is what the vault has cached afterwards.
LEMMA LoadCaches ==
  ASSUME FilesInv, NEW p \in Procs, NEW id \in Ids, Load(p, id)
  PROVE  /\ FilesInv'
         /\ Found(p, id) \in Secrets \cup {None} /\ cache'[p][id] = Found(p, id)
         /\ \A q \in Procs, i \in Ids : cache[q][i] # None => cache'[q][i] = cache[q][i]
         /\ \A q \in Procs, i \in Ids : <<q, i>> # <<p, id>> => cache'[q][i] = cache[q][i]
         /\ call' = call
<1> USE Marks DEF FilesInv
<1>f. Found(p, id) \in Secrets \cup {None}
  BY DEF Found, SharedTypeOK
<1>s. /\ cache' = [cache EXCEPT ![p][id] = Found(p, id)] /\ call[p] = NoCall
      /\ UNCHANGED <<disk, call, changes, faults, alone, kept>>
      /\ touched' = IF cache[p][id] = None /\ Found(p, id) # None
                      THEN touched \ {<<p, id>>} ELSE touched
  BY DEF Load, Reads, Free, calls
<1>c. cache[p][id] # None => Found(p, id) = cache[p][id]
  BY DEF Found
<1>d. cache[p][id] = None /\ Found(p, id) # None => Found(p, id) = disk[id]
  BY DEF Found
<1>1. SharedTypeOK'
  BY <1>f, <1>s DEF SharedTypeOK
<1>2. cache'[p][id] = Found(p, id)
  BY <1>s DEF SharedTypeOK
<1>3. \A q \in Procs, i \in Ids : <<q, i>> # <<p, id>> => cache'[q][i] = cache[q][i]
  BY <1>s DEF SharedTypeOK
<1>4. AloneWrites' /\ KeptRests' /\ LastStoreIsKept'
  BY <1>s DEF AloneWrites, KeptRests, LastStoreIsKept
<1>5. CallsTouch'
  BY <1>s DEF CallsTouch
<1>6. CacheIsFile'
  <2> SUFFICES ASSUME NEW q \in Procs, NEW i \in Ids, cache'[q][i] # None, <<q, i>> \notin touched'
               PROVE  disk'[i] = cache'[q][i]
    BY DEF CacheIsFile
  <2>1. CASE <<q, i>> = <<p, id>>
    <3>1. CASE cache[p][id] = None
      BY <2>1, <3>1, <1>2, <1>d, <1>s
    <3>2. CASE cache[p][id] # None
      BY <2>1, <3>2, <1>2, <1>c, <1>s DEF CacheIsFile
    <3> QED BY <3>1, <3>2
  <2>2. CASE <<q, i>> # <<p, id>>
    <3>1. <<q, i>> \notin touched /\ cache'[q][i] = cache[q][i]
      BY <2>2, <1>3, <1>s
    <3> QED BY <3>1, <1>s DEF CacheIsFile
  <2> QED BY <2>1, <2>2
<1>7. \A q \in Procs, i \in Ids : cache[q][i] # None => cache'[q][i] = cache[q][i]
  BY <1>2, <1>3, <1>c
<1> QED BY <1>1, <1>2, <1>3, <1>4, <1>5, <1>6, <1>7, <1>f, <1>s

LEMMA DeleteStep ==
  ASSUME FilesInv, NEW p \in Procs, NEW id \in Ids, Delete(p, id)
  PROVE  FilesInv'
<1> USE Marks DEF FilesInv
<1>s. /\ cache' = [cache EXCEPT ![p][id] = None] /\ disk' = [disk EXCEPT ![id] = None]
      /\ call' = [q \in Procs |-> IF q \in Writers(id) THEN [call[q] EXCEPT !.linked = FALSE]
                                  ELSE call[q]]
      /\ alone' = alone \ Writers(id) /\ kept' = [kept EXCEPT ![id] = None]
      /\ touched' = touched \cup (Procs \X {id})
      /\ changes < MaxChanges /\ changes' = changes + 1 /\ faults' = faults
  BY DEF Delete, Unlinks
<1>w. \A q \in Procs : q \in Writers(id) <=> call[q].id = id /\ call[q].linked
  BY DEF Writers
<1>c. \A q \in Procs : /\ call'[q].id = call[q].id /\ (call'[q].linked => call[q].linked)
                       /\ (call[q] = NoCall <=> call'[q] = NoCall)
                       /\ (q \in Writers(id) => ~call'[q].linked)
                       /\ (q \notin Writers(id) => call'[q] = call[q])
                       /\ call'[q] \in [id : Ids, secret : Secrets, linked : BOOLEAN] \cup {NoCall}
  <2> SUFFICES ASSUME NEW q \in Procs
               PROVE  /\ call'[q].id = call[q].id /\ (call'[q].linked => call[q].linked)
                      /\ (call[q] = NoCall <=> call'[q] = NoCall)
                      /\ (q \in Writers(id) => ~call'[q].linked)
                      /\ (q \notin Writers(id) => call'[q] = call[q])
                      /\ call'[q] \in [id : Ids, secret : Secrets, linked : BOOLEAN] \cup {NoCall}
    OBVIOUS
  <2>1. call[q] \in [id : Ids, secret : Secrets, linked : BOOLEAN] \cup {NoCall}
    BY DEF SharedTypeOK
  <2>2. CASE q \notin Writers(id) BY <2>1, <2>2, <1>s
  <2>3. CASE q \in Writers(id)
    <3>1. call[q] \in [id : Ids, secret : Secrets, linked : BOOLEAN] /\ call[q].id = id
      BY <2>1, <2>3, <1>w
    <3>2. call'[q] = [call[q] EXCEPT !.linked = FALSE]
      BY <2>3, <1>s
    <3>3. call'[q].id = id /\ call'[q].linked = FALSE
          /\ call'[q] \in [id : Ids, secret : Secrets, linked : BOOLEAN]
      BY <3>1, <3>2
    <3>4. call[q] # NoCall /\ call'[q] # NoCall
      BY <3>1, <3>3
    <3> QED BY <2>3, <3>1, <3>3, <3>4
  <2> QED BY <2>2, <2>3
<1>1. SharedTypeOK'
  <2>1. call' \in [Procs -> [id : Ids, secret : Secrets, linked : BOOLEAN] \cup {NoCall}]
    BY <1>s, <1>c
  <2>2. changes' \in 0..MaxChanges
    BY <1>s, SharedBoundsAssumption DEF SharedTypeOK
  <2>3. cache' \in [Procs -> [Ids -> Secrets \cup {None}]]
    BY <1>s DEF SharedTypeOK
  <2> QED BY <1>s, <2>1, <2>2, <2>3 DEF SharedTypeOK
<1>2. AloneWrites'
  <2> SUFFICES ASSUME NEW q \in alone'
               PROVE  /\ call'[q] # NoCall /\ call'[q].linked
                      /\ \A r \in Procs : call'[r].id = call'[q].id /\ call'[r].linked => r = q
                      /\ disk'[call'[q].id] = Blank
    BY DEF AloneWrites
  <2>1. q \in alone /\ q \in Procs /\ q \notin Writers(id)
    BY <1>s DEF SharedTypeOK
  <2>2. call'[q] = call[q] /\ call[q].linked /\ call[q].id # id /\ call[q].id \in Ids
    BY <2>1, <1>c, <1>w, CallType DEF AloneWrites
  <2>3. disk'[call[q].id] = disk[call[q].id]
    BY <2>2, <1>s DEF SharedTypeOK
  <2> QED BY <2>1, <2>2, <2>3, <1>c DEF AloneWrites
<1>3. KeptRests'
  <2> SUFFICES ASSUME NEW j \in Ids, NEW q \in Procs, kept'[j] # Unknown
               PROVE  ~(call'[q].id = j /\ call'[q].linked)
    BY DEF KeptRests
  <2>1. CASE j = id BY <2>1, <1>c, <1>w
  <2>2. CASE j # id
    <3>1. kept'[j] = kept[j] BY <2>2, <1>s DEF SharedTypeOK
    <3> QED BY <3>1, <1>c DEF KeptRests
  <2> QED BY <2>1, <2>2
<1>4. CallsTouch'
  BY <1>s, <1>c DEF CallsTouch
<1>5. LastStoreIsKept'
  BY <1>s DEF LastStoreIsKept, SharedTypeOK
<1>6. CacheIsFile'
  BY <1>s DEF CacheIsFile, SharedTypeOK
<1> QED BY <1>1, <1>2, <1>3, <1>4, <1>5, <1>6

-----------------------------------------------------------------------------
(* The processors *)

LEMMA PartsAreMade == ASSUME MadeParts PROVE MadeFromVault
BY IdsAssumption DEF MadeParts, SeedMade, KeyMade, WebhookMade, MadeFromVault, Uses

LEMMA InitInv == Init => IInv
<1> SUFFICES ASSUME Init PROVE IInv
  OBVIOUS
<1>1. FilesInv
  BY FilesInit DEF Init
<1>2. OwnType
  BY Marks DEF Init, OwnType, NoStripe, SharedInit, Free
<1>3. MakingIsCached /\ MadeParts
  BY DEF Init, MakingIsCached, MadeParts, SeedMade, KeyMade, WebhookMade, NoStripe
<1> QED BY <1>1, <1>2, <1>3 DEF IInv

\* A change of p's vault that makes nothing: what was made of the secret no longer counts.
LEMMA OwnStep ==
  ASSUME IInv, NEW p \in Procs, NEW i,
         UNCHANGED <<polkadot, stripe, making>>, making[p] = None,
         call'[p] = NoCall \/ making[p] = None,
         \A q \in Procs : q # p => (call[q] = NoCall => call'[q] = NoCall),
         replaced' \in {replaced, replaced \cup {<<p, i>>}}, replaced' \subseteq Procs \X Ids,
         \A q \in Procs, j \in Ids :
           \/ cache'[q][j] = cache[q][j]
           \/ q = p /\ cache[q][j] = None
           \/ <<q, j>> \in replaced' /\ q = p
  PROVE  OwnType' /\ MakingIsCached' /\ MadeParts'
<1> USE Marks, IdsAssumption
<1>1. OwnType'
  BY DEF IInv, OwnType, Free
<1>2. MakingIsCached'
  BY DEF IInv, MakingIsCached
<1>3. SeedMade'
  BY DEF IInv, MadeParts, SeedMade
<1>4. KeyMade'
  BY DEF IInv, MadeParts, KeyMade
<1>5. WebhookMade'
  BY DEF IInv, MadeParts, WebhookMade
<1> QED BY <1>1, <1>2, <1>3, <1>4, <1>5 DEF MadeParts

LEMMA StoreStep == ASSUME IInv, NEW p \in Procs, Store(p) PROVE IInv'
<1> USE Marks DEF IInv
<1>1. ASSUME NEW id \in Ids, Ready(p), Open(p, id), UNCHANGED processor PROVE IInv'
  <2>1. FilesInv'
    BY <1>1, OpenStep
  <2>2. call \in [Procs -> [id : Ids, secret : Secrets, linked : BOOLEAN] \cup {NoCall}]
    BY DEF FilesInv, SharedTypeOK
  <2>3. OwnType' /\ MakingIsCached' /\ MadeParts'
    BY <1>1, <2>2, OwnStep DEF Ready, Open, Begins, processor, OwnType
  <2> QED BY <2>1, <2>3
<1>2. ASSUME StoreFails(p), UNCHANGED processor PROVE IInv'
  <2>1. FilesInv'
    BY <1>2, StoreFailsStep
  <2>2. making[p] = None
    BY <1>2 DEF StoreFails, OwnType
  <2>3. \A q \in Procs : q # p => (call[q] = NoCall => call'[q] = NoCall)
    BY <1>2 DEF StoreFails, FilesInv, SharedTypeOK
  <2>4. OwnType' /\ MakingIsCached' /\ MadeParts'
    BY <1>2, <2>2, <2>3, OwnStep DEF StoreFails, processor, OwnType
  <2> QED BY <2>1, <2>4
<1>3. ASSUME StoreReturns(p), replaced' = replaced \cup {<<p, call[p].id>>},
             UNCHANGED <<polkadot, stripe, making>>
      PROVE  IInv'
  <2> DEFINE i == call[p].id
  <2>1. FilesInv'
    BY <1>3, StoreReturnsStep
  <2>2. making[p] = None /\ call[p] # NoCall
    BY <1>3 DEF StoreReturns, OwnType, Free
  <2>3. i \in Ids
    BY <2>2, CallType DEF FilesInv
  <2>4. \A q \in Procs : q # p => (call[q] = NoCall => call'[q] = NoCall)
    BY <1>3 DEF StoreReturns, FilesInv, SharedTypeOK
  <2>5. \A q \in Procs, j \in Ids :
          cache'[q][j] = cache[q][j] \/ (<<q, j>> \in replaced' /\ q = p)
    BY <1>3 DEF StoreReturns, FilesInv, SharedTypeOK
  <2>r. replaced' = replaced \cup {<<p, i>>} /\ replaced' \subseteq Procs \X Ids
    BY <1>3, <2>3 DEF OwnType
  <2>u. UNCHANGED <<polkadot, stripe, making>>
    BY <1>3
  <2> HIDE DEF i
  <2>6. OwnType' /\ MakingIsCached' /\ MadeParts'
    BY <2>r, <2>u, <2>2, <2>4, <2>5, OwnStep
  <2> QED BY <2>1, <2>6
<1> QED BY <1>1, <1>2, <1>3 DEF Store

LEMMA LoadSecretStep == ASSUME IInv, NEW p \in Procs, LoadSecret(p) PROVE IInv'
<1> USE Marks DEF IInv
<1> PICK id \in Ids : Ready(p) /\ Load(p, id) /\ UNCHANGED processor
  BY DEF LoadSecret
<1>1. /\ FilesInv' /\ call' = call
      /\ \A q \in Procs, j \in Ids : cache[q][j] # None => cache'[q][j] = cache[q][j]
      /\ \A q \in Procs, j \in Ids : <<q, j>> # <<p, id>> => cache'[q][j] = cache[q][j]
  BY LoadCaches
<1>2. OwnType' /\ MakingIsCached' /\ MadeParts'
  BY <1>1, OwnStep DEF Ready, processor, OwnType
<1> QED BY <1>1, <1>2

LEMMA DeleteSecretStep == ASSUME IInv, NEW p \in Procs, DeleteSecret(p) PROVE IInv'
<1> USE Marks DEF IInv
<1> PICK id \in Ids : /\ Ready(p) /\ Delete(p, id) /\ replaced' = replaced \cup {<<p, id>>}
                     /\ UNCHANGED <<polkadot, stripe, making>>
  BY DEF DeleteSecret
<1>1. FilesInv'
  BY DeleteStep
<1>2. \A q \in Procs : call[q] = NoCall => call'[q] = NoCall
  BY DEF Delete, Unlinks, Writers
<1>3. \A q \in Procs, j \in Ids :
        cache'[q][j] = cache[q][j] \/ (<<q, j>> \in replaced' /\ q = p)
  BY DEF Delete, FilesInv, SharedTypeOK
<1>4. OwnType' /\ MakingIsCached' /\ MadeParts'
  <2>1. making[p] = None /\ replaced' \subseteq Procs \X Ids
    BY DEF Ready, OwnType
  <2> QED BY <1>2, <1>3, <2>1, OwnStep
<1> QED BY <1>1, <1>4

LEMMA InitPolkadotStep == ASSUME IInv, NEW p \in Procs, InitPolkadot(p) PROVE IInv'
<1> USE Marks, IdsAssumption DEF IInv
<1>l. Ready(p) /\ Load(p, WalletSeed) /\ UNCHANGED <<stripe, making>>
  BY DEF InitPolkadot
<1>1. /\ FilesInv' /\ call' = call /\ cache'[p][WalletSeed] = Found(p, WalletSeed)
      /\ \A q \in Procs, j \in Ids : cache[q][j] # None => cache'[q][j] = cache[q][j]
      /\ \A q \in Procs, j \in Ids : <<q, j>> # <<p, WalletSeed>> => cache'[q][j] = cache[q][j]
  BY <1>l, LoadCaches
<1>2. CASE Found(p, WalletSeed) \in Secrets \ BadSeeds
  <2>1. /\ polkadot' = [polkadot EXCEPT ![p] = Found(p, WalletSeed)]
        /\ replaced' = replaced \ {<<p, WalletSeed>>}
    BY <1>2 DEF InitPolkadot
  <2>2. OwnType'
    BY <1>1, <1>2, <1>l, <2>1 DEF OwnType, Free
  <2>3. MakingIsCached'
    BY <1>1, <1>l DEF MakingIsCached
  <2>4. SeedMade'
    BY <1>1, <1>l, <2>1 DEF MadeParts, SeedMade, OwnType
  <2>5. KeyMade'
    BY <1>1, <1>l, <2>1 DEF MadeParts, KeyMade
  <2>6. WebhookMade'
    BY <1>1, <1>l, <2>1 DEF MadeParts, WebhookMade
  <2> QED BY <1>1, <2>2, <2>3, <2>4, <2>5, <2>6 DEF MadeParts
<1>3. CASE Found(p, WalletSeed) \notin Secrets \ BadSeeds
  <2>1. UNCHANGED <<polkadot, replaced>>
    BY <1>3 DEF InitPolkadot
  <2>2. OwnType' /\ MakingIsCached' /\ MadeParts'
    BY <1>1, <1>l, <2>1, OwnStep DEF Ready, OwnType
  <2> QED BY <1>1, <2>2
<1> QED BY <1>2, <1>3

LEMMA StripeKeyStep == ASSUME IInv, NEW p \in Procs, StripeKey(p) PROVE IInv'
<1> USE Marks, IdsAssumption DEF IInv
<1>l. /\ Ready(p) /\ Load(p, StripeSecretKey) /\ UNCHANGED <<polkadot, stripe, replaced>>
      /\ making' = [making EXCEPT ![p] = Found(p, StripeSecretKey)]
  BY DEF StripeKey
<1>1. /\ FilesInv' /\ call' = call /\ cache'[p][StripeSecretKey] = Found(p, StripeSecretKey)
      /\ Found(p, StripeSecretKey) \in Secrets \cup {None}
      /\ \A q \in Procs, j \in Ids : cache[q][j] # None => cache'[q][j] = cache[q][j]
      /\ \A q \in Procs, j \in Ids : <<q, j>> # <<p, StripeSecretKey>> => cache'[q][j] = cache[q][j]
  BY <1>l, LoadCaches
<1>2. OwnType'
  BY <1>1, <1>l DEF OwnType, Ready, Free
<1>3. MakingIsCached'
  BY <1>1, <1>l DEF MakingIsCached, OwnType
<1>4. SeedMade'
  BY <1>1, <1>l DEF MadeParts, SeedMade
<1>5. KeyMade'
  BY <1>1, <1>l DEF MadeParts, KeyMade
<1>6. WebhookMade'
  BY <1>1, <1>l DEF MadeParts, WebhookMade
<1> QED BY <1>1, <1>2, <1>3, <1>4, <1>5, <1>6 DEF MadeParts

LEMMA StripeWebhookStep == ASSUME IInv, NEW p \in Procs, StripeWebhook(p) PROVE IInv'
<1> USE Marks, IdsAssumption DEF IInv
<1>l. /\ making[p] # None /\ Load(p, StripeWebhookSecret) /\ UNCHANGED polkadot
      /\ stripe' = [stripe EXCEPT ![p] =
           [key |-> making[p], webhook |-> Found(p, StripeWebhookSecret)]]
      /\ making' = [making EXCEPT ![p] = None]
      /\ replaced' = replaced \ {<<p, StripeSecretKey>>, <<p, StripeWebhookSecret>>}
  BY DEF StripeWebhook
<1>1. /\ FilesInv' /\ call' = call
      /\ cache'[p][StripeWebhookSecret] = Found(p, StripeWebhookSecret)
      /\ Found(p, StripeWebhookSecret) \in Secrets \cup {None}
      /\ \A q \in Procs, j \in Ids : cache[q][j] # None => cache'[q][j] = cache[q][j]
      /\ \A q \in Procs, j \in Ids :
           <<q, j>> # <<p, StripeWebhookSecret>> => cache'[q][j] = cache[q][j]
  BY <1>l, LoadCaches
<1>2. OwnType'
  BY <1>1, <1>l DEF OwnType, Free
<1>3. MakingIsCached'
  BY <1>1, <1>l DEF MakingIsCached, OwnType
<1>4. SeedMade'
  BY <1>1, <1>l DEF MadeParts, SeedMade
<1>5. making[p] = cache'[p][StripeSecretKey]
  BY <1>1, <1>l DEF MakingIsCached
<1>6. /\ stripe'[p] = [key |-> making[p], webhook |-> Found(p, StripeWebhookSecret)]
      /\ \A q \in Procs : q # p => stripe'[q] = stripe[q]
  BY <1>l DEF OwnType
<1>7. KeyMade'
  BY <1>1, <1>l, <1>5, <1>6 DEF MadeParts, KeyMade
<1>8. WebhookMade'
  BY <1>1, <1>l, <1>6 DEF MadeParts, WebhookMade
<1> QED BY <1>1, <1>2, <1>3, <1>4, <1>7, <1>8 DEF MadeParts

LEMMA RestartStep == ASSUME IInv, NEW p \in Procs, Restart(p) PROVE IInv'
<1> USE Marks, IdsAssumption DEF IInv
<1>l. /\ Die(p) /\ polkadot' = [polkadot EXCEPT ![p] = None]
      /\ stripe' = [stripe EXCEPT ![p] = NoStripe] /\ making' = [making EXCEPT ![p] = None]
      /\ replaced' = replaced \ ({p} \X Ids)
  BY DEF Restart
<1>1. FilesInv'
  BY <1>l, DieStep
<1>c. \A q \in Procs : /\ (q # p => cache'[q] = cache[q] /\ call'[q] = call[q])
                       /\ (q = p => call'[q] = NoCall)
  BY <1>l DEF Die, FilesInv, SharedTypeOK
<1>2. OwnType'
  BY <1>l, <1>c DEF OwnType, NoStripe, Free
<1>3. MakingIsCached'
  BY <1>l, <1>c DEF MakingIsCached, OwnType
<1>4. SeedMade'
  BY <1>l, <1>c DEF MadeParts, SeedMade, OwnType
<1>5. /\ stripe'[p].key = None /\ stripe'[p].webhook = None
      /\ \A q \in Procs : q # p => stripe'[q] = stripe[q]
  BY <1>l DEF OwnType, NoStripe
<1>6. KeyMade'
  BY <1>l, <1>c, <1>5 DEF MadeParts, KeyMade
<1>7. WebhookMade'
  BY <1>l, <1>c, <1>5 DEF MadeParts, WebhookMade
<1> QED BY <1>1, <1>2, <1>3, <1>4, <1>6, <1>7 DEF MadeParts

LEMMA NextInv == IInv /\ [Next]_vars => IInv'
<1> SUFFICES ASSUME IInv, [Next]_vars PROVE IInv'
  OBVIOUS
<1>1. CASE Next
  BY <1>1, StoreStep, LoadSecretStep, DeleteSecretStep, InitPolkadotStep, StripeKeyStep,
     StripeWebhookStep, RestartStep DEF Next
<1>2. CASE UNCHANGED vars
  BY <1>2 DEF vars, shared, calls, traces, processor, IInv, FilesInv, SharedTypeOK, AloneWrites,
     KeptRests, CallsTouch, LastStoreIsKept, CacheIsFile, OwnType, MakingIsCached, MadeParts,
     SeedMade, KeyMade, WebhookMade, Free
<1> QED BY <1>1, <1>2

\* The inductive invariant: the files and memories of all processes, and what is made from
\* their secrets in init_polkadot and from_vault.
THEOREM ProcessorInv == Spec => []IInv
BY InitInv, NextInv, PTL DEF Spec

-----------------------------------------------------------------------------
(* The properties *)

\* Every field has its type in every reachable state (Vault and PaymentProcessor).
THEOREM ProcessorTypes == Spec => []TypeOK
<1>1. IInv => TypeOK
  BY DEF IInv, FilesInv, OwnType, TypeOK
<1> QED BY <1>1, ProcessorInv, PTL

\* What a store that had its file to itself has stored is what the file holds, whichever
\* other stores overlapped, failed or died before it (encrypt_to_file).
THEOREM StoredIsKept == Spec => []LastStoreIsKept
<1>1. IInv => LastStoreIsKept
  BY DEF IInv, FilesInv
<1> QED BY <1>1, ProcessorInv, PTL

\* A vault's memory is what its file holds, unless the file was touched since.
THEOREM CachesAreFiles == Spec => []CacheIsFile
<1>1. IInv => CacheIsFile
  BY DEF IInv, FilesInv
<1> QED BY <1>1, ProcessorInv, PTL

\* Wallets and Stripe processors are made from the secrets the vault loads.
THEOREM ProcessorsAreMadeFromVault == Spec => []MadeFromVault
<1>1. IInv => MadeFromVault
  BY PartsAreMade DEF IInv
<1> QED BY <1>1, ProcessorInv, PTL

\* Processes on one directory agree on the wallet's seed as long as its file is untouched:
\* both have what is in the file.
THEOREM ProcessesAgree == Spec => []SameAddresses
<1>1. ASSUME IInv PROVE SameAddresses
  <2> SUFFICES ASSUME NEW p \in Procs, NEW q \in Procs,
                      polkadot[p] # None, <<p, WalletSeed>> \notin touched \cup replaced,
                      polkadot[q] # None, <<q, WalletSeed>> \notin touched \cup replaced
               PROVE  polkadot[p] = polkadot[q]
    BY DEF SameAddresses
  <2>1. polkadot[p] = cache[p][WalletSeed] /\ polkadot[q] = cache[q][WalletSeed]
    BY <1>1 DEF IInv, MadeParts, SeedMade
  <2>2. disk[WalletSeed] = cache[p][WalletSeed] /\ disk[WalletSeed] = cache[q][WalletSeed]
    BY <1>1, <2>1, IdsAssumption DEF IInv, FilesInv, CacheIsFile
  <2> QED BY <2>1, <2>2
<1> QED BY <1>1, ProcessorInv, PTL

-----------------------------------------------------------------------------
(* verify_webhook *)

\* The last of some places in a sequence.
LEMMA LastPlace ==
  ASSUME NEW n \in Nat, NEW I \in SUBSET (1..n), I # {}
  PROVE  Max(I) \in I /\ \A i \in I : i <= Max(I)
<1> DEFINE T == {n - i : i \in I}
<1>0. \A i \in I : i \in 1..n /\ n - i \in Nat
  OBVIOUS
<1>1. T \in SUBSET Nat /\ T # {}
  BY <1>0
<1>2. PICK t \in T : \A y \in T : ~(<<y, t>> \in OpToRel(<, Nat))
  BY <1>1, NatLessThanWellFounded, WFMin
<1>3. PICK m \in I : t = n - m
  OBVIOUS
<1>4. \A i \in I : m >= i
  <2> SUFFICES ASSUME NEW i \in I PROVE m >= i
    OBVIOUS
  <2>1. ~(n - i < n - m)
    BY <1>1, <1>2, <1>3 DEF OpToRel
  <2> QED BY <2>1
<1>5. Max(I) \in I /\ \A i \in I : Max(I) >= i
  BY <1>4 DEF Max
<1> QED BY <1>5

\* Of the parts of one name the last counts.
LEMMA PartIsThere ==
  ASSUME NEW S, NEW header \in Seq(S), NEW name, Has(header, name)
  PROVE  \E i \in DOMAIN header : Part(header, name) = header[i] /\ header[i].name = name
<1> DEFINE I == {i \in 1..Len(header) : header[i].name = name}
<1>1. Len(header) \in Nat /\ I \in SUBSET (1..Len(header)) /\ I # {} /\ DOMAIN header = 1..Len(header)
  BY DEF Has
<1>2. Part(header, name) = header[IF I # {} THEN Max(I) ELSE 0]
  BY DEF Part, SelectLastInSeq
<1> HIDE DEF I
<1>3. Max(I) \in I
  BY <1>1, LastPlace
<1>4. Part(header, name) = header[Max(I)]
  BY <1>1, <1>2
<1> QED BY <1>1, <1>3, <1>4 DEF I

\* A Stripe processor's webhook secret is on disk unless it was touched or replaced.
LEMMA WebhookIsFile ==
  ASSUME IInv, NEW p \in Procs, stripe[p].webhook # None,
         <<p, StripeWebhookSecret>> \notin touched \cup replaced
  PROVE  stripe[p].webhook \in Secrets /\ stripe[p].webhook = disk[StripeWebhookSecret]
<1>1. stripe[p].webhook \in Secrets
  BY DEF IInv, OwnType
<1>2. stripe[p].webhook = cache[p][StripeWebhookSecret]
  BY DEF IInv, MadeParts, WebhookMade
<1> QED BY <1>1, <1>2, IdsAssumption DEF IInv, FilesInv, CacheIsFile

\* The header that Stripe sends: a time and one signature.
LEMMA PlainHeader ==
  ASSUME NEW p \in Procs, NEW t \in Int, NEW s, stripe[p].webhook # None
  PROVE  Verifies(p, <<Time(t), Signature(t, s)>>)
           <=> t \in -300..300 /\ s = stripe[p].webhook
<1> DEFINE header == <<Time(t), Signature(t, s)>>
<1>1. /\ header \in Seq({Time(t), Signature(t, s)}) /\ DOMAIN header = {1, 2}
      /\ header[1] = Time(t) /\ header[2] = Signature(t, s)
      /\ Time(t).name = "t" /\ Signature(t, s).name = "v1"
  BY DEF Time, Signature
<1> HIDE DEF header
<1>2. Has(header, "t") /\ Has(header, "v1")
  BY <1>1 DEF Has
<1>3. Part(header, "t") = Time(t) /\ Part(header, "v1") = Signature(t, s)
  BY <1>1, <1>2, PartIsThere
<1>4. Time(t).time = t /\ (Signature(t, s) = Signature(t, stripe[p].webhook) <=> s = stripe[p].webhook)
  BY DEF Time, Signature
<1>5. Verifies(p, header) <=> t \in -300..300 /\ s = stripe[p].webhook
  BY <1>2, <1>3, <1>4 DEF Verifies, Tolerance
<1> QED BY <1>5 DEF header

\* verify_webhook takes what is signed with the secret on disk and at most five minutes old,
\* and nothing else, whichever processes store, fail and restart, unless the secret was
\* touched or replaced since the Stripe processor was made.
THEOREM WebhooksAreVerified == Spec => []WebhooksVerify
<1>1. ASSUME IInv PROVE WebhooksVerify
  <2>1. ASSUME NEW p \in Procs, NEW s \in Secrets, NEW t \in {-301, -300, 0, 300, 301}
        PROVE  stripe[p].webhook # None
                 /\ <<p, StripeWebhookSecret>> \notin touched \cup replaced =>
               (Verifies(p, <<Time(t), Signature(t, s)>>)
                  <=> s = disk[StripeWebhookSecret] /\ t \in -300..300)
    <3> HAVE stripe[p].webhook # None /\ <<p, StripeWebhookSecret>> \notin touched \cup replaced
    <3>1. stripe[p].webhook = disk[StripeWebhookSecret]
      BY <1>1, WebhookIsFile
    <3>2. t \in Int
      OBVIOUS
    <3>3. Verifies(p, <<Time(t), Signature(t, s)>>) <=> t \in -300..300 /\ s = stripe[p].webhook
      BY <3>2, PlainHeader
    <3> QED BY <3>1, <3>3
  <2> QED BY <2>1, Zenon DEF WebhooksVerify
<1> QED BY <1>1, ProcessorInv, PTL

\* Any header, of any number of parts in any order.
Parts == [name : {"t", "v1"}, time : Int, secret : Secrets \cup {None}]

\* What verifies holds a recent time and a signature over that time under the file's secret.
VerifiedIsSigned ==
  \A p \in Procs, header \in Seq(Parts) :
    Verifies(p, header) /\ <<p, StripeWebhookSecret>> \notin touched \cup replaced =>
      \E i, j \in DOMAIN header :
        /\ header[i].name = "t" /\ header[i].time \in -300..300
        /\ header[j] = Signature(header[i].time, disk[StripeWebhookSecret])

\* No header that verify_webhook takes is without a signature under the secret on disk, over a
\* time that is at most five minutes off: however often its parts repeat, and in any order.
THEOREM OnlySignedVerifies == Spec => []VerifiedIsSigned
<1>1. ASSUME IInv PROVE VerifiedIsSigned
  <2> SUFFICES ASSUME NEW p \in Procs, NEW header \in Seq(Parts), Verifies(p, header),
                      <<p, StripeWebhookSecret>> \notin touched \cup replaced
               PROVE  \E i, j \in DOMAIN header :
                        /\ header[i].name = "t" /\ header[i].time \in -300..300
                        /\ header[j] = Signature(header[i].time, disk[StripeWebhookSecret])
    BY DEF VerifiedIsSigned
  <2>1. /\ stripe[p].webhook # None /\ Has(header, "t") /\ Has(header, "v1")
        /\ Part(header, "t").time \in -300..300
        /\ Part(header, "v1") = Signature(Part(header, "t").time, stripe[p].webhook)
    BY DEF Verifies, Tolerance
  <2>2. stripe[p].webhook = disk[StripeWebhookSecret]
    BY <1>1, <2>1, WebhookIsFile
  <2>3. PICK i \in DOMAIN header : Part(header, "t") = header[i] /\ header[i].name = "t"
    BY <2>1, PartIsThere
  <2>4. PICK j \in DOMAIN header : Part(header, "v1") = header[j]
    BY <2>1, PartIsThere
  <2> QED BY <2>1, <2>2, <2>3, <2>4
<1> QED BY <1>1, ProcessorInv, PTL
=============================================================================
