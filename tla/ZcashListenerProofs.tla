------------------------ MODULE ZcashListenerProofs ------------------------
(***************************************************************************)
(* Proofs about ZcashListener, for every set of transactions, addresses    *)
(* and users, every payment function and every bound.                      *)
(***************************************************************************)
EXTENDS ZcashListener, TLAPS, FiniteSetTheorems, SequenceTheorems, WellFoundedInduction

-----------------------------------------------------------------------------
(* The first owner of an address *)

\* The least element of a set of naturals is in it and below the others.
LEMMA MinOfNaturals ==
  ASSUME NEW S \in SUBSET Nat, S # {}
  PROVE  Min(S) \in S /\ \A n \in S : Min(S) <= n
<1> DEFINE Below(n) == 0..n
           Family == {Below(n) : n \in S}
<1>1. ASSUME NEW n \in Nat
      PROVE  Below(n) \in FiniteSubsetsOf(Nat)
  BY FS_Interval DEF FiniteSubsetsOf
<1>2. \E X \in Family : \A Y \in Family : <<Y, X>> \notin StrictSubsetOrdering(Nat)
  <2>1. Family \subseteq FiniteSubsetsOf(Nat) /\ Family # {}
    BY <1>1
  <2> QED
    BY <2>1, FS_StrictSubsetOrderingWellFounded, WFMin
<1>3. PICK m \in S : \A n \in S : <<Below(n), Below(m)>> \notin StrictSubsetOrdering(Nat)
  BY <1>2
<1>4. ASSUME NEW n \in S, n < m
      PROVE  FALSE
  <2>1. Below(n) \subseteq Below(m) /\ Below(n) # Below(m)
    BY <1>4
  <2>2. Below(n) \in SUBSET Nat /\ Below(m) \in SUBSET Nat
    OBVIOUS
  <2>3. <<Below(n), Below(m)>> \in StrictSubsetOrdering(Nat)
    <3> HIDE DEF Below
    <3> QED
      BY <2>1, <2>2 DEF StrictSubsetOrdering
  <2> QED
    BY <2>3, <1>3
<1>5. \A n \in S : m <= n
  BY <1>4
<1> QED
  BY <1>5 DEF Min

\* A watched address has a first entry, and it is one of its own.
LEMMA FirstEntry ==
  ASSUME NEW w \in Seq([address : Addresses, user_id : Users]), NEW a,
         \E i \in DOMAIN w : w[i].address = a
  PROVE  /\ First(w, a) \in DOMAIN w
         /\ w[First(w, a)].address = a
         /\ \A i \in DOMAIN w : w[i].address = a => First(w, a) <= i
<1> DEFINE I == {i \in 1..Len(w) : w[i].address = a}
<1>1. I \in SUBSET Nat /\ I # {}
  OBVIOUS
<1>2. First(w, a) = Min(I)
  BY <1>1 DEF First, SelectInSeq
<1> HIDE DEF I
<1>3. Min(I) \in I /\ \A i \in I : Min(I) <= i
  BY <1>1, MinOfNaturals
<1> QED
  BY <1>2, <1>3 DEF I

\* The user an output is credited to is one who watches its address: the
\* `find` over the registrations in scan, zcash.rs.
LEMMA OwnerType ==
  ASSUME watched \in Seq([address : Addresses, user_id : Users]), NEW a, IsWatched(a)
  PROVE  a \in Addresses /\ Owner(a) \in Users
<1>1. First(watched, a) \in DOMAIN watched /\ watched[First(watched, a)].address = a
  BY FirstEntry DEF IsWatched
<1>2. watched[First(watched, a)] \in [address : Addresses, user_id : Users]
  <2> HIDE DEF First
  <2> QED
    BY <1>1, ElementOfSeq, LenProperties
<1> QED
  BY <1>1, <1>2 DEF Owner

-----------------------------------------------------------------------------
(* Types *)

\* A block is a sequence of transactions.
LEMMA BlocksAreSequences == \A b \in Blocks : b \in Seq(Txs)
  BY DEF Blocks, BoundedSeq, SeqOf

\* An output of a transaction is an output of the system, to one address.
LEMMA OutputOf ==
  ASSUME NEW t \in Txs, NEW i \in 1..Len(Pays[t])
  PROVE  <<t, i>> \in Outputs /\ Pays[t][i] \in Addresses
<1>1. Pays[t] \in Seq(Addresses) /\ DOMAIN Pays[t] = 1..Len(Pays[t])
  BY PaysAssumption
<1> QED
  BY <1>1 DEF Outputs

\* A reorganisation leaves a longer chain of the same type.
LEMMA ReorgChain ==
  ASSUME NEW c \in Seq(Seq(Txs)), NEW depth \in 1..Len(c),
         NEW branch \in [1..depth + 1 -> Blocks]
  PROVE  /\ SubSeq(c, 1, Len(c) - depth) \o branch \in Seq(Seq(Txs))
         /\ Len(SubSeq(c, 1, Len(c) - depth) \o branch) = Len(c) + 1
         /\ \A h \in 1..Len(c) + 1 :
              (SubSeq(c, 1, Len(c) - depth) \o branch)[h] =
                IF h <= Len(c) - depth THEN c[h] ELSE branch[h - (Len(c) - depth)]
<1> DEFINE fork == Len(c) - depth
<1>1. branch \in Seq(Seq(Txs)) /\ Len(branch) = depth + 1
  BY BlocksAreSequences
<1>2. /\ SubSeq(c, 1, fork) \in Seq(Seq(Txs))
      /\ Len(SubSeq(c, 1, fork)) = fork
      /\ \A h \in 1..fork : SubSeq(c, 1, fork)[h] = c[h]
  <2>1. \A h \in 1..fork : c[h] \in Seq(Txs)
    OBVIOUS
  <2> QED
    BY <2>1, SubSeqProperties
<1>3. fork + (depth + 1) = Len(c) + 1
  OBVIOUS
<1> DEFINE base == SubSeq(c, 1, fork)
<1>4. /\ base \o branch \in Seq(Seq(Txs))
      /\ Len(base \o branch) = Len(c) + 1
      /\ \A h \in 1..Len(c) + 1 : (base \o branch)[h] =
           IF h <= fork THEN base[h] ELSE branch[h - fork]
  <2> HIDE DEF base
  <2>1. base \in Seq(Seq(Txs)) /\ Len(base) = fork
    BY <1>2 DEF base
  <2>2. /\ base \o branch \in Seq(Seq(Txs))
        /\ Len(base \o branch) = Len(base) + Len(branch)
        /\ \A h \in 1..Len(base) + Len(branch) :
             (base \o branch)[h] = IF h <= Len(base) THEN base[h] ELSE branch[h - Len(base)]
    BY <1>1, <2>1, ConcatProperties
  <2> QED
    BY <1>1, <1>3, <2>1, <2>2
<1>5. fork \in Nat /\ \A h \in 1..fork : base[h] = c[h]
  BY <1>2
<1>6. ASSUME NEW h \in 1..Len(c) + 1
      PROVE  (base \o branch)[h] = IF h <= fork THEN c[h] ELSE branch[h - fork]
  <2>1. (base \o branch)[h] = IF h <= fork THEN base[h] ELSE branch[h - fork]
    BY <1>4
  <2>2. h <= fork => h \in 1..fork
    <3> HIDE DEF base
    <3> QED
      BY <1>5
  <2>3. h <= fork => base[h] = c[h]
    <3> HIDE DEF base, fork
    <3> QED
      BY <1>5, <2>2
  <2> HIDE DEF base, fork
  <2> QED
    BY <2>1, <2>3
<1> QED
  BY <1>4, <1>6

\* TypeOK in four parts: what the listener and its environment keep, where the
\* scan of the chain stands, where the scan of a block stands, and the history.
StoreType ==
  /\ chain \in Seq(Seq(Txs))
  /\ watched \in Seq([address : Addresses, user_id : Users])
  /\ processed \in SUBSET Txs
  /\ faults \in Nat /\ stops \in Nat

ScanType ==
  /\ pc \in {"idle", "start", "count", "block", "tx", "credit"}
  /\ last_height \in 0..Len(chain)
  /\ current_height \in Nat /\ height \in Nat
  /\ pc \in {"block", "tx", "credit"} =>
       last_height < height /\ height <= current_height /\ current_height <= Len(chain)

PlaceType ==
  /\ block \in Seq(Txs)
  /\ next \in 1..Len(block) + 1 /\ pos \in Nat \ {0}
  /\ pc \notin {"tx", "credit"} => next = 1
  /\ pc # "credit" => pos = 1
  /\ pc = "credit" => next <= Len(block) /\ pos <= Len(Pays[Current]) + 1

HistoryType ==
  /\ offered \in [Outputs -> Nat]
  /\ credited \in SUBSET (Addresses \X Users)
  /\ forgotten \in [Txs -> Nat]
  /\ excused \in SUBSET Txs

\* The four parts are TypeOK.
LEMMA TypeParts == TypeOK <=> StoreType /\ ScanType /\ PlaceType /\ HistoryType
  BY DEF TypeOK, StoreType, ScanType, PlaceType, HistoryType

\* The listener starts well typed.
LEMMA TypeInit == Init => TypeOK
  BY EmptySeq DEF Init, TypeOK

\* The transaction under way is one of the system.
LEMMA CurrentType ==
  ASSUME PlaceType, next <= Len(block)
  PROVE  Current \in Txs /\ Len(Pays[Current]) \in Nat /\ Pays[Current] \in Seq(Addresses)
<1>1. Current \in Txs
  BY DEF PlaceType, Current
<1> QED
  BY <1>1, PaysAssumption

\* A step leaves a store of the same type, and a chain that is no shorter: a
\* reorganisation of the node adds a block.
LEMMA StoreStep ==
  ASSUME StoreType, PlaceType, [Next]_vars
  PROVE  StoreType' /\ Len(chain) \in Nat /\ Len(chain') \in Nat /\ Len(chain) <= Len(chain')
<1>0. Len(chain) \in Nat
  BY DEF StoreType
<1>1. CASE Mine
  <2>1. PICK b \in Blocks : chain' = Append(chain, b)
    BY <1>1 DEF Mine
  <2>2. b \in Seq(Txs)
    BY BlocksAreSequences
  <2>3. chain' \in Seq(Seq(Txs)) /\ Len(chain') = Len(chain) + 1
    BY <2>1, <2>2 DEF StoreType
  <2>4. UNCHANGED <<watched, processed, faults, stops>>
    BY <1>1 DEF Mine, listener, budgets
  <2> QED
    BY <1>0, <2>3, <2>4 DEF StoreType
<1>2. CASE Reorg
  <2>1. PICK depth \in 1..Len(chain) : \E branch \in [1..depth + 1 -> Blocks] :
          chain' = SubSeq(chain, 1, Len(chain) - depth) \o branch
    BY <1>2 DEF Reorg
  <2>2. PICK branch \in [1..depth + 1 -> Blocks] :
          chain' = SubSeq(chain, 1, Len(chain) - depth) \o branch
    BY <2>1
  <2>3. chain \in Seq(Seq(Txs))
    BY DEF StoreType
  <2>4. chain' \in Seq(Seq(Txs)) /\ Len(chain') = Len(chain) + 1
    BY <2>2, <2>3, ReorgChain
  <2>5. UNCHANGED <<watched, processed, faults, stops>>
    BY <1>2 DEF Reorg, listener, budgets
  <2> QED
    BY <1>0, <2>4, <2>5 DEF StoreType
<1>3. CASE Watch
  BY <1>0, <1>3 DEF Watch, StoreType, budgets
<1>4. CASE MarkProcessed
  <2>1. Current \in Txs
    BY <1>4, CurrentType DEF MarkProcessed, PlaceType
  <2>2. processed' = processed \cup {Current} /\ UNCHANGED <<chain, watched, faults, stops>>
    BY <1>4 DEF MarkProcessed, budgets
  <2> QED
    BY <1>0, <2>1, <2>2 DEF StoreType
<1>5. CASE Restart
  <2>1. watched' = <<>> /\ processed' = {} /\ stops' = stops + 1 /\ UNCHANGED <<chain, faults>>
    BY <1>5 DEF Restart
  <2> QED
    BY <1>0, <2>1, EmptySeq DEF StoreType
<1>6. CASE /\ UNCHANGED <<chain, watched, processed>>
           /\ faults' \in {faults, faults + 1} /\ stops' \in {stops, stops + 1}
  BY <1>0, <1>6 DEF StoreType
<1>7. CASE Run \/ Cancel \/ RunStart \/ StartError \/ PollCount \/ PollBlock \/ UNCHANGED vars
  BY <1>6, <1>7 DEF Run, Cancel, RunStart, StartError, PollCount, PollBlock, vars, listener, budgets
<1>8. CASE SkipProcessed \/ FetchTx \/ Offer \/ PassOutput \/ NextHeight
  BY <1>6, <1>8 DEF SkipProcessed, FetchTx, Offer, PassOutput, NextHeight, listener, budgets
<1>9. CASE FinishPoll \/ PollError \/ TxError
  BY <1>6, <1>9 DEF FinishPoll, PollError, TxError, listener, budgets
<1> QED
  BY <1>1, <1>2, <1>3, <1>4, <1>5, <1>7, <1>8, <1>9 DEF Next, Poll

\* The heights of a poll stay in order and on the chain.
LEMMA ScanStep ==
  ASSUME StoreType, ScanType, PlaceType, [Next]_vars
  PROVE  ScanType'
<1>0. Len(chain) \in Nat /\ Len(chain') \in Nat /\ Len(chain) <= Len(chain')
  BY StoreStep
<1>1. CASE UNCHANGED <<pc, last_height, current_height, height>>
  BY <1>0, <1>1 DEF ScanType
<1>2. CASE Mine \/ Reorg \/ Watch \/ SkipProcessed \/ TxError \/ UNCHANGED vars
  BY <1>1, <1>2 DEF Mine, Reorg, Watch, SkipProcessed, TxError, listener, locals, scan, vars
<1>3. CASE Offer \/ PassOutput
  BY <1>1, <1>3 DEF Offer, PassOutput, listener, scan
<1>5. CASE Run \/ StartError
  <2>1. /\ pc' \in {"idle", "start"}
        /\ UNCHANGED <<last_height, current_height, height, chain>>
    BY <1>5 DEF Run, StartError, listener, locals, scan
  <2> QED
    BY <1>0, <2>1 DEF ScanType
<1>6. CASE RunStart
  <2>1. /\ pc' = "count" /\ last_height' = Len(chain)
        /\ UNCHANGED <<chain, current_height, height>>
    BY <1>6 DEF RunStart, locals, scan
  <2> QED
    BY <1>0, <2>1 DEF ScanType
<1>7. CASE Cancel \/ PollError
  <2>1. /\ pc' \in {"idle", "count"} /\ current_height' = 0 /\ height' = 0
        /\ UNCHANGED <<last_height, chain>>
    BY <1>7 DEF Cancel, PollError, listener, NoPoll
  <2> QED
    BY <1>0, <2>1 DEF ScanType
<1>8. CASE Restart
  <2>1. /\ pc' = "idle" /\ last_height' = 0 /\ current_height' = 0 /\ height' = 0
    BY <1>8 DEF Restart, NoPoll
  <2> QED
    BY <1>0, <2>1 DEF ScanType
<1>9. CASE PollCount
  <2>1. /\ pc' = "block" /\ Len(chain) > last_height /\ current_height' = Len(chain)
        /\ height' = last_height + 1 /\ UNCHANGED <<chain, last_height>>
    BY <1>9 DEF PollCount, listener
  <2> QED
    BY <1>0, <2>1 DEF ScanType
<1>10. CASE PollBlock \/ FetchTx \/ MarkProcessed
  <2>1. /\ pc \in {"block", "tx", "credit"} /\ pc' \in {"tx", "credit"}
        /\ UNCHANGED <<chain, last_height, current_height, height>>
    BY <1>10 DEF PollBlock, FetchTx, MarkProcessed, listener, locals, scan
  <2> QED
    BY <1>0, <2>1 DEF ScanType
<1>11. CASE NextHeight
  <2>1. /\ pc = "tx" /\ pc' = "block" /\ height < current_height /\ height' = height + 1
        /\ UNCHANGED <<chain, last_height, current_height>>
    BY <1>11 DEF NextHeight, listener
  <2> QED
    BY <1>0, <2>1 DEF ScanType
<1>12. CASE FinishPoll
  <2>1. /\ pc = "tx" /\ pc' = "count" /\ last_height' = current_height
        /\ current_height' = 0 /\ height' = 0 /\ chain' = chain
    BY <1>12 DEF FinishPoll, NoPoll
  <2> QED
    BY <1>0, <2>1 DEF ScanType
<1> QED
  BY <1>2, <1>3, <1>5, <1>6, <1>7, <1>8, <1>9, <1>10, <1>11, <1>12 DEF Next, Poll

\* A poll looks at a place of the block it has in hand.
LEMMA PlaceStep ==
  ASSUME StoreType, ScanType, PlaceType, [Next]_vars
  PROVE  PlaceType'
<1>0. Current' = block'[next'] /\ Current = block[next]
  BY DEF Current
<1>1. CASE UNCHANGED <<pc, block, next, pos>>
  BY <1>0, <1>1 DEF PlaceType
<1>2. CASE Mine \/ Reorg \/ Watch \/ UNCHANGED vars
  BY <1>1, <1>2 DEF Mine, Reorg, Watch, locals, place, vars
<1>3. CASE /\ pc \notin {"tx", "credit"} /\ pc' \notin {"tx", "credit"}
           /\ UNCHANGED <<block, next, pos>>
  BY <1>3 DEF PlaceType
<1>4. CASE Run \/ RunStart \/ StartError \/ PollCount
  BY <1>3, <1>4 DEF Run, RunStart, StartError, PollCount, locals, place
<1>5. CASE pc' \notin {"tx", "credit"} /\ block' = <<>> /\ next' = 1 /\ pos' = 1
  BY <1>5, EmptySeq DEF PlaceType
<1>6. CASE Cancel \/ Restart \/ NextHeight \/ FinishPoll \/ PollError
  BY <1>5, <1>6 DEF Cancel, Restart, NextHeight, FinishPoll, PollError, NoPoll, NoBlock
<1>7. CASE PollBlock
  <2>1. /\ pc = "block" /\ pc' = "tx" /\ height <= Len(chain) /\ block' = chain[height]
        /\ UNCHANGED <<next, pos>>
    BY <1>7 DEF PollBlock
  <2>2. height \in 1..Len(chain)
    BY <2>1 DEF ScanType, StoreType
  <2>3. block' \in Seq(Txs) /\ Len(block') \in Nat
    BY <2>1, <2>2 DEF StoreType
  <2>4. next = 1 /\ pos = 1
    BY <2>1 DEF PlaceType
  <2> QED
    BY <2>1, <2>3, <2>4 DEF PlaceType
<1>8. CASE SkipProcessed \/ TxError
  <2>1. /\ pc = "tx" /\ pc' = "tx" /\ next <= Len(block) /\ next' = next + 1
        /\ UNCHANGED <<block, pos>>
    BY <1>8 DEF SkipProcessed, TxError
  <2> QED
    BY <2>1 DEF PlaceType
<1>9. CASE FetchTx
  <2>1. /\ pc = "tx" /\ pc' = "credit" /\ next <= Len(block) /\ UNCHANGED <<block, next, pos>>
    BY <1>9 DEF FetchTx, locals, place
  <2>2. Len(Pays[Current]) \in Nat /\ Current' = Current
    BY <1>0, <2>1, CurrentType
  <2> QED
    BY <2>1, <2>2 DEF PlaceType
<1>10. CASE Offer \/ PassOutput
  <2>1. /\ pc = "credit" /\ pc' = "credit" /\ pos <= Len(Pays[Current]) /\ pos' = pos + 1
        /\ UNCHANGED <<block, next>>
    BY <1>10 DEF Offer, PassOutput
  <2>2. Len(Pays[Current]) \in Nat /\ Current' = Current
    BY <1>0, <2>1, CurrentType DEF PlaceType
  <2> QED
    BY <2>1, <2>2 DEF PlaceType
<1>11. CASE MarkProcessed
  <2>1. /\ pc = "credit" /\ pc' = "tx" /\ next' = next + 1 /\ pos' = 1 /\ block' = block
    BY <1>11 DEF MarkProcessed
  <2> QED
    BY <2>1 DEF PlaceType
<1> QED
  BY <1>2, <1>4, <1>6, <1>7, <1>8, <1>9, <1>10, <1>11 DEF Next, Poll

\* The history counts outputs and transactions of the system.
LEMMA HistoryStep ==
  ASSUME StoreType, PlaceType, HistoryType, [Next]_vars
  PROVE  HistoryType'
<1>1. CASE UNCHANGED history
  BY <1>1 DEF HistoryType, history
<1>2. CASE Mine \/ Run \/ StartError \/ PollCount \/ PollBlock \/ SkipProcessed \/ UNCHANGED vars
  BY <1>1, <1>2 DEF Mine, Run, StartError, PollCount, PollBlock, SkipProcessed, vars
<1>3. CASE FetchTx \/ PassOutput \/ MarkProcessed \/ NextHeight \/ FinishPoll \/ PollError
  BY <1>1, <1>3 DEF FetchTx, PassOutput, MarkProcessed, NextHeight, FinishPoll, PollError
<1>4. ASSUME NEW S \in SUBSET Txs, excused' = excused \cup S,
             UNCHANGED <<offered, credited, forgotten>>
      PROVE  HistoryType'
  BY <1>4 DEF HistoryType
<1>5. CASE Reorg
  <2>1. PICK depth \in 1..Len(chain) : \E branch \in [1..depth + 1 -> Blocks] :
          /\ excused' = excused \cup
               UNION {ToSet(branch[i]) : i \in {j \in DOMAIN branch :
                                                Len(chain) - depth + j <= Reached}}
          /\ UNCHANGED <<offered, credited, forgotten>>
    BY <1>5 DEF Reorg
  <2>2. PICK branch \in [1..depth + 1 -> Blocks] :
          /\ excused' = excused \cup
               UNION {ToSet(branch[i]) : i \in {j \in DOMAIN branch :
                                                Len(chain) - depth + j <= Reached}}
          /\ UNCHANGED <<offered, credited, forgotten>>
    BY <2>1
  <2>3. \A i \in DOMAIN branch : ToSet(branch[i]) \subseteq Txs
    BY BlocksAreSequences DEF ToSet
  <2>4. UNION {ToSet(branch[i]) : i \in {j \in DOMAIN branch :
                                         Len(chain) - depth + j <= Reached}} \in SUBSET Txs
    BY <2>3
  <2> QED
    BY <1>4, <2>2, <2>4
<1>6. CASE Watch
  <2>1. PICK a \in Addresses : /\ excused' = excused \cup {t \in processed : a \in ToSet(Pays[t])}
                               /\ UNCHANGED <<offered, credited, forgotten>>
    BY <1>6 DEF Watch
  <2>2. {t \in processed : a \in ToSet(Pays[t])} \in SUBSET Txs
    BY DEF StoreType
  <2> QED
    BY <1>4, <2>1, <2>2
<1>7. CASE RunStart
  <2>1. chain \in Seq(Seq(Txs))
    BY DEF StoreType
  <2>2. TxsOf(chain) \in SUBSET Txs
    BY <2>1 DEF TxsOf, ToSet
  <2>3. excused' = excused \cup TxsOf(chain) /\ UNCHANGED <<offered, credited, forgotten>>
    BY <1>7 DEF RunStart
  <2> QED
    BY <1>4, <2>2, <2>3
<1>8. CASE TxError
  <2>1. Current \in Txs
    BY <1>8, CurrentType DEF TxError
  <2>2. excused' = excused \cup {Current} /\ UNCHANGED <<offered, credited, forgotten>>
    BY <1>8 DEF TxError
  <2> QED
    BY <1>4, <2>1, <2>2
<1>9. CASE Cancel \/ Restart
  <2>1. forgotten \in [Txs -> Nat]
    BY DEF HistoryType
  <2>2. forgotten' \in [Txs -> Nat]
    <3>1. CASE Cancel
      BY <2>1, <3>1 DEF Cancel
    <3>2. CASE Restart
      BY <2>1, <3>2 DEF Restart
    <3> QED
      BY <1>9, <3>1, <3>2
  <2>3. credited' \in {credited, {}} /\ UNCHANGED <<offered, excused>>
    BY <1>9 DEF Cancel, Restart
  <2> QED
    BY <2>2, <2>3 DEF HistoryType
<1>10. CASE Offer
  <2>1. /\ pos <= Len(Pays[Current]) /\ next <= Len(block)
        /\ IsWatched(Pays[Current][pos])
        /\ offered' = [offered EXCEPT ![<<Current, pos>>] = @ + 1]
        /\ credited' = credited \cup {<<Pays[Current][pos], Owner(Pays[Current][pos])>>}
        /\ UNCHANGED <<forgotten, excused>>
    BY <1>10 DEF Offer, PlaceType
  <2>2. Current \in Txs /\ Len(Pays[Current]) \in Nat
    BY <2>1, CurrentType
  <2>3. pos \in 1..Len(Pays[Current])
    BY <2>1, <2>2 DEF PlaceType
  <2>4. <<Current, pos>> \in Outputs
    BY <2>2, <2>3, OutputOf
  <2>5. offered' \in [Outputs -> Nat]
    BY <2>1, <2>4 DEF HistoryType
  <2>6. <<Pays[Current][pos], Owner(Pays[Current][pos])>> \in Addresses \X Users
    BY <2>1, OwnerType DEF StoreType
  <2> QED
    BY <2>1, <2>5, <2>6 DEF HistoryType
<1> QED
  BY <1>2, <1>3, <1>5, <1>6, <1>7, <1>8, <1>9, <1>10 DEF Next, Poll

\* Every step of the listener, of the callers and of the chain keeps the types.
LEMMA TypeStep == TypeOK /\ [Next]_vars => TypeOK'
  BY TypeParts, StoreStep, ScanStep, PlaceStep, HistoryStep, PTL

\* Every reachable state is well typed.
THEOREM TypeCorrect == Spec => []TypeOK
  BY TypeInit, TypeStep, PTL DEF Spec

-----------------------------------------------------------------------------
(* At most one call of the callback per output and loss of memory *)

\* The bound of DuplicateOnlyAfterInterruption is inductive only with the term
\* for what is remembered, and because a transaction under way is not processed.
OnceInv ==
  /\ \A t \in Txs : \A i \in 1..Len(Pays[t]) :
       offered[<<t, i>>] <= forgotten[t] + IF Remembers(t, i) THEN 1 ELSE 0
  /\ pc = "credit" => Current \notin processed

\* Every step keeps the bound on how often an output was offered.
LEMMA OnceStep ==
  ASSUME TypeOK, OnceInv, [Next]_vars
  PROVE  OnceInv'
<1> USE DEF listener, budgets, history, scan, place, locals, NoPoll, NoBlock
<1>1. ASSUME NEW t \in Txs, NEW i \in 1..Len(Pays[t])
      PROVE  <<t, i>> \in Outputs /\ offered[<<t, i>>] \in Nat /\ forgotten[t] \in Nat
  BY OutputOf DEF TypeOK
<1>2. CASE /\ UNCHANGED <<processed, offered, forgotten>>
           /\ \/ pc # "credit" /\ pc' # "credit"
              \/ UNCHANGED <<pc, block, next, pos>>
  BY <1>2 DEF OnceInv, Remembers, Current
<1>3. CASE Mine \/ Reorg \/ Watch \/ UNCHANGED vars
  BY <1>2, <1>3 DEF Mine, Reorg, Watch, vars
<1>4. CASE Run \/ RunStart \/ StartError \/ PollCount \/ PollBlock \/ PollError
  BY <1>2, <1>4 DEF Run, RunStart, StartError, PollCount, PollBlock, PollError
<1>5. CASE SkipProcessed \/ NextHeight \/ FinishPoll \/ TxError
  BY <1>2, <1>5 DEF SkipProcessed, NextHeight, FinishPoll, TxError
<1>6. CASE Cancel
  <2>1. pc' = "idle" /\ processed' = processed /\ offered' = offered
    BY <1>6 DEF Cancel
  <2>2. ASSUME NEW t \in Txs, NEW i \in 1..Len(Pays[t])
        PROVE  offered[<<t, i>>] <= forgotten'[t] + IF t \in processed THEN 1 ELSE 0
    <3>1. forgotten'[t] = forgotten[t] + IF pc = "credit" /\ t = Current THEN 1 ELSE 0
      BY <1>6 DEF Cancel, TypeOK
    <3>2. pc = "credit" /\ t = Current => t \notin processed
      BY DEF OnceInv
    <3> QED
      BY <1>1, <3>1, <3>2 DEF OnceInv, Remembers
  <2> QED
    BY <2>1, <2>2 DEF OnceInv, Remembers
<1>7. CASE Restart
  <2>1. pc' = "idle" /\ processed' = {} /\ offered' = offered
    BY <1>7 DEF Restart
  <2>2. ASSUME NEW t \in Txs, NEW i \in 1..Len(Pays[t])
        PROVE  offered[<<t, i>>] <= forgotten'[t]
    <3>1. forgotten'[t] =
            forgotten[t] + IF t \in processed \/ (pc = "credit" /\ t = Current) THEN 1 ELSE 0
      BY <1>7 DEF Restart, TypeOK
    <3> QED
      BY <1>1, <3>1 DEF OnceInv, Remembers
  <2>3. ASSUME NEW t \in Txs
        PROVE  forgotten'[t] \in Nat
    BY <1>7 DEF Restart, TypeOK
  <2> QED
    BY <2>1, <2>2, <2>3 DEF OnceInv, Remembers
<1>8. CASE FetchTx
  <2>1. /\ pc = "tx" /\ pc' = "credit" /\ pos' = 1 /\ Current' = Current
        /\ Current \notin processed
        /\ UNCHANGED <<processed, offered, forgotten>>
    BY <1>8 DEF FetchTx, TypeOK, Current
  <2>2. ASSUME NEW t \in Txs, NEW i \in 1..Len(Pays[t])
        PROVE  Remembers(t, i)' <=> Remembers(t, i)
    BY <2>1 DEF Remembers
  <2> QED
    BY <2>1, <2>2 DEF OnceInv
<1>9. CASE Offer
  <2>1. /\ pc = "credit" /\ pc' = "credit" /\ Current' = Current /\ pos' = pos + 1
        /\ pos \in 1..Len(Pays[Current]) /\ Current \in Txs
        /\ offered' = [offered EXCEPT ![<<Current, pos>>] = @ + 1]
        /\ processed' = processed /\ forgotten' = forgotten
    BY <1>9 DEF Offer, Current, TypeOK
  <2>2. ASSUME NEW t \in Txs, NEW i \in 1..Len(Pays[t])
        PROVE  offered'[<<t, i>>] <= forgotten[t] + IF Remembers(t, i)' THEN 1 ELSE 0
    <3>1. CASE t = Current /\ i = pos
      <4>1. offered'[<<t, i>>] = offered[<<t, i>>] + 1
        BY <1>1, <2>1, <3>1 DEF TypeOK
      <4>2. ~Remembers(t, i) /\ Remembers(t, i)'
        BY <2>1, <3>1 DEF OnceInv, Remembers, TypeOK
      <4>3. offered[<<t, i>>] <= forgotten[t]
        BY <1>1, <4>2 DEF OnceInv
      <4> QED
        BY <1>1, <4>1, <4>2, <4>3
    <3>2. CASE ~(t = Current /\ i = pos)
      <4>1. offered'[<<t, i>>] = offered[<<t, i>>]
        BY <1>1, <2>1, <3>2 DEF TypeOK
      <4>2. Remembers(t, i) => Remembers(t, i)'
        BY <2>1 DEF Remembers, TypeOK
      <4> QED
        BY <1>1, <4>1, <4>2 DEF OnceInv
    <3> QED
      BY <3>1, <3>2
  <2> QED
    BY <2>1, <2>2 DEF OnceInv
<1>10. CASE PassOutput
  <2>1. /\ pc = "credit" /\ pc' = "credit" /\ Current' = Current /\ pos' = pos + 1
        /\ UNCHANGED <<processed, offered, forgotten>>
    BY <1>10 DEF PassOutput, Current
  <2>2. ASSUME NEW t \in Txs, NEW i \in 1..Len(Pays[t]), Remembers(t, i)
        PROVE  Remembers(t, i)'
    BY <2>1, <2>2 DEF Remembers, TypeOK
  <2> QED
    BY <1>1, <2>1, <2>2 DEF OnceInv
<1>11. CASE MarkProcessed
  <2>1. /\ pc' = "tx" /\ processed' = processed \cup {Current}
        /\ offered' = offered /\ forgotten' = forgotten
    BY <1>11 DEF MarkProcessed
  <2>2. ASSUME NEW t \in Txs, NEW i \in 1..Len(Pays[t]), Remembers(t, i)
        PROVE  Remembers(t, i)'
    BY <2>1, <2>2 DEF Remembers
  <2> QED
    BY <1>1, <2>1, <2>2 DEF OnceInv
<1> QED
  BY <1>3, <1>4, <1>5, <1>6, <1>7, <1>8, <1>9, <1>10, <1>11 DEF Next, Poll

\* In every reachable state an output was offered once more than it was forgotten only
\* while it is remembered.
LEMMA OnceAlways == Spec => [](TypeOK /\ OnceInv)
<1>1. Init => OnceInv
  <2> SUFFICES ASSUME Init
               PROVE  OnceInv
    OBVIOUS
  <2> QED
    BY OutputOf DEF Init, OnceInv
<1>2. TypeOK /\ OnceInv /\ [Next]_vars => OnceInv'
  BY OnceStep
<1> QED
  BY <1>1, <1>2, TypeInit, TypeStep, PTL DEF Spec

\* An output is offered again only after the listener lost what it knew of its
\* transaction: `processed` in poll, zcash.rs.
THEOREM AtMostOnce == Spec => []DuplicateOnlyAfterInterruption
<1>1. TypeOK /\ OnceInv => DuplicateOnlyAfterInterruption
  <2> SUFFICES ASSUME TypeOK, OnceInv, NEW o \in Outputs
               PROVE  offered[o] <= 1 + forgotten[o[1]]
    BY DEF DuplicateOnlyAfterInterruption
  <2>1. PICK t \in Txs : o \in {t} \X DOMAIN Pays[t]
    BY DEF Outputs
  <2>2. PICK i \in 1..Len(Pays[t]) : o = <<t, i>>
    BY <2>1, PaysAssumption
  <2>3. offered[<<t, i>>] \in Nat /\ forgotten[t] \in Nat
    BY OutputOf DEF TypeOK
  <2> QED
    BY <2>2, <2>3 DEF OnceInv
<1> QED
  BY <1>1, OnceAlways, PTL

-----------------------------------------------------------------------------
(* An address keeps its owner *)

\* The owner of an address is the user of its first entry, before a step and after it.
LEMMA OwnerOfFirst ==
  ASSUME NEW a
  PROVE  /\ Owner(a) = watched[First(watched, a)].user_id
         /\ Owner(a)' = watched'[First(watched', a)].user_id
  BY DEF Owner

\* As long as the registrations stay, so do the owners.
LEMMA OwnerStays ==
  ASSUME watched' = watched, NEW a
  PROVE  Owner(a)' = Owner(a) /\ IsWatched(a)' = IsWatched(a)
  BY OwnerOfFirst DEF IsWatched

\* A registration added at the end leaves the owner of an address that has one.
LEMMA OwnerKept ==
  ASSUME watched \in Seq([address : Addresses, user_id : Users]),
         NEW x \in [address : Addresses, user_id : Users],
         watched' = Append(watched, x), NEW a, IsWatched(a)
  PROVE  IsWatched(a)' /\ Owner(a)' = Owner(a)
<1> DEFINE i == First(watched, a)
           j == First(watched', a)
<1>1. /\ watched' \in Seq([address : Addresses, user_id : Users])
      /\ Len(watched') = Len(watched) + 1
      /\ \A k \in 1..Len(watched) : watched'[k] = watched[k]
  BY AppendProperties
<1>2. /\ i \in 1..Len(watched) /\ watched[i].address = a
      /\ \A k \in 1..Len(watched) : watched[k].address = a => i <= k
  <2>1. \E k \in DOMAIN watched : watched[k].address = a
    BY DEF IsWatched
  <2>2. /\ i \in DOMAIN watched /\ watched[i].address = a
        /\ \A k \in DOMAIN watched : watched[k].address = a => i <= k
    <3> HIDE DEF First
    <3> QED
      BY <2>1, FirstEntry
  <2> HIDE DEF i
  <2> QED
    BY <2>2
<1> HIDE DEF i
<1>3. Len(watched) \in Nat
  OBVIOUS
<1>4. i \in DOMAIN watched' /\ watched'[i] = watched[i]
  BY <1>1, <1>2, <1>3
<1>5. IsWatched(a)'
  BY <1>2, <1>4 DEF IsWatched
<1>6. /\ j \in 1..Len(watched') /\ watched'[j].address = a
      /\ \A k \in 1..Len(watched') : watched'[k].address = a => j <= k
  <2>1. \E k \in DOMAIN watched' : watched'[k].address = a
    BY <1>2, <1>4
  <2>2. /\ j \in DOMAIN watched' /\ watched'[j].address = a
        /\ \A k \in DOMAIN watched' : watched'[k].address = a => j <= k
    BY <1>1, <2>1, FirstEntry
  <2> HIDE DEF j
  <2> QED
    BY <1>1, <2>2
<1> HIDE DEF j
<1>7. j <= i
  BY <1>2, <1>4, <1>6
<1>8. j \in 1..Len(watched)
  BY <1>1, <1>2, <1>3, <1>6, <1>7
<1>9. i = j
  BY <1>1, <1>2, <1>6, <1>7, <1>8
<1>10. Owner(a) = watched[i].user_id /\ Owner(a)' = watched'[j].user_id
  BY OwnerOfFirst DEF i, j
<1> QED
  BY <1>4, <1>5, <1>9, <1>10

\* Whoever was credited is the owner of the address he was credited for.
OwnerInv == \A p \in credited : IsWatched(p[1]) /\ p[2] = Owner(p[1])

\* Every step leaves the credits with the owners of their addresses.
LEMMA OwnerStep ==
  ASSUME TypeOK, OwnerInv, [Next]_vars
  PROVE  OwnerInv'
<1>1. CASE UNCHANGED <<watched, credited>>
  BY <1>1, OwnerStays DEF OwnerInv
<1>2. CASE Mine \/ Reorg \/ Run \/ Cancel \/ RunStart \/ StartError \/ UNCHANGED vars
  BY <1>1, <1>2 DEF Mine, Reorg, Run, Cancel, RunStart, StartError, vars, listener, history
<1>3. CASE PollCount \/ PollBlock \/ SkipProcessed \/ FetchTx \/ PassOutput
  BY <1>1, <1>3 DEF PollCount, PollBlock, SkipProcessed, FetchTx, PassOutput, listener, history
<1>4. CASE MarkProcessed \/ NextHeight \/ FinishPoll \/ PollError \/ TxError
  BY <1>1, <1>4 DEF MarkProcessed, NextHeight, FinishPoll, PollError, TxError, listener, history
<1>5. CASE Watch
  <2>1. PICK x \in [address : Addresses, user_id : Users] :
          watched' = Append(watched, x) /\ credited' = credited
    BY <1>5 DEF Watch
  <2>2. watched \in Seq([address : Addresses, user_id : Users])
    BY DEF TypeOK
  <2>3. ASSUME NEW p \in credited
        PROVE  IsWatched(p[1])' /\ p[2] = Owner(p[1])'
    <3>1. IsWatched(p[1]) /\ p[2] = Owner(p[1])
      BY DEF OwnerInv
    <3> QED
      BY <2>1, <2>2, <3>1, OwnerKept
  <2> QED
    BY <2>1, <2>3 DEF OwnerInv
<1>6. CASE Restart
  BY <1>6 DEF Restart, OwnerInv
<1>7. CASE Offer
  <2>1. PICK a : /\ IsWatched(a)
                 /\ credited' = credited \cup {<<a, Owner(a)>>}
                 /\ watched' = watched
    BY <1>7 DEF Offer, listener
  <2>2. \A b : IsWatched(b)' = IsWatched(b) /\ Owner(b)' = Owner(b)
    BY <2>1, OwnerStays
  <2> QED
    BY <2>1, <2>2 DEF OwnerInv
<1> QED
  BY <1>2, <1>3, <1>4, <1>5, <1>6, <1>7 DEF Next, Poll

\* The deposits of an address go to one user as long as the process lives: the `find`
\* of check_transaction, zcash.rs, stops at the registration made first.
THEOREM AddressKeepsOwner == Spec => []OneOwnerPerAddress
<1>1. Init => OwnerInv
  BY DEF Init, OwnerInv
<1>2. OwnerInv => OneOwnerPerAddress
  BY DEF OwnerInv, OneOwnerPerAddress
<1>3. TypeOK /\ OwnerInv /\ [Next]_vars => OwnerInv'
  BY OwnerStep
<1> QED
  BY <1>1, <1>2, <1>3, TypeCorrect, PTL DEF Spec

-----------------------------------------------------------------------------
(* Nothing but the excused is passed over *)

Settled(t) ==
  \/ t \in excused
  \/ \A i \in 1..Len(Pays[t]) : IsWatched(Pays[t][i]) => offered[<<t, i>>] >= 1

\* The highest block this run has dealt with.
Done == IF pc \in {"block", "tx", "credit"} THEN height - 1 ELSE last_height

\* Processed transactions are settled, and so is what the chain holds up to Done.
ProcessedSettled == \A t \in processed : Settled(t)
ChainSettled == Polling => \A h \in 1..Done : \A t \in ToSet(chain[h]) : Settled(t)

\* Of the block under way the transactions before `next` are settled, and of the
\* transaction under way the outputs before `pos`.
BlockSettled == pc \in {"tx", "credit"} => \A i \in 1..next - 1 : Settled(block[i])
OutputsSettled ==
  pc = "credit" =>
    \A i \in 1..pos - 1 : IsWatched(Pays[Current][i]) => offered[<<Current, i>>] >= 1

\* The block under way is the chain's, but for what a reorganisation brought in.
BlockOfChain ==
  pc \in {"tx", "credit"} =>
    \A t \in ToSet(chain[height]) : t \in ToSet(block) \/ t \in excused

SettledInv ==
  ProcessedSettled /\ ChainSettled /\ BlockSettled /\ OutputsSettled /\ BlockOfChain

\* Nothing settled is ever unsettled: calls are only added, and a newly watched
\* address excuses the transactions already processed.
LEMMA SettledStays ==
  ASSUME TypeOK, [Next]_vars, NEW t \in Txs, Settled(t), watched' \in {watched, <<>>}
  PROVE  Settled(t)'
<1> USE DEF listener, budgets, history, scan, place, locals
<1>1. \A i \in 1..Len(Pays[t]) : <<t, i>> \in Outputs /\ offered[<<t, i>>] \in Nat
  BY OutputOf DEF TypeOK
<1>2. CASE Offer
  <2>1. /\ offered' = [offered EXCEPT ![<<Current, pos>>] = @ + 1]
        /\ watched' = watched /\ excused' = excused
    BY <1>2 DEF Offer
  <2>2. \A i \in 1..Len(Pays[t]) : offered'[<<t, i>>] >= offered[<<t, i>>]
    <3> SUFFICES ASSUME NEW i \in 1..Len(Pays[t])
                 PROVE  offered'[<<t, i>>] >= offered[<<t, i>>]
      OBVIOUS
    <3>1. offered'[<<t, i>>] = IF <<t, i>> = <<Current, pos>> THEN offered[<<t, i>>] + 1
                                                              ELSE offered[<<t, i>>]
      BY <1>1, <2>1 DEF TypeOK
    <3> QED
      BY <1>1, <3>1
  <2>3. offered' \in [Outputs -> Nat]
    BY TypeStep DEF TypeOK
  <2> QED
    BY <1>1, <2>1, <2>2, <2>3 DEF Settled, IsWatched
<1>3. CASE Restart
  BY <1>3 DEF Restart, Settled, IsWatched
<1>4. CASE offered' = offered /\ excused \subseteq excused'
  BY <1>4 DEF Settled, IsWatched
<1>5. CASE Mine \/ Reorg \/ Watch \/ Run \/ Cancel \/ RunStart \/ StartError \/ UNCHANGED vars
  BY <1>4, <1>5 DEF Mine, Reorg, Watch, Run, Cancel, RunStart, StartError, vars
<1>6. CASE PollCount \/ PollBlock \/ PollError \/ SkipProcessed \/ FetchTx
  BY <1>4, <1>6 DEF PollCount, PollBlock, PollError, SkipProcessed, FetchTx
<1>7. CASE PassOutput \/ MarkProcessed \/ NextHeight \/ FinishPoll \/ TxError
  BY <1>4, <1>7 DEF PassOutput, MarkProcessed, NextHeight, FinishPoll, TxError
<1> QED
  BY <1>2, <1>3, <1>5, <1>6, <1>7 DEF Next, Poll

\* What the chain holds are transactions.
LEMMA ChainTxs ==
  ASSUME TypeOK, NEW h \in 1..Len(chain)
  PROVE  chain[h] \in Seq(Txs) /\ ToSet(chain[h]) \subseteq Txs
<1>1. chain[h] \in Seq(Txs)
  BY DEF TypeOK
<1> QED
  BY <1>1 DEF ToSet

\* Where the listener is in the chain.
LEMMA DoneType ==
  ASSUME TypeOK
  PROVE  /\ Done \in 0..Len(chain)
         /\ pc \in {"block", "tx", "credit"} => height \in 1..Len(chain)
         /\ pc \in {"block", "tx", "credit"} => Done = height - 1
         /\ pc \in {"count", "start", "idle"} => Done = last_height
<1>1. Len(chain) \in Nat /\ last_height \in 0..Len(chain) /\ height \in Nat /\ current_height \in Nat
  BY DEF TypeOK
<1>2. pc \in {"block", "tx", "credit"} =>
        last_height < height /\ height <= current_height /\ current_height <= Len(chain)
  BY DEF TypeOK
<1>3. pc \in {"idle", "start", "count", "block", "tx", "credit"}
  BY DEF TypeOK
<1> QED
  BY <1>1, <1>2, <1>3 DEF Done

\* A block read to its end is settled.
LEMMA BlockRead ==
  ASSUME TypeOK, SettledInv, pc = "tx", next > Len(block)
  PROVE  \A h \in 1..height : \A t \in ToSet(chain[h]) : Settled(t)
<1>1. ASSUME NEW t \in ToSet(chain[height])
      PROVE  Settled(t)
  <2>1. CASE t \in excused
    BY <2>1 DEF Settled
  <2>2. CASE t \in ToSet(block)
    <3>1. PICK i \in 1..Len(block) : block[i] = t
      BY <2>2 DEF ToSet, TypeOK
    <3>2. i \in 1..next - 1
      BY DEF TypeOK
    <3> QED
      BY <3>1, <3>2 DEF SettledInv, BlockSettled
  <2> QED
    BY <1>1, <2>1, <2>2 DEF SettledInv, BlockOfChain
<1>2. \A h \in 1..height - 1 : \A t \in ToSet(chain[h]) : Settled(t)
  BY DoneType DEF SettledInv, ChainSettled, Polling
<1> QED
  BY <1>1, <1>2, DoneType

\* Every step keeps what the listener has passed over settled.
LEMMA SettledStep ==
  ASSUME TypeOK, SettledInv, [Next]_vars
  PROVE  SettledInv'
<1> USE DEF listener, budgets, history, scan, place, locals, NoPoll, NoBlock
<1> DEFINE Scanned(n) == \A h \in 1..n : \A t \in ToSet(chain[h]) : Settled(t)
<1>0. /\ TypeOK' /\ (Polling => Scanned(Done)) /\ \A t \in processed : t \in Txs
      /\ block \in Seq(Txs) /\ Len(block) \in Nat /\ Len(chain) \in Nat
  <2>1. TypeOK'
    BY TypeStep
  <2>2. Polling => Scanned(Done)
    BY DEF SettledInv, ChainSettled
  <2>3. block \in Seq(Txs) /\ chain \in Seq(Seq(Txs)) /\ \A t \in processed : t \in Txs
    BY DEF TypeOK
  <2> QED
    BY <2>1, <2>2, <2>3, LenProperties
\* What stays settled when the chain does not change.
<1>a. ASSUME watched' \in {watched, <<>>}, processed' \subseteq processed
      PROVE  ProcessedSettled'
  BY <1>0, <1>a, SettledStays DEF SettledInv, ProcessedSettled
<1>b. ASSUME watched' = watched, chain' = chain, NEW n \in 0..Len(chain), Scanned(n), Done' <= n
      PROVE  ChainSettled'
  <2>1. Done' \in Nat
    <3>1. /\ last_height' \in Nat /\ height' \in Nat
          /\ pc' \in {"block", "tx", "credit"} => last_height' < height'
      BY <1>0 DEF TypeOK
    <3>2. CASE pc' \in {"block", "tx", "credit"}
      <4>1. PICK m \in Nat, l \in Nat : m = height' /\ l = last_height'
        BY <3>1
      <4>2. l < m /\ Done' = m - 1
        BY <3>1, <3>2, <4>1 DEF Done
      <4> QED
        BY <4>2
    <3>3. CASE pc' \notin {"block", "tx", "credit"}
      BY <3>1, <3>3 DEF Done
    <3> QED
      BY <3>2, <3>3
  <2> SUFFICES ASSUME NEW h \in 1..Done', NEW t \in ToSet(chain[h])
               PROVE  Settled(t)'
    BY <1>b DEF ChainSettled
  <2>2. h \in 1..n /\ h \in 1..Len(chain)
    BY <1>b, <2>1
  <2>3. Settled(t) /\ t \in Txs
    BY <1>b, <2>2, ChainTxs
  <2> QED
    BY <1>b, <2>3, SettledStays
<1>c. ASSUME watched' = watched, pc \in {"tx", "credit"}, block' = block, NEW n \in 0..Len(block),
             \A i \in 1..n : Settled(block[i]), next' <= n + 1
      PROVE  BlockSettled'
  <2>1. PICK m \in Nat : m = next'
    BY <1>0 DEF TypeOK
  <2> SUFFICES ASSUME NEW i \in 1..m - 1
               PROVE  Settled(block[i])'
    BY <1>c, <2>1 DEF BlockSettled
  <2>2. i \in 1..n /\ block[i] \in Txs
    <3>1. n \in Nat /\ n <= Len(block) /\ i \in Nat /\ i >= 1 /\ i <= n
      <4>1. n \in Nat /\ n <= Len(block) /\ next' <= n + 1
        BY <1>0, <1>c
      <4>2. i \in Nat /\ 1 <= i /\ i <= m - 1
        OBVIOUS
      <4>3. m <= n + 1
        BY <2>1, <4>1
      <4> QED
        BY <4>1, <4>2, <4>3
    <3> QED
      BY <1>0, <3>1
  <2> QED
    BY <1>c, <2>2, SettledStays
<1>1. CASE Watch
  <2>1. PICK a \in Addresses, u \in Users :
          /\ watched' = Append(watched, [address |-> a, user_id |-> u])
          /\ excused' = excused \cup {t \in processed : a \in ToSet(Pays[t])}
    BY <1>1 DEF Watch
  <2>2. pc' = "idle" /\ offered' = offered /\ processed' = processed
    BY <1>1 DEF Watch
  <2>3. ASSUME NEW b, IsWatched(b)', b # a
        PROVE  IsWatched(b)
    <3>1. PICK i \in DOMAIN watched' : watched'[i].address = b
      BY <2>3 DEF IsWatched
    <3>2. i \in 1..Len(watched) + 1 /\ DOMAIN watched = 1..Len(watched)
      BY <2>1 DEF TypeOK
    <3>3. i # Len(watched) + 1
      BY <2>1, <2>3, <3>1 DEF TypeOK
    <3>4. i \in 1..Len(watched) /\ watched \in Seq([address : Addresses, user_id : Users])
      BY <3>2, <3>3 DEF TypeOK
    <3>5. watched[i] = watched'[i]
      BY <2>1, <3>4, AppendProperties
    <3> QED
      BY <3>1, <3>2, <3>4, <3>5 DEF IsWatched
  <2>4. ASSUME NEW t \in processed
        PROVE  Settled(t)'
    <3>1. CASE a \in ToSet(Pays[t])
      BY <2>1, <3>1 DEF Settled
    <3>2. CASE a \notin ToSet(Pays[t])
      <4>1. \A i \in 1..Len(Pays[t]) : Pays[t][i] # a
        BY <1>0, <3>2, PaysAssumption DEF ToSet
      <4>2. Settled(t)
        BY DEF SettledInv, ProcessedSettled
      <4> QED
        BY <2>1, <2>2, <2>3, <4>1, <4>2 DEF Settled
    <3> QED
      BY <3>1, <3>2
  <2> QED
    BY <2>2, <2>4 DEF SettledInv, ProcessedSettled, ChainSettled, BlockSettled,
                      OutputsSettled, BlockOfChain, Polling
<1>2. CASE Run \/ Cancel \/ Restart \/ StartError
  <2>1. pc' \in {"idle", "start"} /\ processed' \subseteq processed
    BY <1>2 DEF Run, Cancel, Restart, StartError
  <2>2. watched' \in {watched, <<>>}
    BY <1>2 DEF Run, Cancel, Restart, StartError
  <2> QED
    BY <1>a, <2>1, <2>2 DEF SettledInv, ChainSettled, BlockSettled, OutputsSettled,
                            BlockOfChain, Polling
<1>3. CASE UNCHANGED vars
  BY <1>3 DEF vars, SettledInv, ProcessedSettled, ChainSettled, BlockSettled, OutputsSettled,
              BlockOfChain, Settled, Done, Polling, IsWatched, Current
<1>4. CASE RunStart
  <2>1. /\ pc' = "count" /\ chain' = chain /\ processed' = processed /\ watched' = watched
        /\ excused' = excused \cup TxsOf(chain)
    BY <1>4 DEF RunStart
  <2>2. Done' = Len(chain)
    BY <1>4 DEF RunStart, Done
  <2>3. ASSUME NEW h \in 1..Done', NEW t \in ToSet(chain[h])
        PROVE  Settled(t)'
    <3>1. h \in DOMAIN chain
      BY <2>2 DEF TypeOK
    <3> QED
      BY <2>1, <3>1 DEF Settled, TxsOf
  <2> QED
    BY <1>a, <2>1, <2>3 DEF SettledInv, ChainSettled, BlockSettled, OutputsSettled, BlockOfChain
<1>5. CASE PollCount
  <2>1. /\ pc = "count" /\ pc' = "block" /\ height' = last_height + 1
        /\ UNCHANGED <<chain, watched, processed, last_height>>
    BY <1>5 DEF PollCount
  <2>2. Done = last_height /\ Done' = last_height /\ Done \in 0..Len(chain)
    BY <2>1, DoneType DEF Done, TypeOK
  <2>3. ChainSettled'
    BY <1>0, <1>b, <2>1, <2>2 DEF Polling
  <2> QED
    BY <1>a, <2>1, <2>3 DEF SettledInv, BlockSettled, OutputsSettled, BlockOfChain
<1>6. CASE PollBlock
  <2>1. /\ pc = "block" /\ pc' = "tx" /\ block' = chain[height] /\ next' = 1 /\ height' = height
        /\ UNCHANGED <<chain, watched, processed, last_height>>
    BY <1>6 DEF PollBlock, TypeOK
  <2>2. Done' = Done /\ Done \in 0..Len(chain)
    BY <2>1, DoneType DEF Done
  <2>3. ChainSettled'
    BY <1>0, <1>b, <2>1, <2>2 DEF Polling
  <2> QED
    BY <1>a, <2>1, <2>3 DEF SettledInv, BlockSettled, OutputsSettled, BlockOfChain
<1>7. CASE SkipProcessed \/ TxError
  <2>1. /\ pc = "tx" /\ pc' = "tx" /\ next' = next + 1 /\ next \in 1..Len(block)
        /\ UNCHANGED <<chain, watched, processed, last_height, height, block>>
    BY <1>7 DEF SkipProcessed, TxError, TypeOK
  <2>2. Done' = Done /\ Done \in 0..Len(chain)
    BY <2>1, DoneType DEF Done
  <2>3. ChainSettled'
    BY <1>0, <1>b, <2>1, <2>2 DEF Polling
  <2>4. PICK c \in Txs : c = Current
    BY <1>0, <2>1 DEF Current
  <2>5. Settled(c)'
    <3>1. CASE SkipProcessed
      <4>1. Settled(c)
        BY <2>4, <3>1 DEF SkipProcessed, SettledInv, ProcessedSettled
      <4> QED
        BY <2>1, <4>1, SettledStays
    <3>2. CASE TxError
      BY <2>4, <3>2 DEF TxError, Settled
    <3> QED
      BY <1>7, <3>1, <3>2
  <2>6. BlockSettled'
    <3> SUFFICES ASSUME NEW i \in 1..next
                 PROVE  Settled(block[i])'
      BY <2>1 DEF BlockSettled
    <3>1. CASE i = next
      BY <2>1, <2>4, <2>5, <3>1 DEF Current
    <3>2. CASE i # next
      <4>1. i \in 1..next - 1 /\ block[i] \in Txs
        BY <1>0, <2>1, <3>2
      <4>2. Settled(block[i])
        BY <2>1, <4>1 DEF SettledInv, BlockSettled
      <4> QED
        BY <2>1, <4>1, <4>2, SettledStays
    <3> QED
      BY <3>1, <3>2
  <2>7. BlockOfChain'
    BY <1>7, <2>1 DEF SkipProcessed, TxError, SettledInv, BlockOfChain
  <2> QED
    BY <1>a, <2>1, <2>3, <2>6, <2>7 DEF SettledInv, OutputsSettled
<1>8. CASE FetchTx
  <2>1. /\ pc = "tx" /\ pc' = "credit" /\ pos' = 1
        /\ UNCHANGED <<chain, watched, processed, last_height, height, block, next, excused>>
    BY <1>8 DEF FetchTx, TypeOK
  <2>2. Done' = Done /\ Done \in 0..Len(chain) /\ next \in 1..Len(block) + 1
    BY <2>1, DoneType DEF Done, TypeOK
  <2>3. ChainSettled'
    BY <1>0, <1>b, <2>1, <2>2 DEF Polling
  <2>4. BlockSettled'
    <3>1. /\ watched' = watched /\ pc \in {"tx", "credit"} /\ block' = block /\ next' = next
          /\ next - 1 \in 0..Len(block) /\ next' <= next - 1 + 1
      BY <2>1, <2>2
    <3>2. \A i \in 1..next - 1 : Settled(block[i])
      BY <2>1 DEF SettledInv, BlockSettled
    <3> QED
      BY <1>c, <3>1, <3>2
  <2> QED
    BY <1>a, <2>1, <2>3, <2>4 DEF SettledInv, OutputsSettled, BlockOfChain
<1>9. CASE Offer \/ PassOutput
  <2>1. /\ pc = "credit" /\ pc' = "credit" /\ pos' = pos + 1 /\ pos \in 1..Len(Pays[Current])
        /\ Current' = Current
        /\ UNCHANGED <<chain, watched, processed, last_height, height, block, next, excused>>
    BY <1>9 DEF Offer, PassOutput, Current, TypeOK
  <2>2. Done' = Done /\ Done \in 0..Len(chain) /\ next \in 1..Len(block)
    BY <2>1, DoneType DEF Done, TypeOK
  <2>3. ChainSettled'
    BY <1>0, <1>b, <2>1, <2>2 DEF Polling
  <2>4. BlockSettled'
    <3>1. \A i \in 1..next - 1 : Settled(block[i])
      BY <2>1 DEF SettledInv, BlockSettled
    <3>2. /\ watched' = watched /\ pc \in {"tx", "credit"} /\ block' = block /\ next' = next
          /\ next - 1 \in 0..Len(block) /\ next' <= next - 1 + 1
      BY <2>1, <2>2
    <3> QED
      BY <1>c, <3>1, <3>2
  <2>5. OutputsSettled'
    <3>1. PICK c \in Txs : c = Current
      BY <1>0, <2>2 DEF Current
    <3>0. \A i \in 1..pos - 1 : IsWatched(Pays[c][i]) => offered[<<c, i>>] >= 1
      BY <2>1, <3>1 DEF SettledInv, OutputsSettled
    <3> SUFFICES ASSUME NEW i \in 1..pos, IsWatched(Pays[c][i])
                 PROVE  offered'[<<c, i>>] >= 1
      BY <2>1, <3>1 DEF OutputsSettled, IsWatched
    <3>2. i \in 1..Len(Pays[c]) /\ <<c, i>> \in Outputs /\ offered[<<c, i>>] \in Nat
      <4>1. i \in 1..Len(Pays[c])
        BY <2>1, <3>1
      <4>2. <<c, i>> \in Outputs
        BY <4>1, OutputOf
      <4> QED
        BY <4>1, <4>2 DEF TypeOK
    <3>3. i # pos => offered[<<c, i>>] >= 1
      BY <2>1, <3>0
    <3>4. CASE Offer
      <4>1. offered' = [offered EXCEPT ![<<c, pos>>] = @ + 1]
        BY <3>1, <3>4 DEF Offer
      <4>2. offered'[<<c, i>>] = IF i = pos THEN offered[<<c, i>>] + 1 ELSE offered[<<c, i>>]
        BY <3>2, <4>1 DEF TypeOK
      <4> QED
        BY <3>2, <3>3, <4>2
    <3>5. CASE PassOutput
      BY <3>1, <3>3, <3>5 DEF PassOutput
    <3> QED
      BY <1>9, <3>4, <3>5
  <2>6. BlockOfChain'
    BY <2>1 DEF SettledInv, BlockOfChain
  <2> QED
    BY <1>a, <2>1, <2>3, <2>4, <2>5, <2>6 DEF SettledInv
<1>10. CASE MarkProcessed
  <2>1. /\ pc = "credit" /\ pc' = "tx" /\ next' = next + 1 /\ pos > Len(Pays[Current])
        /\ processed' = processed \cup {Current}
        /\ UNCHANGED <<chain, watched, last_height, height, block, offered, excused>>
    BY <1>10 DEF MarkProcessed
  <2>2. Done' = Done /\ Done \in 0..Len(chain) /\ next \in 1..Len(block)
    BY <2>1, DoneType DEF Done, TypeOK
  <2>3. ChainSettled'
    BY <1>0, <1>b, <2>1, <2>2 DEF Polling
  <2>4. PICK c \in Txs : c = Current
    BY <1>0, <2>2 DEF Current
  <2>5. Settled(c)
    BY <2>1, <2>4, PaysAssumption DEF SettledInv, OutputsSettled, Settled, TypeOK
  <2>6. Settled(c)'
    BY <2>1, <2>5, SettledStays
  <2>7. ProcessedSettled'
    BY <1>0, <2>1, <2>4, <2>6, SettledStays DEF SettledInv, ProcessedSettled
  <2>8. BlockSettled'
    <3>1. \A i \in 1..next : Settled(block[i])
      BY <2>1, <2>2, <2>4, <2>5 DEF SettledInv, BlockSettled, Current
    <3> QED
      BY <1>0, <1>c, <2>1, <2>2, <3>1
  <2> QED
    BY <2>1, <2>3, <2>7, <2>8 DEF SettledInv, OutputsSettled, BlockOfChain
<1>11. CASE NextHeight \/ FinishPoll
  <2>1. /\ pc = "tx" /\ next > Len(block) /\ pc' \in {"block", "count"}
        /\ UNCHANGED <<chain, watched, processed>>
    BY <1>11 DEF NextHeight, FinishPoll
  <2>2. Done' = height /\ height \in 0..Len(chain)
    <3>1. height \in Nat /\ current_height \in Nat /\ height <= current_height
      BY <2>1 DEF TypeOK
    <3> QED
      BY <1>11, <2>1, <3>1, DoneType DEF NextHeight, FinishPoll, Done
  <2>3. Scanned(height)
    BY <2>1, BlockRead
  <2>4. ChainSettled'
    BY <1>b, <2>1, <2>2, <2>3
  <2> QED
    BY <1>a, <2>1, <2>4 DEF SettledInv, BlockSettled, OutputsSettled, BlockOfChain
<1>12. CASE PollError
  <2>1. /\ pc = "block" /\ pc' = "count"
        /\ UNCHANGED <<chain, watched, processed, last_height>>
    BY <1>12 DEF PollError
  <2>2. Done' = last_height /\ last_height <= Done /\ Done \in 0..Len(chain)
    BY <2>1, DoneType DEF Done, TypeOK
  <2>3. ChainSettled'
    BY <1>0, <1>b, <2>1, <2>2 DEF Polling
  <2> QED
    BY <1>a, <2>1, <2>3 DEF SettledInv, BlockSettled, OutputsSettled, BlockOfChain
<1>13. CASE Mine
  <2>1. PICK b \in Blocks : chain' = Append(chain, b)
    BY <1>13 DEF Mine
  <2>2. UNCHANGED <<listener, pc, locals, history>>
    BY <1>13 DEF Mine
  <2>3. \A h \in 1..Len(chain) : chain'[h] = chain[h]
    BY <2>1, BlocksAreSequences DEF TypeOK
  <2>4. /\ Done' = Done /\ Done \in 0..Len(chain)
        /\ pc \in {"tx", "credit"} => height \in 1..Len(chain)
    BY <2>2, DoneType DEF Done
  <2>5. \A t : Settled(t)' <=> Settled(t)
    BY <2>2 DEF Settled, IsWatched
  <2>6. ChainSettled'
    BY <1>0, <2>2, <2>3, <2>4, <2>5 DEF ChainSettled, Polling
  <2>7. BlockOfChain'
    BY <2>2, <2>3, <2>4 DEF SettledInv, BlockOfChain
  <2>8. ProcessedSettled' /\ BlockSettled' /\ OutputsSettled'
    BY <2>2, <2>5 DEF SettledInv, ProcessedSettled, BlockSettled, OutputsSettled, IsWatched, Current
  <2> QED
    BY <2>6, <2>7, <2>8 DEF SettledInv
<1>14. CASE Reorg
  <2>1. PICK depth \in 1..Len(chain) :
          \E branch \in [1..depth + 1 -> Blocks] :
            /\ chain' = SubSeq(chain, 1, Len(chain) - depth) \o branch
            /\ excused' = excused \cup
                 UNION {ToSet(branch[i]) : i \in {j \in DOMAIN branch :
                                                  Len(chain) - depth + j <= Reached}}
    BY <1>14 DEF Reorg
  <2>2. PICK branch \in [1..depth + 1 -> Blocks] :
            /\ chain' = SubSeq(chain, 1, Len(chain) - depth) \o branch
            /\ excused' = excused \cup
                 UNION {ToSet(branch[i]) : i \in {j \in DOMAIN branch :
                                                  Len(chain) - depth + j <= Reached}}
    BY <2>1
  <2>3. UNCHANGED <<listener, pc, locals, offered>>
    BY <1>14 DEF Reorg
  <2>4. \A h \in 1..Len(chain) :
          chain'[h] = IF h <= Len(chain) - depth THEN chain[h]
                                                 ELSE branch[h - (Len(chain) - depth)]
    <3>1. chain \in Seq(Seq(Txs))
      BY DEF TypeOK
    <3> QED
      <4>1. Len(chain) + 1 >= Len(chain) /\ Len(chain) \in Nat
        BY <1>0
      <4>2. \A h \in 1..Len(chain) + 1 :
              (SubSeq(chain, 1, Len(chain) - depth) \o branch)[h] =
                IF h <= Len(chain) - depth THEN chain[h] ELSE branch[h - (Len(chain) - depth)]
        BY <3>1, ReorgChain
      <4> QED
        BY <2>2, <4>1, <4>2
  \* What the branch brings in below the height already read is excused.
  <2>5. ASSUME NEW h \in 1..Len(chain), h <= Reached, NEW t \in ToSet(chain'[h])
        PROVE  t \in excused' \/ t \in ToSet(chain[h])
    <3>1. CASE h <= Len(chain) - depth
      BY <2>4, <2>5, <3>1
    <3>2. CASE ~(h <= Len(chain) - depth)
      <4>1. PICK j \in 1..depth + 1 : j = h - (Len(chain) - depth)
        BY <1>0, <3>2
      <4>2. Len(chain) - depth + j <= Reached /\ j \in DOMAIN branch
        BY <1>0, <2>5, <4>1
      <4>3. t \in ToSet(branch[j])
        BY <2>4, <2>5, <3>2, <4>1
      <4> QED
        BY <2>2, <4>2, <4>3
    <3> QED
      BY <3>1, <3>2
  <2>6. ASSUME NEW t, Settled(t)
        PROVE  Settled(t)'
    BY <2>2, <2>3, <2>6 DEF Settled, IsWatched
  <2>7. /\ Done' = Done /\ Done \in 0..Len(chain) /\ Reached \in 0..Len(chain) /\ Done <= Reached
        /\ pc \in {"tx", "credit"} => height \in 1..Len(chain) /\ Reached = height
    <3>1. Done' = Done
      BY <2>3 DEF Done
    <3>2. CASE pc \in {"block", "tx", "credit"}
      BY <1>0, <3>1, <3>2, DoneType DEF Reached
    <3>3. CASE pc \notin {"block", "tx", "credit"}
      BY <1>0, <3>1, <3>3, DoneType DEF Reached, Done
    <3> QED
      BY <3>2, <3>3
  <2>8. ChainSettled'
    <3> SUFFICES ASSUME Polling, NEW h \in 1..Done, NEW t \in ToSet(chain'[h])
                 PROVE  Settled(t)'
      BY <2>3, <2>7 DEF ChainSettled, Polling
    <3>1. h \in 1..Len(chain) /\ h <= Reached
      BY <1>0, <2>7
    <3>2. CASE t \in excused'
      BY <3>2 DEF Settled
    <3>3. CASE t \in ToSet(chain[h])
      BY <1>0, <2>6, <3>3
    <3> QED
      BY <2>5, <3>1, <3>2, <3>3
  <2>9. BlockOfChain'
    <3> SUFFICES ASSUME pc \in {"tx", "credit"}, NEW t \in ToSet(chain'[height])
                 PROVE  t \in ToSet(block) \/ t \in excused'
      BY <2>3 DEF BlockOfChain
    <3>1. t \in excused' \/ t \in ToSet(chain[height])
      BY <1>0, <2>5, <2>7
    <3> QED
      BY <2>2, <3>1 DEF SettledInv, BlockOfChain
  <2>10. ProcessedSettled' /\ BlockSettled' /\ OutputsSettled'
    BY <2>3, <2>6 DEF SettledInv, ProcessedSettled, BlockSettled, OutputsSettled, IsWatched, Current
  <2> QED
    BY <2>8, <2>9, <2>10 DEF SettledInv
<1> QED
  BY <1>1, <1>2, <1>3, <1>4, <1>5, <1>6, <1>7, <1>8, <1>9, <1>10, <1>11, <1>12, <1>13,
     <1>14 DEF Next, Poll

\* What poll passes over is what it fails to fetch, what a run does not start
\* from, what a reorganisation brings in late and what was watched late.
THEOREM NothingLost == Spec => []NothingElsePassedOver
<1>1. Init => SettledInv
  BY DEF Init, SettledInv, ProcessedSettled, ChainSettled, BlockSettled, OutputsSettled,
         BlockOfChain, Polling
<1>2. TypeOK /\ SettledInv => NothingElsePassedOver
  <2> SUFFICES ASSUME TypeOK, SettledInv, Polling,
                      NEW h \in 1..last_height, NEW t \in ToSet(chain[h])
               PROVE  \/ t \in excused
                      \/ \A i \in DOMAIN Pays[t] : IsWatched(Pays[t][i]) => offered[<<t, i>>] >= 1
    BY DEF NothingElsePassedOver
  <2>1. last_height <= Done /\ last_height \in 0..Len(chain) /\ Done \in 0..Len(chain)
    <3>1. height \in Nat /\ last_height \in 0..Len(chain) /\ Len(chain) \in Nat
      BY DEF TypeOK
    <3>2. pc \in {"block", "tx", "credit"} => last_height < height
      BY DEF TypeOK
    <3> QED
      BY <3>1, <3>2, DoneType DEF Done
  <2>2. h \in 1..Done /\ h \in 1..Len(chain)
    BY <2>1
  <2>3. Settled(t) /\ t \in Txs
    BY <2>2, ChainTxs DEF SettledInv, ChainSettled
  <2>4. DOMAIN Pays[t] = 1..Len(Pays[t])
    BY <2>3, PaysAssumption
  <2> QED
    BY <2>3, <2>4 DEF Settled
<1>3. TypeOK /\ SettledInv /\ [Next]_vars => SettledInv'
  BY SettledStep
<1> QED
  BY <1>1, <1>2, <1>3, TypeInit, TypeStep, PTL DEF Spec

-----------------------------------------------------------------------------
(* The listener implements DepositLedger *)

\* The registrations of the ledger, for the list `watched`.
Registered == {<<watched[i].address, watched[i].user_id>> : i \in DOMAIN watched}
Remembered == {o \in Outputs : Remembers(o[1], o[2])}
AddressOf  == [o \in Outputs |-> Pays[o[1]][o[2]]]
Losses     == [o \in Outputs |-> forgotten[o[1]]]

\* What the ledger's actions say of the listener's variables.
LEMMA LedgerSteps ==
  /\ Ledger!Register <=> /\ Registered' \subseteq Addresses \X Users
                         /\ UNCHANGED <<Remembered, offered, Losses>>
  /\ Ledger!Offer <=> \E d \in Outputs \ Remembered :
       /\ \E u \in Users : <<AddressOf[d], u>> \in Registered
       /\ offered' = [offered EXCEPT ![d] = @ + 1]
       /\ Remembered' = Remembered \cup {d}
       /\ UNCHANGED <<Registered, Losses>>
  /\ Ledger!Dismiss <=> \E d \in Outputs :
       /\ ~\E u \in Users : <<AddressOf[d], u>> \in Registered
       /\ Remembered' = Remembered \cup {d}
       /\ UNCHANGED <<Registered, offered, Losses>>
  /\ Ledger!Lose <=> \E D \in SUBSET Outputs :
       /\ Remembered' = Remembered \ D
       /\ Losses' = [d \in Outputs |-> Losses[d] + IF d \in D THEN 1 ELSE 0]
       /\ Registered' \subseteq Registered
       /\ UNCHANGED offered
  /\ UNCHANGED Ledger!ledger <=> UNCHANGED <<Registered, Remembered, offered, Losses>>
<1> USE DEF Registered, Remembered, AddressOf, Losses
<1>1. Ledger!Register <=> /\ Registered' \subseteq Addresses \X Users
                          /\ UNCHANGED <<Remembered, offered, Losses>>
  BY DEF Ledger!Register
<1>2. Ledger!Offer <=> \E d \in Outputs \ Remembered :
        /\ \E u \in Users : <<AddressOf[d], u>> \in Registered
        /\ offered' = [offered EXCEPT ![d] = @ + 1]
        /\ Remembered' = Remembered \cup {d}
        /\ UNCHANGED <<Registered, Losses>>
  BY DEF Ledger!Offer
<1>3. Ledger!Dismiss <=> \E d \in Outputs :
        /\ ~\E u \in Users : <<AddressOf[d], u>> \in Registered
        /\ Remembered' = Remembered \cup {d}
        /\ UNCHANGED <<Registered, offered, Losses>>
  BY DEF Ledger!Dismiss
<1>4. Ledger!Lose <=> \E D \in SUBSET Outputs :
        /\ Remembered' = Remembered \ D
        /\ Losses' = [d \in Outputs |-> Losses[d] + IF d \in D THEN 1 ELSE 0]
        /\ Registered' \subseteq Registered
        /\ UNCHANGED offered
  BY DEF Ledger!Lose
<1>5. UNCHANGED Ledger!ledger <=> UNCHANGED <<Registered, Remembered, offered, Losses>>
  BY DEF Ledger!ledger
<1> QED
  BY <1>1, <1>2, <1>3, <1>4, <1>5

\* An address is watched when somebody is registered for it.
LEMMA WatchedIsRegistered ==
  ASSUME TypeOK, NEW a
  PROVE  IsWatched(a) <=> \E u \in Users : <<a, u>> \in Registered
<1>0. watched \in Seq([address : Addresses, user_id : Users])
  BY DEF TypeOK
<1>1. \A i \in DOMAIN watched : watched[i] \in [address : Addresses, user_id : Users]
  BY <1>0, ElementOfSeq, LenProperties
<1>2. ASSUME NEW i \in DOMAIN watched, watched[i].address = a
      PROVE  watched[i].user_id \in Users /\ <<a, watched[i].user_id>> \in Registered
  BY <1>1, <1>2 DEF Registered
<1>3. ASSUME NEW u \in Users, <<a, u>> \in Registered
      PROVE  IsWatched(a)
  BY <1>3 DEF Registered, IsWatched
<1> QED
  BY <1>2, <1>3 DEF IsWatched

\* Every step of the listener, of the callers and of the chain is a step of the ledger,
\* or changes nothing of it.
LEMMA LedgerStep ==
  ASSUME TypeOK, OnceInv, [Next]_vars
  PROVE  [Ledger!Next]_(Ledger!ledger)
<1>0. Ledger!Register \/ Ledger!Offer \/ Ledger!Dismiss \/ Ledger!Lose
        \/ UNCHANGED <<Registered, Remembered, offered, Losses>> => [Ledger!Next]_(Ledger!ledger)
  BY LedgerSteps DEF Ledger!Next
<1>1. CASE /\ UNCHANGED <<watched, processed, offered, forgotten>>
           /\ \/ pc # "credit" /\ pc' # "credit"
              \/ UNCHANGED <<pc, block, next, pos>>
  BY <1>0, <1>1 DEF Registered, Remembered, Remembers, Current, Losses
<1>2. CASE Mine \/ Reorg \/ UNCHANGED vars
  BY <1>1, <1>2 DEF Mine, Reorg, vars, listener, history, locals, place
<1>3. CASE Run \/ RunStart \/ StartError \/ PollCount \/ PollBlock \/ PollError
  BY <1>1, <1>3 DEF Run, RunStart, StartError, PollCount, PollBlock, PollError, listener, history
<1>4. CASE SkipProcessed \/ NextHeight \/ FinishPoll \/ TxError
  BY <1>1, <1>4 DEF SkipProcessed, NextHeight, FinishPoll, TxError, listener, history
<1>5. CASE Watch
  <2>1. /\ \E a \in Addresses, u \in Users : watched' = Append(watched, [address |-> a, user_id |-> u])
        /\ UNCHANGED <<processed, offered, forgotten, pc, block, next, pos>>
    BY <1>5 DEF Watch, locals, place
  <2>2. UNCHANGED <<Remembered, offered, Losses>>
    BY <2>1 DEF Remembered, Remembers, Current, Losses
  <2>3. watched' \in Seq([address : Addresses, user_id : Users])
    BY <2>1 DEF TypeOK
  <2>4. \A i \in DOMAIN watched' : watched'[i] \in [address : Addresses, user_id : Users]
    BY <2>3, ElementOfSeq, LenProperties
  <2>5. Registered' \subseteq Addresses \X Users
    BY <2>4 DEF Registered
  <2> QED
    BY <1>0, <2>2, <2>5, LedgerSteps
<1>6. CASE Cancel \/ Restart
  <2> DEFINE Gone == {o \in Outputs : \/ Restart /\ o[1] \in processed
                                      \/ pc = "credit" /\ o[1] = Current}
  <2>1. /\ pc' = "idle" /\ offered' = offered
        /\ processed' = IF Restart THEN {} ELSE processed
        /\ watched' \in {watched, <<>>}
    BY <1>6 DEF Cancel, Restart, listener
  <2>2. \A t \in Txs : forgotten'[t] = forgotten[t] +
          IF \/ Restart /\ t \in processed
             \/ pc = "credit" /\ t = Current THEN 1 ELSE 0
    BY <1>6 DEF Cancel, Restart
  <2>3. ASSUME NEW o \in Outputs
        PROVE  o[1] \in Txs
    BY DEF Outputs
  <2>4. Losses' = [o \in Outputs |-> Losses[o] + IF o \in Gone THEN 1 ELSE 0]
    BY <2>2, <2>3 DEF Losses
  <2>5. Remembered' = Remembered \ Gone
    BY <2>1 DEF OnceInv, Remembered, Remembers
  <2>6. Registered' \subseteq Registered
    BY <2>1, EmptySeq DEF Registered
  <2> QED
    BY <1>0, <2>1, <2>4, <2>5, <2>6, LedgerSteps
<1>7. CASE FetchTx
  <2>1. /\ pc = "tx" /\ pc' = "credit" /\ pos' = 1 /\ Current' = Current
        /\ UNCHANGED <<watched, processed, offered, forgotten>>
    BY <1>7 DEF FetchTx, locals, place, listener, history, TypeOK, Current
  <2>2. UNCHANGED <<Registered, Losses>>
    BY <2>1 DEF Registered, Losses
  <2>3. \A o \in Outputs : Remembers(o[1], o[2])' <=> Remembers(o[1], o[2])
    <3>1. \A o \in Outputs : o[2] \in Nat \ {0}
      BY PaysAssumption DEF Outputs
    <3> QED
      BY <2>1, <3>1 DEF Remembers
  <2>4. Remembered' = Remembered
    BY <2>3 DEF Remembered
  <2> QED
    BY <1>0, <2>1, <2>2, <2>4
<1>8. CASE Offer \/ PassOutput
  <2>1. /\ pc = "credit" /\ pc' = "credit" /\ Current' = Current /\ pos' = pos + 1
        /\ pos \in 1..Len(Pays[Current]) /\ Current \in Txs
        /\ UNCHANGED <<watched, processed, forgotten>>
    BY <1>8 DEF Offer, PassOutput, listener, history, Current, TypeOK
  <2>2. UNCHANGED <<Registered, Losses>>
    BY <2>1 DEF Registered, Losses
  <2>3. PICK d \in Outputs : d = <<Current, pos>>
    BY <2>1, OutputOf
  <2>4. AddressOf[d] = Pays[Current][pos]
    BY <2>3 DEF AddressOf
  <2>5. Remembered' = Remembered \cup {d}
    <3>1. ASSUME NEW o \in Outputs
          PROVE  Remembers(o[1], o[2])' <=> Remembers(o[1], o[2]) \/ o = d
      <4>1. o[2] \in Nat /\ pos \in Nat /\ o = <<o[1], o[2]>>
        BY <2>1, PaysAssumption DEF Outputs
      <4> QED
        BY <2>1, <2>3, <4>1 DEF Remembers
    <3> QED
      BY <2>3, <3>1 DEF Remembered
  <2>6. CASE Offer
    <3>1. IsWatched(Pays[Current][pos]) /\ offered' = [offered EXCEPT ![d] = @ + 1]
      BY <2>3, <2>6 DEF Offer
    <3>2. \E u \in Users : <<AddressOf[d], u>> \in Registered
      BY <2>4, <3>1, WatchedIsRegistered
    <3>3. d \notin Remembered
      BY <2>1, <2>3 DEF OnceInv, Remembered, Remembers
    <3> QED
      BY <1>0, <2>2, <2>5, <3>1, <3>2, <3>3, LedgerSteps
  <2>7. CASE PassOutput
    <3>1. ~IsWatched(Pays[Current][pos]) /\ offered' = offered
      BY <2>7 DEF PassOutput, history
    <3>2. ~\E u \in Users : <<AddressOf[d], u>> \in Registered
      BY <2>4, <3>1, WatchedIsRegistered
    <3> QED
      BY <1>0, <2>2, <2>5, <3>1, <3>2, LedgerSteps
  <2> QED
    BY <1>8, <2>6, <2>7
<1>9. CASE MarkProcessed
  <2>1. /\ pc = "credit" /\ pc' = "tx" /\ pos > Len(Pays[Current]) /\ pos \in Nat
        /\ processed' = processed \cup {Current} /\ Current \in Txs
        /\ UNCHANGED <<watched, offered, forgotten>>
    BY <1>9 DEF MarkProcessed, history, Current, TypeOK
  <2>2. \A o \in Outputs : Remembers(o[1], o[2])' <=> Remembers(o[1], o[2])
    <3>1. \A o \in Outputs : o[2] \in 1..Len(Pays[o[1]])
      BY PaysAssumption DEF Outputs
    <3>2. Len(Pays[Current]) \in Nat
      BY <2>1, PaysAssumption
    <3> QED
      BY <2>1, <3>1, <3>2 DEF Remembers
  <2>3. Remembered' = Remembered
    BY <2>2 DEF Remembered
  <2> QED
    BY <1>0, <2>1, <2>3 DEF Registered, Losses
<1> QED
  BY <1>2, <1>3, <1>4, <1>5, <1>6, <1>7, <1>8, <1>9 DEF Next, Poll

\* The Zcash listener implements DepositLedger: `processed` and the place of
\* check_transaction, zcash.rs, are what the ledger remembers.
THEOREM ZcashKeepsLedger == Spec => KeepsLedger
<1>1. Init => Ledger!Init
  <2> SUFFICES ASSUME Init
               PROVE  Ledger!Init
    OBVIOUS
  <2>1. \A o \in Outputs : o[1] \in Txs
    BY DEF Outputs
  <2>2. Losses = [o \in Outputs |-> 0] /\ Remembered = {} /\ Registered = {}
    BY <2>1 DEF Init, Losses, Remembered, Remembers, Registered
  <2> QED
    BY <2>2 DEF Init, Ledger!Init, Losses, Remembered, Registered
<1>2. TypeOK /\ OnceInv /\ [Next]_vars => [Ledger!Next]_(Ledger!ledger)
  BY LedgerStep
<1> QED
  BY <1>1, <1>2, OnceAlways, PTL DEF Spec, KeepsLedger, Ledger!Spec
=============================================================================
