----------------------- MODULE AssetHubListenerProofs -----------------------
(***************************************************************************)
(* Proofs about AssetHubListener: its types, that a credit goes to the     *)
(* current registration, that nothing due is passed over, that only the    *)
(* first block of a subscription repeats, and that a callback's own call   *)
(* hangs.                                                                  *)
(***************************************************************************)
EXTENDS AssetHubListener, RegistrationsProofs

InCallback == pc \in {"callback", "watch"}
InBlock    == pc \in {"event", "lock", "callback", "watch"}

-----------------------------------------------------------------------------
(* Types *)

\* The guard is held through the callback, and run is at an event of a block.
PlaceInv ==
  /\ guard <=> InCallback
  /\ InBlock => block > 0 /\ pos > 0
  /\ InCallback => deposit \in [to : Keys, user : Users]

\* A block that is there is a sequence of events.
LEMMA BlockType ==
  ASSUME chain \in Seq(Blocks), NEW h \in 1..Len(chain)
  PROVE  /\ chain[h] \in Seq([to : Keys, known : BOOLEAN])
         /\ DOMAIN chain[h] = 1..Len(chain[h]) /\ Len(chain[h]) \in Nat
<1>1. chain[h] \in Blocks
  OBVIOUS
<1>2. chain[h] \in Seq([to : Keys, known : BOOLEAN])
  BY <1>1, BlocksAssumption
<1> QED
  BY <1>2

\* The event run is at goes to an address that may be watched.
LEMMA EventType ==
  ASSUME TypeOK, pc \in {"lock", "callback", "watch"}
  PROVE  /\ block \in 1..Len(chain) /\ pos \in DOMAIN chain[block]
         /\ Event.to \in Keys /\ watched[Event.to] \in Users \cup {None}
<1>1. block \in 1..Len(chain) /\ pos \in DOMAIN chain[block]
  BY DEF TypeOK
<1>2. chain[block] \in Seq([to : Keys, known : BOOLEAN])
  BY <1>1, BlockType DEF TypeOK
<1>3. chain[block][pos] \in [to : Keys, known : BOOLEAN]
  <2> DEFINE b == chain[block]
  <2>1. b \in Seq([to : Keys, known : BOOLEAN]) /\ pos \in 1..Len(b)
    BY <1>1, <1>2
  <2> HIDE DEF b
  <2>2. b[pos] \in [to : Keys, known : BOOLEAN]
    BY <2>1, ElementOfSeq
  <2> QED
    BY <2>2 DEF b
<1> QED
  BY <1>1, <1>3 DEF Event, TypeOK, LockTypeOK

\* A finalized block leaves those before it.
LEMMA FinalizeType ==
  ASSUME chain \in Seq(Blocks), NEW b \in Blocks, chain' = Append(chain, b)
  PROVE  /\ chain' \in Seq(Blocks) /\ Len(chain') = Len(chain) + 1 /\ Len(chain) \in Nat
         /\ \A h \in 1..Len(chain) : chain'[h] = chain[h]
         /\ chain'[Len(chain) + 1] = b
BY AppendProperties

\* The listener starts well typed.
LEMMA TypeInit == Init => TypeOK /\ PlaceInv
<1> SUFFICES ASSUME Init
             PROVE  TypeOK /\ PlaceInv
  OBVIOUS
<1>1. LockTypeOK /\ ~Owns("read") /\ ~Owns("own")
  BY LockInitType DEF Init
<1>2. chain \in Seq(Blocks)
  BY EmptySeq DEF Init
<1>3. Len(chain) = 0
  BY EmptySeq DEF Init
<1> QED
  BY <1>1, <1>2, <1>3 DEF Init, LockInit, TypeOK, PlaceInv, InBlock, InCallback

\* Every step of the listener, of its callers and of the chain keeps the types.
LEMMA TypeStep == TypeOK /\ PlaceInv /\ [Next]_vars => TypeOK' /\ PlaceInv'
<1> SUFFICES ASSUME TypeOK, PlaceInv, [Next]_vars
             PROVE  TypeOK' /\ PlaceInv'
  OBVIOUS
<1> USE NoneAssumption
    DEF TypeOK, PlaceInv, InBlock, InCallback, task, bounds, history, Fault
<1>0. Len(chain) \in Nat
  OBVIOUS
<1>1. ASSUME UNCHANGED lock
      PROVE  /\ LockTypeOK' /\ guard' = guard
             /\ (Owns("read")' <=> Owns("read")) /\ (Owns("own")' <=> Owns("own"))
  BY <1>1, LockStays DEF lock, LockTypeOK
<1>2. CASE Finalize
  <2>1. PICK b \in Blocks : chain' = Append(chain, b)
    BY <1>2 DEF Finalize
  <2>2. /\ chain' \in Seq(Blocks) /\ Len(chain') = Len(chain) + 1
        /\ \A h \in 1..Len(chain) : chain'[h] = chain[h]
    BY <2>1, FinalizeType
  <2>3. block \in 1..Len(chain) => chain'[block] = chain[block]
    BY <2>2
  <2>4. UNCHANGED <<lock, pc, block, pos, deposit, bounds, credits, repeated>>
    BY <1>2 DEF Finalize
  <2> QED
    BY <1>0, <1>1, <2>2, <2>3, <2>4
<1>3. CASE Call
  <2>1. /\ LockTypeOK' /\ guard' = guard
        /\ (Owns("read")' <=> Owns("read")) /\ (Owns("own")' <=> Owns("own"))
    BY <1>3, AskKeeps DEF Call, Ask
  <2> QED
    BY <1>3, <2>1 DEF Call
<1>4. CASE CallbackCalls
  <2>1. PICK a \in Keys, u \in Users \cup {None} : Ask("own", a, u)
    BY <1>4 DEF CallbackCalls
  <2>2. Request("own", a, u) \in Requests /\ Request("own", a, u).kind = "own"
    BY DEF Requests, Request
  <2>3. OwnPlaces = {}
    BY <1>4, OwnsPlace DEF CallbackCalls
  <2>4. LockTypeOK' /\ guard' = guard /\ ~Owns("read")' /\ Owns("own")'
    BY <2>1, <2>2, <2>3, AskOwn DEF Ask
  <2> QED
    BY <1>4, <2>4 DEF CallbackCalls
<1>5. CASE ServeWrite
  <2>1. Waits("write")
    <3>1. Waits("own") => Owns("own")
      BY <1>5, WriteKeeps DEF ServeWrite
    <3> QED
      BY <1>5, <3>1 DEF ServeWrite, Write
  <2>2. ~Waits("own")
    BY <2>1 DEF Waits
  <2>3. /\ LockTypeOK' /\ guard' = guard
        /\ (Owns("read")' <=> Owns("read")) /\ (Owns("own")' <=> Owns("own"))
    BY <1>5, <2>1, WriteKeeps DEF ServeWrite, Write
  <2> QED
    BY <1>5, <2>2, <2>3 DEF ServeWrite
<1>6. CASE Run
  BY <1>0, <1>1, <1>6 DEF Run, Running
<1>7. CASE NextBlock
  BY <1>0, <1>1, <1>7 DEF NextBlock
<1>8. CASE BlockFails
  <2>1. Len(chain[block + 1]) \in Nat
    BY <1>0, <1>8, BlockType DEF BlockFails
  <2> QED
    BY <1>0, <1>1, <1>8, <2>1 DEF BlockFails
<1>9. CASE EventFails
  BY <1>1, <1>9 DEF EventFails
<1>18. CASE IteratorFails
  <2>1. pc = "event" /\ block \in 1..Len(chain)
    BY <1>0, <1>1, <1>18 DEF IteratorFails
  <2>2. Len(chain[block]) \in Nat
    BY <1>0, <2>1, BlockType
  <2> QED
    BY <1>0, <1>1, <1>18, <2>1, <2>2 DEF IteratorFails
<1>10. CASE AskRead
  <2>1. Read \in Requests /\ Read.kind = "read"
    BY DEF Requests, Read, Request
  <2>2. OwnPlaces = {}
    BY <1>10, OwnsPlace DEF AskRead
  <2>3. LockTypeOK' /\ guard' = guard /\ Owns("read")' /\ ~Owns("own")'
    BY <1>10, <2>1, <2>2, AskOwn DEF AskRead, AskReading
  <2> QED
    BY <1>10, <2>3 DEF AskRead
<1>11. CASE ServeReadNothing
  <2>1. LockTypeOK' /\ guard' = FALSE /\ Owns("read") /\ ~Owns("read")' /\ ~Owns("own")'
    BY <1>11, GrantKeeps DEF ServeReadNothing
  <2> QED
    BY <1>11, <2>1 DEF ServeReadNothing
<1>12. CASE Offer
  <2>1. LockTypeOK' /\ guard' = TRUE /\ Owns("read") /\ ~Owns("read")' /\ ~Owns("own")'
    BY <1>12, GrantKeeps DEF Offer
  <2>2. pc = "lock"
    BY <2>1
  <2>3. Event.to \in Keys /\ watched[Event.to] \in Users \cup {None}
    BY <2>2, EventType
  <2>4. deposit' \in [to : Keys, user : Users]
    BY <1>12, <2>3 DEF Offer, OfferEvent
  <2>5. block > 0 /\ pos \in DOMAIN chain[block] /\ repeated' \subseteq credits'
    BY <1>12, <2>2 DEF Offer, OfferEvent
  <2>6. /\ pc' = "callback"
        /\ UNCHANGED <<chain, block, pos, bounds, heads>>
    BY <1>12 DEF Offer, OfferEvent
  <2>7. TypeOK'
    BY <2>1, <2>2, <2>4, <2>5, <2>6
  <2>8. PlaceInv'
    BY <2>1, <2>2, <2>4, <2>5, <2>6
  <2> QED
    BY <2>7, <2>8
<1>13. CASE CallbackEnds
  <2>1. /\ LockTypeOK' /\ guard' = FALSE
        /\ (Owns("read")' <=> Owns("read")) /\ (Owns("own")' <=> Owns("own"))
    BY <1>13, LockStays DEF CallbackEnds, Release
  <2> QED
    BY <1>13, <2>1 DEF CallbackEnds
<1>14. CASE BlockDone
  BY <1>1, <1>14 DEF BlockDone
<1>15. CASE Stop
  <2>1. LockTypeOK' /\ guard' = FALSE /\ ~Owns("read")' /\ ~Owns("own")'
    BY <1>15, AbandonKeeps DEF Stop
  <2> QED
    BY <1>15, <2>1 DEF Stop
<1>16. CASE Restart
  <2>1. LockTypeOK' /\ guard' = FALSE /\ ~Owns("read")' /\ ~Owns("own")'
    BY <1>16, ForgetKeeps DEF Restart
  <2> QED
    BY <1>16, <2>1 DEF Restart
<1>17. CASE UNCHANGED vars
  BY <1>1, <1>17 DEF vars
<1> QED
  BY <1>2, <1>3, <1>4, <1>5, <1>6, <1>7, <1>8, <1>9, <1>10, <1>11, <1>12, <1>13, <1>14, <1>15,
     <1>16, <1>17, <1>18 DEF Next, Serve, Step

\* Every reachable state is well typed, and run is where its guard says.
LEMMA TypeAlways == Spec => [](TypeOK /\ PlaceInv)
  BY TypeInit, TypeStep, PTL DEF Spec

\* Every reachable state is well typed: run, assethub.rs, waits in the queue exactly
\* where it waits for the lock.
THEOREM AssetHubTypes == Spec => []TypeOK
  BY TypeAlways, PTL

-----------------------------------------------------------------------------
(* Credits *)

\* The listener reads only where it waits to.
LEMMA GrantPlace ==
  ASSUME TypeOK, NEW keeps \in BOOLEAN, Grant(keeps)
  PROVE  pc = "lock" /\ UNCHANGED watched
BY GrantKeeps DEF TypeOK

\* The user of a credit is the registered one: nobody writes while the guard is held.
LEMMA CurrentStep == TypeOK /\ PlaceInv /\ CreditIsCurrent /\ [Next]_vars => CreditIsCurrent'
<1> SUFFICES ASSUME TypeOK, PlaceInv, CreditIsCurrent, [Next]_vars
             PROVE  CreditIsCurrent'
  OBVIOUS
<1> USE DEF CreditIsCurrent, task
<1>1. CASE ServeWrite
  <2>1. pc \notin {"callback", "watch"}
    BY <1>1 DEF ServeWrite, Write, PlaceInv, InCallback
  <2>2. ~Waits("own")
    BY <1>1, <2>1, WriteKeeps DEF ServeWrite, TypeOK
  <2> QED
    BY <1>1, <2>1, <2>2 DEF ServeWrite
<1>2. CASE Offer
  BY <1>2, GrantPlace DEF Offer, OfferEvent
<1>3. CASE Call \/ CallbackCalls
  BY <1>3 DEF Call, CallbackCalls, Ask
<1>4. CASE Finalize \/ BlockFails \/ IteratorFails \/ EventFails \/ UNCHANGED vars
  BY <1>4 DEF Finalize, BlockFails, IteratorFails, EventFails, vars, lock
<1>5. CASE Run \/ NextBlock \/ AskRead \/ ServeReadNothing \/ CallbackEnds \/ BlockDone \/ Stop \/ Restart
  <2>1. pc' \notin {"callback", "watch"}
    BY <1>5 DEF Run, NextBlock, AskRead, ServeReadNothing, CallbackEnds, BlockDone, Stop, Restart
  <2> QED
    BY <2>1
<1> QED
  BY <1>1, <1>2, <1>3, <1>4, <1>5 DEF Next, Serve, Step

\* While a deposit is credited its address stays registered to its user: the guard that
\* handle_asset_transfer_dynamic, assethub.rs, holds across on_deposit.
THEOREM CreditedToItsOwner == Spec => []CreditIsCurrent
<1>1. Init => CreditIsCurrent
  BY DEF Init, CreditIsCurrent
<1> QED
  BY <1>1, CurrentStep, TypeAlways, PTL DEF Spec

-----------------------------------------------------------------------------
(* What is due *)

\* <<b, i>> is an event that run has still to come to.
Ahead(b, i) ==
  \/ b > block
  \/ b = block /\ InBlock /\ i >= pos /\ (InCallback => i > pos)

\* What is due is a transfer of a block that is there, to an address still registered
\* as it was, and ahead of run.
DueInv ==
  /\ due \subseteq Nat \X Nat \X Users
  /\ ~Running => due = {}
  /\ \A d \in due :
       /\ d[1] \in 1..Len(chain) /\ d[2] \in DOMAIN chain[d[1]]
       /\ chain[d[1]][d[2]].known /\ watched[chain[d[1]][d[2]].to] = d[3]
       /\ Ahead(d[1], d[2])

\* Every step keeps what is due ahead of run.
LEMMA DueStep == TypeOK /\ PlaceInv /\ DueInv /\ [Next]_vars => DueInv'
<1> SUFFICES ASSUME TypeOK, PlaceInv, DueInv, [Next]_vars
             PROVE  DueInv'
  OBVIOUS
<1> USE DEF DueInv, Ahead, InBlock, InCallback, Running, task
<1>1. \A d \in due : d[1] \in Nat /\ d[2] \in Nat /\ d[3] \in Users /\ d = <<d[1], d[2], d[3]>>
  OBVIOUS
<1>2. /\ block \in 0..Len(chain) /\ pos \in Nat /\ Len(chain) \in Nat /\ chain \in Seq(Blocks)
      /\ pc \in {"off", "next", "event", "lock", "callback", "watch"}
      /\ InBlock => block > 0 /\ pos > 0
  BY DEF TypeOK, PlaceInv
<1>3. CASE Finalize
  <2>1. PICK b \in Blocks :
          /\ chain' = Append(chain, b)
          /\ due' = IF Running
                      THEN due \cup {<<Len(chain) + 1, i, watched[b[i].to]>> :
                                      i \in {j \in DOMAIN b : b[j].known /\ watched[b[j].to] # None}}
                      ELSE due
    BY <1>3 DEF Finalize
  <2>2. /\ Len(chain') = Len(chain) + 1
        /\ \A h \in 1..Len(chain) : chain'[h] = chain[h]
        /\ chain'[Len(chain) + 1] = b
    BY <1>2, <2>1, FinalizeType
  <2>3. UNCHANGED <<watched, pc, block, pos>>
    BY <1>3 DEF Finalize, lock
  <2>4. ASSUME NEW i \in DOMAIN b, watched[b[i].to] # None
        PROVE  i \in Nat /\ watched[b[i].to] \in Users
    <3>1. b \in Seq([to : Keys, known : BOOLEAN])
      BY BlocksAssumption
    <3>2. i \in 1..Len(b) /\ i \in Nat
      BY <3>1
    <3>3. b[i] \in [to : Keys, known : BOOLEAN]
      BY <3>1, <3>2, ElementOfSeq
    <3> QED
      BY <2>4, <3>2, <3>3 DEF TypeOK, LockTypeOK
  <2>5. CASE ~Running
    BY <2>1, <2>3, <2>5
  <2>6. CASE Running
    <3>1. ASSUME NEW d \in due', d \notin due
          PROVE  /\ d \in Nat \X Nat \X Users /\ d[1] = Len(chain) + 1 /\ d[2] \in DOMAIN b
                 /\ b[d[2]].known /\ watched[b[d[2]].to] = d[3]
      BY <1>2, <2>1, <2>4, <2>6, <3>1
    <3>2. ASSUME NEW d \in due'
          PROVE  /\ d \in Nat \X Nat \X Users
                 /\ d[1] \in 1..Len(chain') /\ d[2] \in DOMAIN chain'[d[1]]
                 /\ chain'[d[1]][d[2]].known /\ watched[chain'[d[1]][d[2]].to] = d[3]
                 /\ Ahead(d[1], d[2])
      <4>1. CASE d \in due
        BY <1>2, <2>2, <4>1
      <4>2. CASE d \notin due
        BY <1>2, <2>2, <3>1, <4>2
      <4> QED
        BY <4>1, <4>2
    <3> QED
      BY <2>3, <2>6, <3>2
  <2> QED
    BY <2>5, <2>6
<1>4. CASE ServeWrite
  <2>1. watched' = [watched EXCEPT ![Head(queue).key] = Head(queue).user]
    BY <1>4 DEF ServeWrite, Write
  <2>2. due' = {d \in due : chain[d[1]][d[2]].to # Head(queue).key}
    BY <1>4 DEF ServeWrite
  <2>3. \A d \in due : chain[d[1]][d[2]].to \in Keys
    <3>1. SUFFICES ASSUME NEW d \in due
                   PROVE  chain[d[1]][d[2]].to \in Keys
      OBVIOUS
    <3> DEFINE b == chain[d[1]]
    <3>2. b \in Seq([to : Keys, known : BOOLEAN]) /\ d[2] \in 1..Len(b)
      BY <1>2, BlockType
    <3> HIDE DEF b
    <3>3. b[d[2]] \in [to : Keys, known : BOOLEAN]
      BY <3>2, ElementOfSeq
    <3> QED
      BY <3>3 DEF b
  <2>4. ~Waits("own") \/ pc = "watch"
    BY <1>4, WriteKeeps DEF ServeWrite, TypeOK
  <2>5. \A d \in due' : d \in due /\ watched'[chain[d[1]][d[2]].to] = d[3]
    BY <2>1, <2>2, <2>3 DEF TypeOK, LockTypeOK
  <2> QED
    BY <1>4, <2>2, <2>4, <2>5 DEF ServeWrite
<1>5. CASE Call \/ CallbackCalls
  BY <1>5 DEF Call, CallbackCalls, Ask, history
<1>6. CASE Run
  <2>1. due' = {}
    BY <1>6 DEF Run
  <2> QED
    BY <2>1
<1>7. CASE NextBlock
  <2>1. /\ pc = "next" /\ pc' = "event" /\ block' = block + 1 /\ pos' = 1
        /\ UNCHANGED <<due, chain, watched>>
    BY <1>7 DEF NextBlock, lock, history
  <2>2. ASSUME NEW d \in due
        PROVE  Ahead(d[1], d[2])'
    <3>1. d[1] > block /\ d[2] \in 1..Len(chain[d[1]]) /\ Len(chain[d[1]]) \in Nat
      BY <1>1, <1>2, <2>1, BlockType
    <3> QED
      BY <1>1, <1>2, <2>1, <3>1
  <2> QED
    BY <2>1, <2>2
<1>8. CASE BlockFails
  BY <1>1, <1>2, <1>8 DEF BlockFails, lock
<1>9. CASE EventFails
  BY <1>1, <1>2, <1>9 DEF EventFails, lock
<1>17. CASE IteratorFails
  <2>1. /\ due' = {d \in due : ~(d[1] = block /\ d[2] >= pos)}
        /\ pc = "event" /\ UNCHANGED <<chain, watched, pc, block>>
    BY <1>17 DEF IteratorFails, lock
  <2>2. \A d \in due' : d \in due /\ d[1] > block
    BY <1>1, <1>2, <2>1
  <2> QED
    BY <1>1, <1>2, <2>1, <2>2
<1>10. CASE AskRead
  BY <1>10 DEF AskRead, AskReading, history
<1>11. CASE ServeReadNothing
  <2>1. pc = "lock" /\ UNCHANGED watched
    BY <1>11, GrantPlace DEF ServeReadNothing
  <2>2. \A d \in due : ~(d[1] = block /\ d[2] = pos)
    BY <1>1, <1>11, NoneAssumption DEF ServeReadNothing, Event
  <2> QED
    BY <1>1, <1>2, <1>11, <2>1, <2>2 DEF ServeReadNothing, history
<1>12. CASE Offer
  <2>1. pc = "lock" /\ UNCHANGED watched
    BY <1>12, GrantPlace DEF Offer
  <2>2. /\ due' = due \ {<<block, pos, watched[Event.to]>>}
        /\ pc' = "callback" /\ UNCHANGED <<chain, block, pos>>
    BY <1>12 DEF Offer, OfferEvent
  <2>3. \A d \in due' : d \in due /\ ~(d[1] = block /\ d[2] = pos)
    BY <1>1, <2>2 DEF Event
  <2> QED
    BY <1>1, <1>2, <2>1, <2>2, <2>3
<1>13. CASE CallbackEnds
  BY <1>1, <1>2, <1>13 DEF CallbackEnds, Release, history
<1>14. CASE BlockDone
  <2>1. block \in 1..Len(chain) /\ pos > 0 /\ pos \notin DOMAIN chain[block] /\ pc = "event"
    BY <1>2, <1>14 DEF BlockDone
  <2>2. DOMAIN chain[block] = 1..Len(chain[block]) /\ Len(chain[block]) \in Nat
    BY <1>2, <2>1, BlockType
  <2>3. \A d \in due : d[1] # block
    BY <1>1, <1>2, <2>1, <2>2
  <2> QED
    BY <1>14, <2>1, <2>3 DEF BlockDone, lock, history
<1>15. CASE Stop \/ Restart
  BY <1>15 DEF Stop, Restart
<1>16. CASE UNCHANGED vars
  BY <1>16 DEF vars, lock, history
<1> QED
  BY <1>3, <1>4, <1>5, <1>6, <1>7, <1>8, <1>9, <1>10, <1>11, <1>12, <1>13, <1>14, <1>15,
     <1>16, <1>17 DEF Next, Serve, Step

\* Nothing finalized during a run for a registered address is passed over: run and the
\* handlers of assethub.rs come to every event that they can read.
THEOREM NothingDueIsLost == Spec => []DueIsCredited
<1>1. Init => DueInv
  BY DEF Init, DueInv, Running
<1>2. TypeOK /\ DueInv => DueIsCredited
  BY DEF DueInv, DueIsCredited, Ahead
<1> QED
  BY <1>1, <1>2, DueStep, TypeAlways, PTL DEF Spec

-----------------------------------------------------------------------------
(* What repeats *)

\* <<b, i>> is an event that run has come past.
Past(b, i) ==
  \/ b < block
  \/ b = block /\ (~InBlock \/ i < pos \/ (i = pos /\ InCallback))

\* While it runs, what has been credited lies behind run or in a block at which some
\* subscription began.
CreditInv ==
  /\ credits \subseteq Nat \X Nat
  /\ \A e \in credits : e[1] \in 1..Len(chain)
  /\ Running => \A e \in credits : e[1] \in heads \/ Past(e[1], e[2])
  /\ RepeatedAtHeads

\* Every step keeps the credits behind run: a subscription begins with the last block.
LEMMA CreditStep == TypeOK /\ PlaceInv /\ CreditInv /\ [Next]_vars => CreditInv'
<1> SUFFICES ASSUME TypeOK, PlaceInv, CreditInv, [Next]_vars
             PROVE  CreditInv'
  OBVIOUS
<1> USE DEF CreditInv, RepeatedAtHeads, Past, InBlock, InCallback, Running, task
<1>1. \A e \in credits : e[1] \in Nat /\ e[2] \in Nat /\ e = <<e[1], e[2]>>
  OBVIOUS
<1>2. /\ block \in 0..Len(chain) /\ pos \in Nat /\ Len(chain) \in Nat /\ chain \in Seq(Blocks)
      /\ pc \in {"off", "next", "event", "lock", "callback", "watch"}
  BY DEF TypeOK
<1>3. CASE Finalize
  <2>1. Len(chain') = Len(chain) + 1
    BY <1>2, <1>3, FinalizeType DEF Finalize
  <2> QED
    BY <1>2, <1>3, <2>1 DEF Finalize
<1>4. CASE ServeWrite
  <2>1. ~Waits("own") \/ pc = "watch"
    BY <1>4, WriteKeeps DEF ServeWrite, TypeOK
  <2> QED
    BY <1>4, <2>1 DEF ServeWrite
<1>5. CASE Call \/ CallbackCalls
  BY <1>5 DEF Call, CallbackCalls, history
<1>6. CASE Run
  <2>1. PICK h \in {Len(chain), Len(chain) + 1} \ {0} :
          /\ pc' = "next" /\ block' = h - 1 /\ heads' = heads \cup {h}
          /\ UNCHANGED <<chain, credits, repeated>>
    BY <1>6 DEF Run
  <2>2. \A e \in credits : e[1] \in heads' \/ e[1] <= block'
    BY <1>1, <1>2, <2>1
  <2> QED
    BY <2>1, <2>2
<1>7. CASE NextBlock
  BY <1>1, <1>2, <1>7 DEF NextBlock, history
<1>8. CASE BlockFails
  BY <1>1, <1>2, <1>8 DEF BlockFails
<1>9. CASE EventFails
  BY <1>1, <1>2, <1>9 DEF EventFails
<1>17. CASE IteratorFails
  <2>1. pc = "event" /\ block \in 1..Len(chain) /\ pos \in 1..Len(chain[block])
        /\ Len(chain[block]) \in Nat /\ pos' = Len(chain[block]) + 1
        /\ UNCHANGED <<chain, pc, block, credits, repeated, heads>>
    BY <1>2, <1>17, BlockType DEF IteratorFails, PlaceInv
  <2> QED
    BY <1>1, <1>2, <2>1
<1>10. CASE AskRead
  BY <1>1, <1>10 DEF AskRead, history
<1>11. CASE ServeReadNothing
  <2>1. pc = "lock"
    BY <1>11, GrantPlace DEF ServeReadNothing
  <2> QED
    BY <1>1, <1>2, <1>11, <2>1 DEF ServeReadNothing, history
<1>12. CASE Offer
  <2>1. pc = "lock"
    BY <1>12, GrantPlace DEF Offer
  <2>2. /\ pc' = "callback" /\ UNCHANGED <<chain, block, pos, heads>>
        /\ credits' = credits \cup {<<block, pos>>}
        /\ repeated' = repeated \cup ({<<block, pos>>} \cap credits)
    BY <1>12 DEF Offer, OfferEvent
  <2>3. block \in 1..Len(chain)
    BY <2>1, EventType
  <2>4. <<block, pos>> \in credits => block \in heads
    BY <1>1, <1>2, <2>1
  <2> QED
    BY <1>1, <1>2, <2>1, <2>2, <2>3, <2>4
<1>13. CASE CallbackEnds
  BY <1>1, <1>2, <1>13 DEF CallbackEnds, history
<1>14. CASE BlockDone
  BY <1>1, <1>2, <1>14 DEF BlockDone, history
<1>15. CASE Stop \/ Restart
  BY <1>15 DEF Stop, Restart
<1>16. CASE UNCHANGED vars
  BY <1>16 DEF vars, history
<1> QED
  BY <1>3, <1>4, <1>5, <1>6, <1>7, <1>8, <1>9, <1>10, <1>11, <1>12, <1>13, <1>14, <1>15,
     <1>16, <1>17 DEF Next, Serve, Step

\* A transfer is credited twice only in a block at which a subscription began: run,
\* assethub.rs, follows the finalized blocks in order and remembers nothing.
THEOREM OnlyHeadsRepeat == Spec => []RepeatedAtHeads
<1>1. Init => CreditInv
  BY DEF Init, CreditInv, Running, RepeatedAtHeads
<1>2. CreditInv => RepeatedAtHeads
  BY DEF CreditInv
<1> QED
  BY <1>1, <1>2, CreditStep, TypeAlways, PTL DEF Spec
-----------------------------------------------------------------------------
(* The callback's own calls *)

\* A queue is the beginning of itself, and of itself with one more at its end.
LEMMA QueueGrows ==
  ASSUME queue \in Seq(Requests),
         queue' = queue \/ \E r \in Requests : queue' = Append(queue, r)
  PROVE  IsPrefix(queue, queue')
<1>1. /\ queue' \in Seq(Requests) /\ Len(queue) \in Nat /\ Len(queue') \in Nat
      /\ Len(queue) <= Len(queue')
      /\ \A i \in 1..Len(queue) : queue'[i] = queue[i]
  BY AppendProperties
<1> DEFINE n == Len(queue)
<1>2. \A i \in 1..n : queue[i] \in Requests /\ queue'[i] \in Requests
  BY <1>1
<1>3. SubSeq(queue, 1, n) = SubSeq(queue', 1, n)
  <2>1. n \in Nat
    BY <1>1
  <2> HIDE DEF n
  <2>2. /\ SubSeq(queue, 1, n) \in Seq(Requests)
        /\ Len(SubSeq(queue, 1, n)) = IF 1 <= n THEN n - 1 + 1 ELSE 0
        /\ \A i \in 1..(n - 1 + 1) : SubSeq(queue, 1, n)[i] = queue[1 + i - 1]
    BY <1>2, <2>1, SubSeqProperties
  <2>3. /\ SubSeq(queue', 1, n) \in Seq(Requests)
        /\ Len(SubSeq(queue', 1, n)) = IF 1 <= n THEN n - 1 + 1 ELSE 0
        /\ \A i \in 1..(n - 1 + 1) : SubSeq(queue', 1, n)[i] = queue'[1 + i - 1]
    BY <1>2, <2>1, SubSeqProperties
  <2>4. /\ Len(SubSeq(queue, 1, n)) = n /\ Len(SubSeq(queue', 1, n)) = n
        /\ \A i \in 1..n : SubSeq(queue, 1, n)[i] = queue[i]
        /\ \A i \in 1..n : SubSeq(queue', 1, n)[i] = queue'[i]
    BY <2>1, <2>2, <2>3
  <2>5. \A i \in 1..n : queue'[i] = queue[i]
    BY <1>1 DEF n
  <2> QED
    BY <2>2, <2>3, <2>4, <2>5, SeqEqual
<1> QED
  BY <1>1, <1>3 DEF IsPrefix

\* A callback that has called watch or unwatch does not come back from it, and until run is
\* stopped no call is served, nobody's: they wait in the order they came.
OwnCallHangs ==
  [][pc = "watch" /\ pc' # "off" =>
       /\ pc' = "watch" /\ UNCHANGED <<watched, block, pos, deposit>>
       /\ IsPrefix(queue, queue')]_vars

\* run waits in the queue while its own guard keeps the queue from moving.
LEMMA HangStep ==
  ASSUME TypeOK, PlaceInv, [Next]_vars, pc = "watch", pc' # "off"
  PROVE  pc' = "watch" /\ UNCHANGED <<watched, block, pos, deposit>> /\ IsPrefix(queue, queue')
<1> USE DEF task
<1>1. guard /\ queue \in Seq(Requests)
  BY DEF PlaceInv, InCallback, TypeOK, LockTypeOK
<1>2. CASE Finalize \/ UNCHANGED vars
  BY <1>1, <1>2, QueueGrows DEF Finalize, vars, lock
<1>3. CASE Call
  <2>1. PICK a \in Keys, u \in Users \cup {None} :
          queue' = Append(queue, Request("write", a, u)) /\ UNCHANGED watched
    BY <1>3 DEF Call, Ask
  <2>2. Request("write", a, u) \in Requests
    BY DEF Request, Requests
  <2>3. IsPrefix(queue, queue')
    BY <1>1, <2>1, <2>2, QueueGrows
  <2> QED
    BY <1>3, <2>1, <2>3 DEF Call
<1>4. CASE ServeWrite
  BY <1>1, <1>4 DEF ServeWrite, Write
<1>5. CASE ServeReadNothing \/ Offer
  BY <1>5, GrantPlace DEF ServeReadNothing, Offer
<1>6. CASE CallbackCalls \/ Run \/ NextBlock \/ BlockFails \/ IteratorFails \/ EventFails \/ AskRead \/ CallbackEnds \/ BlockDone
  BY <1>6 DEF CallbackCalls, Run, Running, NextBlock, BlockFails, IteratorFails, EventFails, AskRead, CallbackEnds, BlockDone
<1>7. CASE Stop \/ Restart
  BY <1>7 DEF Stop, Restart
<1> QED
  BY <1>2, <1>3, <1>4, <1>5, <1>6, <1>7 DEF Next, Serve, Step

\* A callback that calls watch or unwatch waits for the guard that
\* handle_asset_transfer_dynamic holds for it: it never comes back, and every other call
\* of watch and unwatch waits with it until run is stopped.
THEOREM OwnCallNeverReturns == Spec => OwnCallHangs
<1>1. TypeOK /\ PlaceInv /\ [Next]_vars =>
        [pc = "watch" /\ pc' # "off" =>
           /\ pc' = "watch" /\ UNCHANGED <<watched, block, pos, deposit>>
           /\ IsPrefix(queue, queue')]_vars
  BY HangStep
<1> QED
  BY <1>1, TypeAlways, PTL DEF Spec, OwnCallHangs
=============================================================================
