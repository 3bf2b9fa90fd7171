----------------------- MODULE PenumbraListenerProofs -----------------------
(***************************************************************************)
(* Proofs about PenumbraListener: its types, that a process offers a note  *)
(* once, that a credit goes to the current registration, and that a        *)
(* processed note is lost in its callback or not at all.                   *)
(***************************************************************************)
EXTENDS PenumbraListener, RegistrationsProofs

-----------------------------------------------------------------------------
(* Types *)

\* Only poll_deposits waits for the lock; nothing is in a callback but there.
PlaceInv ==
  /\ ~Owns("own")
  /\ pc # "callback" => current = None

\* The listener starts well typed.
LEMMA TypeInit == Init => TypeOK /\ PlaceInv
<1> SUFFICES ASSUME Init
             PROVE  TypeOK /\ PlaceInv
  OBVIOUS
<1>1. LockTypeOK /\ ~Owns("read") /\ ~Owns("own")
  BY LockInitType DEF Init
<1> QED
  BY <1>1 DEF Init, LockInit, TypeOK, PlaceInv

\* Every step of the listener, of its callers and of the view service keeps the types.
LEMMA TypeStep == TypeOK /\ PlaceInv /\ [Next]_vars => TypeOK' /\ PlaceInv'
<1> SUFFICES ASSUME TypeOK, PlaceInv, [Next]_vars
             PROVE  TypeOK' /\ PlaceInv'
  OBVIOUS
<1> USE NotesAssumption, NoneAssumption
    DEF TypeOK, PlaceInv, view, poll, bounds, history, NoPoll
<1>1. ASSUME UNCHANGED lock
      PROVE  LockTypeOK' /\ guard' = guard /\ (Owns("read")' <=> Owns("read")) /\ ~Owns("own")'
  BY <1>1, LockStays DEF lock, LockTypeOK
<1>2. CASE Receive
  BY <1>1, <1>2 DEF Receive
<1>3. CASE Spend
  BY <1>1, <1>3 DEF Spend, Unspent
<1>4. CASE Call
  <2>1. LockTypeOK' /\ guard' = guard /\ (Owns("read")' <=> Owns("read")) /\ ~Owns("own")'
    BY <1>4, AskKeeps DEF Call, Ask
  <2> QED
    BY <1>4, <2>1 DEF Call
<1>5. CASE ServeWrite
  <2>1. Waits("write")
    <3>1. Waits("own") => Owns("own")
      BY <1>5, WriteKeeps DEF ServeWrite
    <3> QED
      BY <1>5, <3>1 DEF ServeWrite, Write
  <2>2. LockTypeOK' /\ guard' = guard /\ (Owns("read")' <=> Owns("read")) /\ ~Owns("own")'
    BY <1>5, <2>1, WriteKeeps DEF ServeWrite, Write
  <2> QED
    BY <1>5, <2>2 DEF ServeWrite
<1>6. CASE Run
  BY <1>1, <1>6 DEF Run, Running
<1>7. CASE ListNotes
  <2>1. Read \in Requests /\ Read.kind = "read"
    BY DEF Requests, Read, Request
  <2>2. OwnPlaces = {}
    BY <1>7, OwnsPlace DEF ListNotes
  <2>3. LockTypeOK' /\ guard' = guard /\ Owns("read")' /\ ~Owns("own")'
    BY <1>7, <2>1, <2>2, AskOwn DEF ListNotes, AskReading
  <2> QED
    BY <1>7, <2>3 DEF ListNotes, Unspent
<1>8. CASE StartStream
  <2>1. LockTypeOK' /\ guard' = TRUE /\ ~Owns("read")' /\ ~Owns("own")'
    BY <1>8, GrantKeeps DEF StartStream
  <2> QED
    BY <1>8, <2>1 DEF StartStream
<1>9. CASE SkipNote
  BY <1>1, <1>9 DEF SkipNote
<1>10. CASE Offer
  <2>1. \A n \in Notes : watched[IndexOf[n]] \in Users \cup {None}
    BY DEF LockTypeOK
  <2> QED
    BY <1>1, <1>10, <2>1 DEF Offer
<1>11. CASE CallbackEnds
  BY <1>1, <1>11 DEF CallbackEnds
<1>12. ASSUME Release
       PROVE  LockTypeOK' /\ guard' = FALSE /\ (Owns("read")' <=> Owns("read")) /\ ~Owns("own")'
  BY <1>12, LockStays DEF Release
<1>13. CASE EndStream
  BY <1>12, <1>13 DEF EndStream
<1>14. CASE StreamFails
  BY <1>12, <1>14 DEF StreamFails
<1>15. CASE Cancel
  <2>1. LockTypeOK' /\ guard' = FALSE /\ ~Owns("read")' /\ ~Owns("own")'
    BY <1>15, AbandonKeeps DEF Cancel
  <2> QED
    BY <1>15, <2>1 DEF Cancel
<1>16. CASE Restart
  <2>1. LockTypeOK' /\ guard' = FALSE /\ ~Owns("read")' /\ ~Owns("own")'
    BY <1>16, ForgetKeeps DEF Restart
  <2> QED
    BY <1>16, <2>1 DEF Restart
<1>17. CASE UNCHANGED vars
  BY <1>1, <1>17 DEF vars
<1> QED
  BY <1>2, <1>3, <1>4, <1>5, <1>6, <1>7, <1>8, <1>9, <1>10, <1>11, <1>13, <1>14, <1>15,
     <1>16, <1>17 DEF Next, Poll

\* Every reachable state is well typed, and only poll_deposits waits for the lock.
LEMMA TypeAlways == Spec => [](TypeOK /\ PlaceInv)
  BY TypeInit, TypeStep, PTL DEF Spec

\* Every reachable state is well typed: the guard is held from the grant to the end of
\* the stream, and poll_deposits is in the queue exactly where it waits.
THEOREM PenumbraTypes == Spec => []TypeOK
  BY TypeAlways, PTL

-----------------------------------------------------------------------------
(* Safety *)

\* The user of a credit is the registered one: nobody writes while the guard is held.
LEMMA CurrentStep == TypeOK /\ PlaceInv /\ CreditIsCurrent /\ [Next]_vars => CreditIsCurrent'
<1> SUFFICES ASSUME TypeOK, PlaceInv, CreditIsCurrent, [Next]_vars
             PROVE  CreditIsCurrent'
  OBVIOUS
<1> USE DEF CreditIsCurrent, poll
<1>1. CASE ServeWrite
  BY <1>1 DEF ServeWrite, Write, TypeOK
<1>2. CASE Offer
  BY <1>2 DEF Offer, lock
<1>3. CASE Receive \/ Spend \/ UNCHANGED vars
  BY <1>3 DEF Receive, Spend, vars, lock
<1>4. CASE Call
  BY <1>4 DEF Call, Ask
<1>5. CASE Run \/ ListNotes \/ StartStream \/ EndStream \/ StreamFails \/ Cancel \/ Restart \/ CallbackEnds
  <2>1. pc' # "callback"
    BY <1>5 DEF Run, ListNotes, StartStream, EndStream, StreamFails, Cancel, Restart, CallbackEnds
  <2> QED
    BY <2>1
<1>6. CASE SkipNote
  BY <1>6 DEF SkipNote, lock
<1> QED
  BY <1>1, <1>2, <1>3, <1>4, <1>5, <1>6 DEF Next, Poll

\* While a deposit is credited its index stays registered to its user: the guard of
\* poll_deposits, penumbra.rs.
THEOREM CreditedToItsOwner == Spec => []CreditIsCurrent
<1>1. Init => CreditIsCurrent
  BY DEF Init, CreditIsCurrent
<1> QED
  BY <1>1, CurrentStep, TypeAlways, PTL DEF Spec

\* A processed note stays in its callback, or is credited or lost.
LEMMA LostStep == TypeOK /\ PlaceInv /\ LostInCallbackOnly /\ [Next]_vars => LostInCallbackOnly'
<1> SUFFICES ASSUME TypeOK, PlaceInv, LostInCallbackOnly, [Next]_vars
             PROVE  LostInCallbackOnly'
  OBVIOUS
<1> USE NotesAssumption DEF LostInCallbackOnly, poll, history
<1>1. None \notin processed
  BY DEF TypeOK
<1>2. CASE UNCHANGED <<processed, current, credited, lost>>
  BY <1>2
<1>3. CASE Receive \/ Spend \/ Call \/ ServeWrite \/ Run \/ UNCHANGED vars
  BY <1>2, <1>3 DEF Receive, Spend, Call, ServeWrite, Run, vars
<1>4. CASE ListNotes \/ StartStream \/ SkipNote \/ EndStream
  BY <1>2, <1>4 DEF ListNotes, StartStream, SkipNote, EndStream
<1>5. CASE Offer
  <2>1. current = None
    BY <1>5 DEF Offer, PlaceInv
  <2> QED
    BY <1>1, <1>5, <2>1 DEF Offer
<1>6. CASE CallbackEnds
  BY <1>1, <1>6 DEF CallbackEnds
<1>7. CASE StreamFails
  <2>1. current = None
    BY <1>7 DEF StreamFails, PlaceInv
  <2> QED
    BY <1>1, <1>7, <2>1 DEF StreamFails, NoPoll
<1>8. CASE Cancel
  BY <1>1, <1>8 DEF Cancel, NoPoll
<1>9. CASE Restart
  BY <1>9 DEF Restart
<1> QED
  BY <1>3, <1>4, <1>5, <1>6, <1>7, <1>8, <1>9 DEF Next, Poll

\* A processed note is credited unless its callback failed or was dropped:
\* poll_deposits marks what it offers and nothing else.
THEOREM LostNowhereElse == Spec => []LostInCallbackOnly
<1>1. Init => LostInCallbackOnly
  BY DEF Init, LostInCallbackOnly
<1> QED
  BY <1>1, LostStep, TypeAlways, PTL DEF Spec

-----------------------------------------------------------------------------
(* The listener implements DepositLedger *)

\* A registration is a pair of the map, one of a user.
LEMMA RegisteredIsMap ==
  \A i \in Keys, u \in Users :
    <<i, u>> \in {r \in Keys \X Users : watched[r[1]] = r[2]} <=> watched[i] = u
  OBVIOUS

\* Every step of the listener, of its callers and of the view service is a step of the
\* ledger, or changes nothing of it.
LEMMA LedgerStep == TypeOK /\ [Next]_vars => [Ledger!Next]_(Ledger!ledger)
<1> SUFFICES ASSUME TypeOK, [Next]_vars
             PROVE  [Ledger!Next]_(Ledger!ledger)
  OBVIOUS
<1> USE DEF Ledger!Next, Ledger!ledger, history
<1>1. CASE UNCHANGED <<watched, processed, offered, forgotten>>
  BY <1>1
<1>2. CASE Receive \/ Spend \/ UNCHANGED vars
  BY <1>1, <1>2 DEF Receive, Spend, vars, lock
<1>3. CASE Call \/ Run
  BY <1>1, <1>3 DEF Call, Run, Ask, lock
<1>4. CASE ListNotes \/ StartStream \/ SkipNote \/ CallbackEnds \/ EndStream \/ StreamFails
  BY <1>1, <1>4 DEF ListNotes, StartStream, SkipNote, CallbackEnds, EndStream, StreamFails,
                    AskReading, Grant, Release, lock
<1>5. CASE Cancel
  BY <1>1, <1>5 DEF Cancel, Abandon
<1>6. CASE ServeWrite
  BY <1>6 DEF ServeWrite, Ledger!Register
<1>7. CASE Offer
  <2>1. PICK n \in stream :
          /\ n \notin processed /\ watched[IndexOf[n]] # None
          /\ processed' = processed \cup {n}
          /\ offered' = [offered EXCEPT ![n] = @ + 1]
          /\ UNCHANGED <<watched, forgotten>>
    BY <1>7 DEF Offer, lock
  <2>2. n \in Notes /\ IndexOf[n] \in Keys
    BY NotesAssumption DEF TypeOK
  <2>3. watched[IndexOf[n]] \in Users
    BY <2>1, <2>2 DEF TypeOK, LockTypeOK
  <2>4. \E u \in Users : <<IndexOf[n], u>> \in {r \in Keys \X Users : watched[r[1]] = r[2]}
    BY <2>2, <2>3, RegisteredIsMap
  <2>5. Ledger!Offer
    BY <2>1, <2>2, <2>4 DEF Ledger!Offer
  <2> QED
    BY <2>5
<1>8. CASE Restart
  <2>1. /\ processed' = processed \ processed
        /\ forgotten' = [n \in Notes |-> forgotten[n] + IF n \in processed THEN 1 ELSE 0]
        /\ offered' = offered
        /\ watched' = [k \in Keys |-> None]
    BY <1>8 DEF Restart, Forget
  <2>2. processed \in SUBSET Notes
    BY DEF TypeOK
  <2>3. {r \in Keys \X Users : watched'[r[1]] = r[2]} = {}
    BY <2>1, NoneAssumption
  <2> QED
    BY <2>1, <2>2, <2>3 DEF Ledger!Lose
<1> QED
  BY <1>2, <1>3, <1>4, <1>5, <1>6, <1>7, <1>8 DEF Next, Poll

\* The Penumbra listener implements DepositLedger: what poll_deposits, penumbra.rs, keeps
\* in processed_notes is what the ledger remembers.
THEOREM PenumbraKeepsLedger == Spec => KeepsLedger
<1>1. Init => Ledger!Init
  BY NoneAssumption DEF Init, LockInit, Ledger!Init
<1> QED
  BY <1>1, LedgerStep, PenumbraTypes, PTL DEF Spec, KeepsLedger, Ledger!Spec

\* A ledger's bound is inductive with the term for what is remembered.
LedgerInv ==
  /\ offered \in [Notes -> Nat] /\ forgotten \in [Notes -> Nat]
  /\ \A n \in Notes : offered[n] <= forgotten[n] + IF n \in processed THEN 1 ELSE 0

\* Every step of a ledger keeps the bound: an offer is remembered, and what is lost is
\* counted.
LEMMA LedgerBound == LedgerInv /\ [Ledger!Next]_(Ledger!ledger) => LedgerInv'
<1> SUFFICES ASSUME LedgerInv, [Ledger!Next]_(Ledger!ledger)
             PROVE  LedgerInv'
  OBVIOUS
<1>1. \A n \in Notes : offered[n] \in Nat /\ forgotten[n] \in Nat
  BY DEF LedgerInv
<1>2. CASE Ledger!Register \/ UNCHANGED Ledger!ledger
  <2>1. UNCHANGED <<processed, offered, forgotten>>
    BY <1>2 DEF Ledger!Register, Ledger!ledger
  <2> QED BY <2>1 DEF LedgerInv
<1>3. CASE Ledger!Offer
  <2>1. PICK n \in Notes \ processed :
          /\ offered' = [offered EXCEPT ![n] = @ + 1]
          /\ processed' = processed \cup {n}
          /\ forgotten' = forgotten
    BY <1>3 DEF Ledger!Offer
  <2>2. \A m \in Notes : offered'[m] = offered[m] + IF m = n THEN 1 ELSE 0
    BY <1>1, <2>1 DEF LedgerInv
  <2>3. offered' \in [Notes -> Nat]
    BY <1>1, <2>1 DEF LedgerInv
  <2> QED
    BY <1>1, <2>1, <2>2, <2>3 DEF LedgerInv
<1>4. CASE Ledger!Dismiss
  <2>1. /\ \E n \in Notes : processed' = processed \cup {n}
        /\ UNCHANGED <<offered, forgotten>>
    BY <1>4 DEF Ledger!Dismiss
  <2> QED BY <1>1, <2>1 DEF LedgerInv
<1>5. CASE Ledger!Lose
  <2>1. PICK D \in SUBSET Notes :
          /\ processed' = processed \ D
          /\ forgotten' = [n \in Notes |-> forgotten[n] + IF n \in D THEN 1 ELSE 0]
          /\ offered' = offered
    BY <1>5 DEF Ledger!Lose
  <2>2. forgotten' \in [Notes -> Nat]
    BY <1>1, <2>1
  <2> QED
    BY <1>1, <2>1, <2>2 DEF LedgerInv
<1> QED
  BY <1>2, <1>3, <1>4, <1>5 DEF Ledger!Next

\* A ledger offers a deposit once and once more for each loss of what was known of it:
\* the callback of a listener that keeps one, as poll_deposits and check_transaction do.
THEOREM LedgerOffersOnce == Ledger!Spec => []Ledger!OfferedOnce
<1>1. Ledger!Init => LedgerInv
  BY DEF Ledger!Init, LedgerInv
<1>2. LedgerInv => Ledger!OfferedOnce
  BY DEF LedgerInv, Ledger!OfferedOnce
<1> QED
  BY <1>1, <1>2, LedgerBound, PTL DEF Ledger!Spec

\* A process offers a note once: `processed_notes` in poll_deposits, penumbra.rs.
THEOREM OncePerProcess == Spec => []OfferedOncePerProcess
<1>1. Ledger!OfferedOnce <=> OfferedOncePerProcess
  BY DEF Ledger!OfferedOnce, OfferedOncePerProcess
<1>2. Spec => Ledger!Spec
  BY PenumbraKeepsLedger DEF KeepsLedger
<1> QED
  BY <1>1, <1>2, LedgerOffersOnce, PTL
=============================================================================
