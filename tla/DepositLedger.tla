---------------------------- MODULE DepositLedger ----------------------------
(***************************************************************************)
(* What a listener that remembers its deposits promises to the application *)
(* behind the callback: a deposit is offered while its address is          *)
(* registered, and not again before what was known of it is lost.          *)
(* ZcashListener and PenumbraListener implement this specification.        *)
(***************************************************************************)
EXTENDS Naturals

CONSTANTS
  Deposits,
  Addresses,
  Users,
  AddressOf   \* the address each deposit pays

VARIABLES
  registered, \* the <<address, user>> pairs the application asked for
  remembered, \* the deposits that will not be offered again
  offered,    \* offered[d]: calls of the callback for d
  losses      \* losses[d]: times what was known of d was lost

ledger == <<registered, remembered, offered, losses>>

Init ==
  /\ registered = {} /\ remembered = {}
  /\ offered = [d \in Deposits |-> 0]
  /\ losses = [d \in Deposits |-> 0]

\* The application adds and removes addresses.
Register ==
  /\ registered' \subseteq Addresses \X Users
  /\ UNCHANGED <<remembered, offered, losses>>

\* One deposit at a time, to an address someone is registered for.
Offer == \E d \in Deposits \ remembered :
  /\ \E u \in Users : <<AddressOf[d], u>> \in registered
  /\ offered' = [offered EXCEPT ![d] = @ + 1]
  /\ remembered' = remembered \cup {d}
  /\ UNCHANGED <<registered, losses>>

\* A deposit to nobody's address is done with.
Dismiss == \E d \in Deposits :
  /\ ~\E u \in Users : <<AddressOf[d], u>> \in registered
  /\ remembered' = remembered \cup {d}
  /\ UNCHANGED <<registered, offered, losses>>

\* A listener is dropped in the middle of its work, or its process dies.
Lose == \E D \in SUBSET Deposits :
  /\ remembered' = remembered \ D
  /\ losses' = [d \in Deposits |-> losses[d] + IF d \in D THEN 1 ELSE 0]
  /\ registered' \subseteq registered
  /\ UNCHANGED offered

Next == Register \/ Offer \/ Dismiss \/ Lose

Spec == Init /\ [][Next]_ledger

\* A deposit is offered at most once more than what was known of it was lost.
OfferedOnce == \A d \in Deposits : offered[d] <= 1 + losses[d]

=============================================================================
