-------------------------- MODULE PenumbraListener --------------------------
(***************************************************************************)
(* The Penumbra listener, src/src/listener/penumbra.rs: every poll asks    *)
(* the view service for the unspent notes and offers those of watched      *)
(* address indices to the callback, each once.  One reading guard of the   *)
(* registrations lives for the whole stream of a poll and every callback   *)
(* of it.  A note is marked processed before its callback is called, with  *)
(* no await between the two that lets run be dropped there.                *)
(*                                                                         *)
(* The view service is the environment.  It collects its answer when asked *)
(* and streams it in an order of its own.  The client, which is dropped    *)
(* after an error and made again by the next poll, is left out.            *)
(***************************************************************************)
EXTENDS Registrations

CONSTANTS
  Notes,      \* note commitments
  IndexOf,    \* the address index each note pays
  Usdc,       \* the notes of the asset the listener credits
  MaxCalls,   \* bound: calls of watch and unwatch
  MaxFaults,  \* bound: polls whose requests or stream fail
  MaxStops    \* bound: dropped runs and processes that die

ASSUME NotesAssumption == 
  IndexOf \in [Notes -> Keys] /\ Usdc \subseteq Notes /\ None \notin Notes
ASSUME BoundsAssumption == {MaxCalls, MaxFaults, MaxStops} \subseteq Nat

VARIABLES
  synced,     \* the view service has a height
  received, spent, \* the notes it has seen created, and spent
  processed,  \* self.processed_notes
  pc,         \* where run is: "off", "poll", "lock", "stream" or "callback"
  stream,     \* the notes of this poll still to come
  current,    \* the note in the callback
  user,       \* whom it is credited to
  calls, faults, stops,
  \* history, read by no action:
  offered,    \* offered[n]: calls of on_deposit for note n
  forgotten,  \* forgotten[n]: restarts of a process that had processed n
  credited,   \* the notes whose callback returned Ok
  lost        \* those whose callback failed, or was dropped with run

view    == <<synced, received, spent>>
poll    == <<pc, stream, current, user>>
bounds  == <<calls, faults, stops>>
history == <<offered, forgotten, credited, lost>>
vars    == <<view, lock, processed, poll, bounds, history>>

Running == pc # "off"
Unspent == received \ spent
NoPoll  == stream' = {} /\ current' = None /\ user' = None

Init ==
  /\ synced = FALSE /\ received = {} /\ spent = {}
  /\ LockInit
  /\ processed = {}
  /\ pc = "off" /\ stream = {} /\ current = None /\ user = None
  /\ calls = 0 /\ faults = 0 /\ stops = 0
  /\ offered = [n \in Notes |-> 0] /\ forgotten = [n \in Notes |-> 0]
  /\ credited = {} /\ lost = {}

-----------------------------------------------------------------------------
(* The view service, and the callers of watch and unwatch *)

Receive == \E n \in Notes \ received :
  /\ received' = received \cup {n}
  /\ synced' = TRUE
  /\ UNCHANGED <<spent, lock, processed, poll, bounds, history>>

Spend == \E n \in Unspent :
  /\ spent' = spent \cup {n}
  /\ UNCHANGED <<synced, received, lock, processed, poll, bounds, history>>

\* u is None for unwatch.
Call == \E i \in Keys, u \in Users \cup {None} :
  /\ calls < MaxCalls
  /\ calls' = calls + 1
  /\ Ask("write", i, u)
  /\ UNCHANGED <<view, processed, poll, faults, stops, history>>

ServeWrite ==
  /\ Write
  /\ UNCHANGED <<view, processed, poll, bounds, history>>

-----------------------------------------------------------------------------
(* run and poll_deposits *)

Run ==
  /\ ~Running
  /\ pc' = "poll"
  /\ UNCHANGED <<view, lock, processed, stream, current, user, bounds, history>>

\* Before the service has a height a poll does nothing: no step here.
ListNotes ==
  /\ pc = "poll" /\ synced
  /\ stream' = Unspent
  /\ AskReading
  /\ pc' = "lock"
  /\ UNCHANGED <<view, processed, current, user, bounds, history>>

\* Mutant: the guard is dropped when the stream begins.
StartStreamUnguarded ==
  /\ pc = "lock"
  /\ Grant(FALSE)
  /\ pc' = "stream"
  /\ UNCHANGED <<view, processed, stream, current, user, bounds, history>>

StartStream ==
  /\ pc = "lock"
  /\ Grant(TRUE)
  /\ pc' = "stream"
  /\ UNCHANGED <<view, processed, stream, current, user, bounds, history>>

\* Mutant: a skipped note is marked as well.
SkipMarks == \E n \in stream :
  /\ pc = "stream"
  /\ n \in processed \/ watched[IndexOf[n]] = None \/ n \notin Usdc
  /\ stream' = stream \ {n}
  /\ processed' = processed \cup {n}
  /\ UNCHANGED <<view, lock, pc, current, user, bounds, history>>

\* A note dealt with before, of nobody's index, or of another asset.
SkipNote == \E n \in stream :
  /\ pc = "stream"
  /\ n \in processed \/ watched[IndexOf[n]] = None \/ n \notin Usdc
  /\ stream' = stream \ {n}
  /\ UNCHANGED <<view, lock, processed, pc, current, user, bounds, history>>

\* Mutant: the note is marked after its callback, as the Zcash listener does.
OfferUnmarked == \E n \in stream :
  /\ pc = "stream"
  /\ n \notin processed /\ watched[IndexOf[n]] # None /\ n \in Usdc
  /\ stream' = stream \ {n}
  /\ current' = n /\ user' = watched[IndexOf[n]]
  /\ offered' = [offered EXCEPT ![n] = @ + 1]
  /\ pc' = "callback"
  /\ UNCHANGED <<view, lock, processed, bounds, forgotten, credited, lost>>

Offer == \E n \in stream :
  /\ pc = "stream"
  /\ n \notin processed /\ watched[IndexOf[n]] # None /\ n \in Usdc
  /\ stream' = stream \ {n}
  /\ processed' = processed \cup {n}
  /\ current' = n /\ user' = watched[IndexOf[n]]
  /\ offered' = [offered EXCEPT ![n] = @ + 1]
  /\ pc' = "callback"
  /\ UNCHANGED <<view, lock, bounds, forgotten, credited, lost>>

\* The callback's error is logged.
CallbackEnds ==
  /\ pc = "callback"
  /\ \/ credited' = credited \cup {current} /\ UNCHANGED lost
     \/ lost' = lost \cup {current} /\ UNCHANGED credited
  /\ current' = None /\ user' = None
  /\ pc' = "stream"
  /\ UNCHANGED <<view, lock, processed, stream, bounds, offered, forgotten>>

\* Mutant: the guard of one poll lives into the next.
EndStreamKeepsGuard ==
  /\ pc = "stream" /\ stream = {}
  /\ pc' = "poll"
  /\ UNCHANGED <<view, lock, processed, stream, current, user, bounds, history>>

EndStream ==
  /\ pc = "stream" /\ stream = {}
  /\ Release
  /\ pc' = "poll"
  /\ UNCHANGED <<view, processed, stream, current, user, bounds, history>>

\* The stream fails: the poll ends, and the next begins anew.  (A poll that fails
\* before its stream is no step.)
StreamFails ==
  /\ pc = "stream"
  /\ faults < MaxFaults /\ faults' = faults + 1
  /\ Release
  /\ NoPoll
  /\ pc' = "poll"
  /\ UNCHANGED <<view, processed, calls, stops, history>>

\* The future of run is dropped.
Cancel ==
  /\ Running
  /\ stops < MaxStops /\ stops' = stops + 1
  /\ Abandon
  /\ NoPoll
  /\ pc' = "off"
  /\ lost' = lost \cup ({current} \ {None})
  /\ UNCHANGED <<view, processed, calls, faults, offered, forgotten, credited>>

\* The process dies; registrations and processed notes are in memory.
Restart ==
  /\ stops < MaxStops /\ stops' = stops + 1
  /\ Forget
  /\ processed' = {}
  /\ forgotten' = [n \in Notes |-> forgotten[n] + IF n \in processed THEN 1 ELSE 0]
  /\ NoPoll
  /\ pc' = "off"
  /\ UNCHANGED <<view, calls, faults, offered, credited, lost>>

Poll == ListNotes \/ StartStream \/ SkipNote \/ Offer \/ CallbackEnds \/ EndStream \/ StreamFails

Next == Receive \/ Spend \/ Call \/ ServeWrite \/ Run \/ Cancel \/ Restart \/ Poll

Spec == Init /\ [][Next]_vars

\* The service answers, callbacks return, and the runtime polls what can go on.
FairSpec == Spec /\ WF_vars(Poll) /\ WF_vars(ServeWrite)

-----------------------------------------------------------------------------
(* Properties *)

\* The listener's fields and the place of a poll; the guard is held from the grant
\* to the end of the stream.
TypeOK ==
  /\ LockTypeOK
  /\ synced \in BOOLEAN
  /\ spent \subseteq received /\ received \subseteq Notes
  /\ processed \subseteq received /\ stream \subseteq received
  /\ pc \in {"off", "poll", "lock", "stream", "callback"}
  /\ current \in Notes \cup {None} /\ user \in Users \cup {None}
  /\ pc = "callback" => current \in Usdc /\ user \in Users
  /\ guard <=> pc \in {"stream", "callback"}
  /\ pc = "lock" <=> Owns("read")
  /\ calls \in Nat /\ faults \in Nat /\ stops \in Nat
  /\ offered \in [Notes -> Nat] /\ forgotten \in [Notes -> Nat]

\* A note is offered again only by a process that forgot it: dropping run at any
\* point, failing streams and failing callbacks never offer it twice ("Set of
\* already-processed note commitments to avoid duplicates").
OfferedOncePerProcess == \A n \in Notes : offered[n] <= 1 + forgotten[n]

\* While a deposit is being credited its index stays registered to the user it is
\* credited to.
CreditIsCurrent == pc = "callback" => watched[IndexOf[current]] = user

\* A processed note is credited, unless its callback failed or was dropped with run:
\* none is lost to an unwatched index, a failing stream or another asset.
LostInCallbackOnly == processed \subseteq credited \cup lost \cup {current}

Ledger == INSTANCE DepositLedger WITH
  Deposits   <- Notes,
  Addresses  <- Keys,
  AddressOf  <- IndexOf,
  registered <- {r \in Keys \X Users : watched[r[1]] = r[2]},
  remembered <- processed,
  losses     <- forgotten

\* The listener keeps the ledger of DepositLedger: a note is offered while its index is
\* registered and it was not processed, and only a process that dies forgets it.
KeepsLedger == Ledger!Spec

\* A note that stays unspent, of an index that stays registered, goes through its
\* callback in the end while the listener runs: also when it came before the index
\* was watched, before the run, or in a poll that failed.
NotesAreOffered ==
  \A n \in Usdc :
    (Running /\ n \in Unspent /\ watched[IndexOf[n]] # None)
      ~> (n \in credited \cup lost \/ n \in spent \/ watched[IndexOf[n]] = None \/ ~Running)

\* Every call of watch and unwatch returns, however long the stream of a poll is.
CallsReturn == queue # <<>> ~> queue = <<>>
=============================================================================
