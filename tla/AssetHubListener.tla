-------------------------- MODULE AssetHubListener --------------------------
(***************************************************************************)
(* The Asset Hub listener, src/src/listener/assethub.rs: a task in run     *)
(* follows finalized blocks and offers the transfers to watched addresses  *)
(* to the deposit callback, while other tasks call watch and unwatch (see  *)
(* Registrations).  The reading guard of an event lives until its callback *)
(* is done.  A callback's error is logged and changes nothing: it is an    *)
(* end like another.                                                       *)
(***************************************************************************)
EXTENDS Registrations

CONSTANTS
  Blocks,     \* the blocks there may be: sequences of [to, known], known for an asset
              \* of the table: USDC, USDT or the native token
  Reentrant,  \* the callback may call watch and unwatch itself
  MaxHeight,  \* bound: finalized blocks
  MaxCalls,   \* bound: calls of watch and unwatch
  MaxFaults,  \* bound: blocks and events that cannot be read
  MaxStops    \* bound: runs that end and processes that die

ASSUME BlocksAssumption == Blocks \subseteq Seq([to : Keys, known : BOOLEAN])
ASSUME BoundsAssumption == {MaxHeight, MaxCalls, MaxFaults, MaxStops} \subseteq Nat

VARIABLES
  chain,      \* the finalized blocks
  pc,         \* where run is: "off", "next", "event", "lock", "callback" or "watch"
  block, pos, \* the block and the event it is at
  deposit,    \* what it has offered to the callback
  calls, faults, stops,
  \* history, read by no action:
  credits,    \* the events offered to the callback, <<block, pos>>
  repeated,   \* those offered more than once
  heads,      \* the blocks at which a subscription began
  due         \* <<block, pos, user>>: transfers finalized during this run to an address
              \* that was user's and still is, not offered yet and not lost to a fault

task    == <<pc, block, pos, deposit>>
bounds  == <<calls, faults, stops>>
history == <<credits, repeated, heads, due>>
vars    == <<chain, lock, task, bounds, history>>

Running == pc # "off"
Event   == chain[block][pos]

Init ==
  /\ chain = <<>>
  /\ LockInit
  /\ pc = "off" /\ block = 0 /\ pos = 0 /\ deposit = None
  /\ calls = 0 /\ faults = 0 /\ stops = 0
  /\ credits = {} /\ repeated = {} /\ heads = {} /\ due = {}

Fault == faults < MaxFaults /\ faults' = faults + 1

Finalize == \E b \in Blocks :
  /\ Len(chain) < MaxHeight
  /\ chain' = Append(chain, b)
  /\ due' = IF Running
              THEN due \cup {<<Len(chain) + 1, i, watched[b[i].to]>> :
                              i \in {j \in DOMAIN b : b[j].known /\ watched[b[j].to] # None}}
              ELSE due
  /\ UNCHANGED <<lock, task, bounds, credits, repeated, heads>>

-----------------------------------------------------------------------------
(* watch and unwatch *)

\* Another task calls watch, or unwatch when u is None.
Call == \E a \in Keys, u \in Users \cup {None} :
  /\ calls < MaxCalls
  /\ calls' = calls + 1
  /\ Ask("write", a, u)
  /\ UNCHANGED <<chain, task, faults, stops, history>>

\* The callback makes such a call, and waits for it.
CallbackCalls == \E a \in Keys, u \in Users \cup {None} :
  /\ Reentrant /\ pc = "callback"
  /\ calls < MaxCalls
  /\ calls' = calls + 1
  /\ Ask("own", a, u)
  /\ pc' = "watch"
  /\ UNCHANGED <<chain, block, pos, deposit, faults, stops, history>>

ServeWrite ==
  /\ Write
  /\ due' = {d \in due : chain[d[1]][d[2]].to # Head(queue).key}
  /\ pc' = IF Waits("own") THEN "callback" ELSE pc
  /\ UNCHANGED <<chain, block, pos, deposit, bounds, credits, repeated, heads>>

-----------------------------------------------------------------------------
(* run *)

\* Mutant: the subscription catches up from the block before.
RunEarlier == \E h \in 1..(Len(chain) + 1) :
  /\ ~Running
  /\ pc' = "next" /\ block' = h - 1 /\ pos' = 0
  /\ heads' = heads \cup {Len(chain)}
  /\ UNCHANGED <<chain, lock, deposit, bounds, credits, repeated, due>>

\* A subscription begins with the last finalized block, or after it.
Run == \E h \in {Len(chain), Len(chain) + 1} \ {0} :
  /\ ~Running
  /\ pc' = "next" /\ block' = h - 1 /\ pos' = 0
  /\ heads' = heads \cup {h}
  /\ UNCHANGED <<chain, lock, deposit, bounds, credits, repeated, due>>

NextBlock ==
  /\ pc = "next" /\ block < Len(chain)
  /\ pc' = "event" /\ block' = block + 1 /\ pos' = 1
  /\ UNCHANGED <<chain, lock, deposit, bounds, history>>

\* The block, or its events, cannot be got: it is passed over.
BlockFails ==
  /\ pc = "next" /\ block < Len(chain)
  /\ Fault
  /\ block' = block + 1 /\ pos' = Len(chain[block + 1]) + 1
  /\ due' = {d \in due : d[1] # block + 1}
  /\ UNCHANGED <<chain, lock, pc, deposit, calls, stops, credits, repeated, heads>>

\* The node's metadata does not decode an event, this one or one before it that is no
\* transfer: subxt's iterator gives an error and then ends, whatever continue says, and
\* the rest of the block is passed over.
IteratorFails ==
  /\ pc = "event" /\ pos \in DOMAIN chain[block]
  /\ Fault
  /\ pos' = Len(chain[block]) + 1
  /\ due' = {d \in due : ~(d[1] = block /\ d[2] >= pos)}
  /\ UNCHANGED <<chain, lock, pc, block, deposit, calls, stops, credits, repeated, heads>>

\* A handler finds that the fields do not decode, or that one is missing: this event is
\* passed over.
EventFails ==
  /\ pc = "event" /\ pos \in DOMAIN chain[block]
  /\ Fault
  /\ pos' = pos + 1
  /\ due' = {d \in due : <<d[1], d[2]>> # <<block, pos>>}
  /\ UNCHANGED <<chain, lock, pc, block, deposit, calls, stops, credits, repeated, heads>>

\* A transfer asks for the lock.
AskRead ==
  /\ pc = "event" /\ pos \in DOMAIN chain[block]
  /\ pc' = "lock"
  /\ AskReading
  /\ UNCHANGED <<chain, block, pos, deposit, bounds, history>>

\* Nobody's address, or an asset of no name.
ServeReadNothing ==
  /\ Grant(FALSE)
  /\ watched[Event.to] = None \/ ~Event.known
  /\ pc' = "event" /\ pos' = pos + 1
  /\ UNCHANGED <<chain, block, deposit, bounds, history>>

OfferEvent ==
  /\ watched[Event.to] # None /\ Event.known
  /\ pc' = "callback" /\ deposit' = [to |-> Event.to, user |-> watched[Event.to]]
  /\ credits' = credits \cup {<<block, pos>>}
  /\ repeated' = repeated \cup ({<<block, pos>>} \cap credits)
  /\ due' = due \ {<<block, pos, watched[Event.to]>>}
  /\ UNCHANGED <<chain, block, pos, bounds, heads>>

\* Mutant: the guard is dropped before the callback.
OfferUnguarded == Grant(FALSE) /\ OfferEvent

\* The callback is called with the guard held.
Offer == Grant(TRUE) /\ OfferEvent

\* Mutant: the rest of the block is left when a callback is done.
CallbackEndsBlock ==
  /\ pc = "callback"
  /\ pc' = "next" /\ pos' = Len(chain[block]) + 1 /\ deposit' = None
  /\ Release
  /\ UNCHANGED <<chain, block, bounds, history>>

\* Mutant: the guard is never dropped.
CallbackKeepsGuard ==
  /\ pc = "callback"
  /\ pc' = "event" /\ pos' = pos + 1 /\ deposit' = None
  /\ UNCHANGED <<chain, lock, block, bounds, history>>

CallbackEnds ==
  /\ pc = "callback"
  /\ pc' = "event" /\ pos' = pos + 1 /\ deposit' = None
  /\ Release
  /\ UNCHANGED <<chain, block, bounds, history>>

BlockDone ==
  /\ pc = "event" /\ pos \notin DOMAIN chain[block]
  /\ pc' = "next"
  /\ UNCHANGED <<chain, lock, block, pos, deposit, bounds, history>>

\* run ends with its stream, or its future is dropped where it waits.
Stop ==
  /\ Running
  /\ stops < MaxStops /\ stops' = stops + 1
  /\ pc' = "off" /\ deposit' = None
  /\ Abandon
  /\ due' = {}
  /\ UNCHANGED <<chain, block, pos, calls, faults, credits, repeated, heads>>

\* The process dies, and the registrations with it.
Restart ==
  /\ stops < MaxStops /\ stops' = stops + 1
  /\ Forget
  /\ pc' = "off" /\ deposit' = None
  /\ due' = {}
  /\ UNCHANGED <<chain, block, pos, calls, faults, credits, repeated, heads>>

Serve == ServeWrite \/ ServeReadNothing \/ Offer
Step  == NextBlock \/ BlockFails \/ IteratorFails \/ EventFails \/ AskRead \/ CallbackEnds \/ BlockDone

Next == \/ Finalize \/ Call \/ CallbackCalls \/ Run \/ Stop \/ Restart
        \/ Serve \/ Step

Spec == Init /\ [][Next]_vars

\* The runtime polls what can go on, the node answers and a callback that does not
\* wait for the lock ends.
FairSpec == Spec /\ WF_vars(Serve) /\ WF_vars(Step)

-----------------------------------------------------------------------------
(* Properties *)

\* The registrations, the queue and the place of run hold what they may hold; run
\* waits in the queue exactly where it waits for the lock.
TypeOK ==
  /\ chain \in Seq(Blocks)
  /\ LockTypeOK
  /\ pc \in {"off", "next", "event", "lock", "callback", "watch"}
  /\ block \in 0..Len(chain) /\ pos \in Nat
  /\ pc \in {"lock", "callback", "watch"} => block > 0 /\ pos \in DOMAIN chain[block]
  /\ deposit \in [to : Keys, user : Users] \cup {None}
  /\ pc = "lock" <=> Owns("read")
  /\ pc = "watch" <=> Owns("own")
  /\ calls \in Nat /\ faults \in Nat /\ stops \in Nat
  /\ repeated \subseteq credits

\* While a deposit is being credited its address stays registered to the user it is
\* credited to: a call of watch or unwatch that returns leaves no credit behind it
\* under the registration it replaced.
CreditIsCurrent ==
  pc \in {"callback", "watch"} => watched[deposit.to] = deposit.user

\* Nothing that is finalized during a run for an address registered then and still is
\* passed over, or credited to another user, faults of the node apart.
DueIsCredited ==
  \A d \in due : d[1] > block \/ (d[1] = block /\ d[2] >= pos)

\* With nothing remembered across runs, a transfer is credited twice only if it is in
\* a block at which a subscription began.
RepeatedAtHeads == \A e \in repeated : e[1] \in heads

\* Every call of watch and unwatch returns: the queue of the lock empties again.
CallsReturn == queue # <<>> ~> queue = <<>>

\* Only the callback's own calls can hang the lock: from anywhere else the queue empties,
\* or the callback comes to wait for the guard of its own event.
OnlyOwnCallsHang == queue # <<>> ~> (queue = <<>> \/ pc = "watch")

\* Every transfer that is due is credited, or lost to a fault, a stop or a call, unless
\* the callback hangs in a call of its own.
DueSettles == due # {} ~> (due = {} \/ pc = "watch")
=============================================================================
