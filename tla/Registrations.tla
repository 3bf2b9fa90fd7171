--------------------------- MODULE Registrations ---------------------------
(***************************************************************************)
(* The addresses a listener watches, as the Asset Hub, Polkadot and        *)
(* Penumbra listeners keep them: a map behind a tokio RwLock, written by   *)
(* watch and unwatch and read by the one task that runs the listener.  The *)
(* lock serves its waiters in order.  A writer holds its guard for the     *)
(* insert or the removal alone; the reader may hold its own across awaits. *)
(***************************************************************************)
EXTENDS Naturals, Sequences, SequencesExt

CONSTANTS
  Keys,       \* what is watched: addresses, or address indices
  Users,
  None        \* no user

ASSUME NoneAssumption == None \notin Users

VARIABLES
  watched,    \* the user each key is registered to
  queue,      \* who waits for the lock, first come first served
  guard       \* the listener holds its reading guard

lock == <<watched, queue, guard>>

Request(kind, k, u) == [kind |-> kind, key |-> k, user |-> u]
Read        == Request("read", None, None)
Waits(kind) == queue # <<>> /\ Head(queue).kind = kind
Requests    == [kind : {"write", "own"}, key : Keys, user : Users \cup {None}] \cup {Read}

LockInit ==
  /\ watched = [k \in Keys |-> None]
  /\ queue = <<>>
  /\ guard = FALSE

\* A call of watch, or of unwatch when u is None: kind is "write" for another task's
\* call and "own" for one that the listener's callback makes.
Ask(kind, k, u) ==
  /\ queue' = Append(queue, Request(kind, k, u))
  /\ UNCHANGED <<watched, guard>>

AskReading ==
  /\ queue' = Append(queue, Read)
  /\ UNCHANGED <<watched, guard>>

\* The first waiter is a writer, and nobody reads.
Write ==
  /\ Waits("write") \/ Waits("own")
  /\ ~guard
  /\ watched' = [watched EXCEPT ![Head(queue).key] = Head(queue).user]
  /\ queue' = Tail(queue)
  /\ UNCHANGED guard

\* The first waiter is the listener: it keeps its guard, or drops it at once.
Grant(keeps) ==
  /\ Waits("read")
  /\ queue' = Tail(queue)
  /\ guard' = keeps
  /\ UNCHANGED watched

Release == guard' = FALSE /\ UNCHANGED <<watched, queue>>

\* The listener's own waiters: it reads, or its callback writes.
Owns(kind) == \E i \in DOMAIN queue : queue[i].kind = kind
OwnPlaces  == {i \in DOMAIN queue : queue[i].kind # "write"}

\* Mutant: a dropped listener keeps its place in the queue.
AbandonGuard == guard' = FALSE /\ UNCHANGED <<watched, queue>>

\* The listener's future is dropped, with its guard, its place in the queue, for it
\* waits in one at a time, and its callback.
Abandon ==
  /\ queue' = IF OwnPlaces = {} THEN queue ELSE RemoveAt(queue, CHOOSE i \in OwnPlaces : TRUE)
  /\ guard' = FALSE
  /\ UNCHANGED watched

\* The process dies; the map is in memory.
Forget ==
  /\ watched' = [k \in Keys |-> None]
  /\ queue' = <<>>
  /\ guard' = FALSE

LockTypeOK ==
  /\ watched \in [Keys -> Users \cup {None}]
  /\ queue \in Seq(Requests)
  /\ \A i, j \in OwnPlaces : i = j
  /\ guard \in BOOLEAN
=============================================================================
