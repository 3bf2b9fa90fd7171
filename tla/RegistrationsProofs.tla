------------------------ MODULE RegistrationsProofs ------------------------
(***************************************************************************)
(* What each operation of the lock does to its queue: the lemmas that the  *)
(* proofs about the Asset Hub and the Penumbra listener rest on.           *)
(***************************************************************************)
EXTENDS Registrations, TLAPS, SequenceTheorems

\* A lock that nobody has used is well typed, and the listener is not in its queue.
LEMMA LockInitType ==
  ASSUME LockInit
  PROVE  LockTypeOK /\ \A k \in {"read", "own"} : ~Owns(k)
<1>1. queue = <<>> /\ queue \in Seq(Requests)
  BY EmptySeq DEF LockInit
<1>2. DOMAIN queue = {}
  BY <1>1
<1> QED
  BY <1>1, <1>2 DEF LockInit, LockTypeOK, Owns, OwnPlaces

\* A step that leaves the queue leaves the listener's place in it.
LEMMA LockStays ==
  ASSUME LockTypeOK, UNCHANGED <<watched, queue>>, guard' \in BOOLEAN
  PROVE  LockTypeOK' /\ \A kind \in {"read", "own"} : Owns(kind)' <=> Owns(kind)
BY DEF LockTypeOK, Owns, OwnPlaces

\* What is in the queue.
LEMMA QueueEntry ==
  ASSUME LockTypeOK, NEW i \in DOMAIN queue
  PROVE  /\ queue[i] \in Requests
         /\ queue[i].kind \in {"write", "own", "read"}
         /\ queue[i].kind = "read" => queue[i] = Read
         /\ queue[i].kind # "read" => queue[i].key \in Keys /\ queue[i].user \in Users \cup {None}
<1>1. queue[i] \in Requests
  BY DEF LockTypeOK
<1> QED
  BY <1>1 DEF Requests, Read, Request

\* The listener is in the queue when one of its places is.
LEMMA OwnsPlace ==
  ASSUME LockTypeOK
  PROVE  /\ OwnPlaces # {} <=> Owns("read") \/ Owns("own")
         /\ ~(Owns("read") /\ Owns("own"))
<1>1. \A i \in DOMAIN queue : queue[i].kind \in {"write", "own", "read"}
  BY QueueEntry
<1>2. \A i, j \in OwnPlaces : i = j
  BY DEF LockTypeOK
<1> QED
  BY <1>1, <1>2 DEF Owns, OwnPlaces

\* Another task's call, at the end of the queue, leaves the listener's place.
LEMMA AskKeeps ==
  ASSUME LockTypeOK, NEW k \in Keys, NEW u \in Users \cup {None}, Ask("write", k, u)
  PROVE  /\ LockTypeOK' /\ queue' # <<>>
         /\ \A kind \in {"read", "own"} : Owns(kind)' <=> Owns(kind)
<1> DEFINE r == Request("write", k, u)
<1>1. r \in Requests /\ r.kind = "write"
  BY DEF Requests, Request
<1>2. queue \in Seq(Requests) /\ queue' = Append(queue, r)
  BY DEF LockTypeOK, Ask
<1> HIDE DEF r
<1>3. /\ queue' \in Seq(Requests) /\ Len(queue') = Len(queue) + 1
      /\ \A i \in 1..Len(queue) : queue'[i] = queue[i]
      /\ queue'[Len(queue) + 1] = r
  BY <1>1, <1>2, AppendProperties
<1>4. DOMAIN queue = 1..Len(queue) /\ DOMAIN queue' = 1..(Len(queue) + 1) /\ Len(queue) \in Nat
  BY <1>2, <1>3
<1>5. OwnPlaces' = OwnPlaces
  BY <1>1, <1>3, <1>4 DEF OwnPlaces
<1>6. \A kind \in {"read", "own"} : Owns(kind)' <=> Owns(kind)
  BY <1>1, <1>3, <1>4 DEF Owns
<1> QED
  BY <1>3, <1>4, <1>5, <1>6 DEF LockTypeOK, Ask

\* The listener takes its one place in the queue.
LEMMA AskOwn ==
  ASSUME LockTypeOK, NEW r \in Requests, r.kind # "write", OwnPlaces = {},
         queue' = Append(queue, r), UNCHANGED <<watched, guard>>
  PROVE  LockTypeOK' /\ \A kind \in {"read", "own"} : Owns(kind)' <=> kind = r.kind
<1>2. queue \in Seq(Requests)
  BY DEF LockTypeOK
<1>3. /\ queue' \in Seq(Requests) /\ Len(queue') = Len(queue) + 1
      /\ \A i \in 1..Len(queue) : queue'[i] = queue[i]
      /\ queue'[Len(queue) + 1] = r
  BY <1>2, AppendProperties
<1>4. DOMAIN queue = 1..Len(queue) /\ DOMAIN queue' = 1..(Len(queue) + 1) /\ Len(queue) \in Nat
  BY <1>2, <1>3
<1>5. \A i \in 1..Len(queue) : queue[i].kind = "write"
  BY <1>4 DEF OwnPlaces
<1>6. OwnPlaces' = {Len(queue) + 1}
  BY <1>3, <1>4, <1>5 DEF OwnPlaces
<1>7. \A kind \in {"read", "own"} : Owns(kind)' <=> kind = r.kind
  BY <1>3, <1>4, <1>5 DEF Owns
<1> QED
  BY <1>3, <1>6, <1>7 DEF LockTypeOK

\* The first of the queue leaves it.
LEMMA Advance ==
  ASSUME LockTypeOK, queue # <<>>, queue' = Tail(queue)
  PROVE  /\ queue' \in Seq(Requests)
         /\ Head(queue) \in Requests /\ Head(queue) = queue[1] /\ 1 \in DOMAIN queue
         /\ \A i \in DOMAIN queue' : i + 1 \in DOMAIN queue /\ queue'[i] = queue[i + 1]
         /\ \A i \in DOMAIN queue : i # 1 => i - 1 \in DOMAIN queue' /\ queue'[i - 1] = queue[i]
<1>1. queue \in Seq(Requests)
  BY DEF LockTypeOK
<1>2. /\ queue' \in Seq(Requests) /\ Len(queue') = Len(queue) - 1
      /\ \A i \in 1..Len(queue') : queue'[i] = queue[i + 1]
      /\ Head(queue) \in Requests /\ Head(queue) = queue[1]
  BY <1>1, HeadTailProperties
<1>3. DOMAIN queue = 1..Len(queue) /\ DOMAIN queue' = 1..Len(queue') /\ Len(queue) \in Nat \ {0}
  BY <1>1, <1>2, EmptySeq
<1> QED
  BY <1>2, <1>3

\* A writer is served: the registration is written, and only a call of the listener's
\* own callback takes it from the queue.
LEMMA WriteKeeps ==
  ASSUME LockTypeOK, Write
  PROVE  /\ LockTypeOK'
         /\ Head(queue).key \in Keys /\ Head(queue).user \in Users \cup {None}
         /\ Waits("write") => \A kind \in {"read", "own"} : Owns(kind)' <=> Owns(kind)
         /\ Waits("own") => Owns("own") /\ \A kind \in {"read", "own"} : ~Owns(kind)'
<1>1. queue # <<>> /\ queue' = Tail(queue) /\ Head(queue).kind \in {"write", "own"}
  BY DEF Write, Waits
<1>2. Head(queue) = queue[1] /\ 1 \in DOMAIN queue
  BY <1>1, Advance
<1>3. Head(queue).key \in Keys /\ Head(queue).user \in Users \cup {None}
  BY <1>1, <1>2, QueueEntry
<1>4. watched' \in [Keys -> Users \cup {None}] /\ guard' \in BOOLEAN
  BY <1>3 DEF Write, LockTypeOK
<1>5. \A i, j \in OwnPlaces : i = j
  BY DEF LockTypeOK
<1>6. DOMAIN queue \subseteq Nat /\ DOMAIN queue' \subseteq Nat
  <2>1. queue \in Seq(Requests) /\ queue' \in Seq(Requests)
    BY <1>1, Advance DEF LockTypeOK
  <2> QED
    BY <2>1
<1>7. \A i \in OwnPlaces' : i + 1 \in OwnPlaces
  BY <1>1, Advance DEF OwnPlaces
<1>8. \A i, j \in OwnPlaces' : i = j
  <2>1. OwnPlaces' \subseteq Nat
    BY <1>6 DEF OwnPlaces
  <2> QED
    BY <2>1, <1>5, <1>7
<1>9. LockTypeOK'
  BY <1>1, <1>4, <1>8, Advance DEF LockTypeOK
<1>10. ASSUME Waits("write"), NEW kind \in {"read", "own"}
       PROVE  Owns(kind)' <=> Owns(kind)
  <2>1. queue[1].kind = "write"
    BY <1>2, <1>10 DEF Waits
  <2>2. ASSUME Owns(kind)
        PROVE  Owns(kind)'
    <3>1. PICK i \in DOMAIN queue : queue[i].kind = kind
      BY <2>2 DEF Owns
    <3>2. i # 1
      BY <2>1, <3>1
    <3> QED
      BY <1>1, <3>1, <3>2, Advance DEF Owns
  <2>3. ASSUME Owns(kind)'
        PROVE  Owns(kind)
    BY <1>1, <2>3, Advance DEF Owns
  <2> QED
    BY <2>2, <2>3
<1>11. ASSUME Waits("own")
       PROVE  Owns("own") /\ \A kind \in {"read", "own"} : ~Owns(kind)'
  <2>1. queue[1].kind = "own" /\ 1 \in OwnPlaces
    BY <1>2, <1>11 DEF Waits, OwnPlaces
  <2>2. OwnPlaces' = {}
    <3>1. \A i \in OwnPlaces' : i \in Nat /\ i # 0
      <4>1. queue' \in Seq(Requests)
        BY <1>1, Advance
      <4> QED
        BY <4>1 DEF OwnPlaces
    <3> QED
      BY <1>5, <1>7, <2>1, <3>1
  <2> QED
    BY <1>2, <2>1, <2>2, <1>9 DEF Owns, OwnPlaces
<1> QED
  BY <1>3, <1>9, <1>10, <1>11

\* The listener's request to read is served.
LEMMA GrantKeeps ==
  ASSUME LockTypeOK, NEW keeps \in BOOLEAN, Grant(keeps)
  PROVE  /\ LockTypeOK' /\ guard' = keeps /\ UNCHANGED watched /\ Owns("read")
         /\ \A kind \in {"read", "own"} : ~Owns(kind)'
<1>1. queue # <<>> /\ queue' = Tail(queue) /\ Head(queue).kind = "read"
  BY DEF Grant, Waits
<1>2. queue[1].kind = "read" /\ 1 \in OwnPlaces
  BY <1>1, Advance DEF OwnPlaces
<1>3. \A i, j \in OwnPlaces : i = j
  BY DEF LockTypeOK
<1>4. \A i \in OwnPlaces' : i + 1 \in OwnPlaces /\ i \in Nat /\ i # 0
  <2>1. queue' \in Seq(Requests)
    BY <1>1, Advance
  <2> QED
    BY <1>1, <2>1, Advance DEF OwnPlaces
<1>5. OwnPlaces' = {}
  BY <1>2, <1>3, <1>4
<1>6. LockTypeOK' /\ \A kind \in {"read", "own"} : ~Owns(kind)'
  BY <1>1, <1>5, Advance DEF LockTypeOK, Grant, Owns, OwnPlaces
<1>7. Owns("read")
  BY <1>2 DEF Owns, OwnPlaces
<1> QED
  BY <1>6, <1>7 DEF Grant

\* A dropped listener leaves the queue.
LEMMA AbandonKeeps ==
  ASSUME LockTypeOK, Abandon
  PROVE  /\ LockTypeOK' /\ guard' = FALSE /\ UNCHANGED watched
         /\ \A kind \in {"read", "own"} : ~Owns(kind)'
<1>1. /\ queue \in Seq(Requests) /\ DOMAIN queue = 1..Len(queue) /\ Len(queue) \in Nat
      /\ \A i, j \in OwnPlaces : i = j
  BY DEF LockTypeOK
<1>2. CASE OwnPlaces = {}
  BY <1>2 DEF Abandon, LockTypeOK, Owns, OwnPlaces
<1>3. CASE OwnPlaces # {}
  <2>1. PICK p \in OwnPlaces : queue' = RemoveAt(queue, p)
    BY <1>3 DEF Abandon
  <2>2. p \in 1..Len(queue) /\ \A i \in 1..Len(queue) : i # p => queue[i].kind = "write"
    BY <1>1, <2>1 DEF OwnPlaces
  <2> DEFINE before == SubSeq(queue, 1, p - 1)
             after  == SubSeq(queue, p + 1, Len(queue))
  <2>3. /\ before \in Seq(Requests) /\ Len(before) = p - 1
        /\ \A i \in 1..(p - 1) : before[i] = queue[i]
    BY <1>1, <2>2, SubSeqProperties
  <2>4. /\ after \in Seq(Requests) /\ Len(after) = Len(queue) - p
        /\ \A i \in 1..(Len(queue) - p) : after[i] = queue[p + i]
    <3>1. \A i \in (p + 1)..Len(queue) : queue[i] \in Requests
      BY <1>1, <2>2
    <3>2. p + 1 \in 1..Len(queue) + 1 /\ Len(queue) \in p..Len(queue)
      BY <1>1, <2>2
    <3> QED
      BY <1>1, <2>2, <3>1, <3>2, SubSeqProperties
  <2>5. queue' = before \o after
    BY <2>1 DEF RemoveAt
  <2> HIDE DEF before, after
  <2>6. /\ queue' \in Seq(Requests) /\ Len(queue') = Len(before) + Len(after)
        /\ \A i \in 1..(Len(before) + Len(after)) :
             queue'[i] = IF i <= Len(before) THEN before[i] ELSE after[i - Len(before)]
    BY <2>3, <2>4, <2>5, ConcatProperties
  <2>7. \A i \in DOMAIN queue' : queue'[i].kind = "write"
    <3>1. SUFFICES ASSUME NEW i \in 1..(Len(queue) - 1)
                   PROVE  queue'[i].kind = "write"
      BY <1>1, <2>2, <2>3, <2>4, <2>6
    <3>2. CASE i <= p - 1
      <4>0. i \in 1..(Len(before) + Len(after)) /\ i <= Len(before) /\ i \in 1..(p - 1)
        BY <1>1, <2>2, <2>3, <2>4, <3>2
      <4>1. queue'[i] = before[i] /\ before[i] = queue[i]
        BY <2>3, <2>6, <4>0
      <4>2. i \in 1..Len(queue) /\ i # p
        BY <1>1, <2>2, <3>2
      <4> QED
        BY <2>2, <4>1, <4>2
    <3>3. CASE p - 1 < i
      <4>1. queue'[i] = after[i - (p - 1)] /\ i - (p - 1) \in 1..(Len(queue) - p)
        BY <1>1, <2>2, <2>3, <2>4, <2>6, <3>3
      <4>2. queue'[i] = queue[i + 1] /\ i + 1 \in 1..Len(queue) /\ i + 1 # p
        BY <1>1, <2>2, <2>4, <3>3, <4>1
      <4> QED
        BY <2>2, <4>2
    <3> QED
      BY <1>1, <2>2, <3>2, <3>3
  <2> QED
    BY <2>6, <2>7 DEF Abandon, LockTypeOK, Owns, OwnPlaces
<1> QED
  BY <1>2, <1>3

\* After a crash nobody is in the queue.
LEMMA ForgetKeeps ==
  ASSUME Forget
  PROVE  /\ LockTypeOK' /\ guard' = FALSE
         /\ \A kind \in {"read", "own"} : ~Owns(kind)'
<1>1. queue' = <<>> /\ queue' \in Seq(Requests)
  BY EmptySeq DEF Forget
<1>2. DOMAIN queue' = {}
  BY <1>1
<1> QED
  BY <1>1, <1>2 DEF Forget, LockTypeOK, Owns, OwnPlaces
=============================================================================
