--------------------------- MODULE ZcashListener ---------------------------
(***************************************************************************)
(* The Zcash deposit listener, src/src/listener/zcash.rs: a loop that asks *)
(* a node for its height, reads every new block, reads every transaction   *)
(* of it by id and hands each output to a watched address to the callback. *)
(*                                                                         *)
(* The node is the environment: it mines and reorganises.  An RPC either   *)
(* answers from the node's chain of that moment or fails; a request that   *)
(* fails after the answer was computed is the same as one that fails       *)
(* before.  `run` holds `&mut self`, so the application can only `watch`   *)
(* while no run is in progress; to watch a new address it drops the future *)
(* of `run` (Cancel), which it can do at any await.                        *)
(***************************************************************************)
EXTENDS Integers, Sequences, FiniteSets, SequencesExt

CONSTANTS
  Txs,        \* transaction ids
  Addresses,  \* transparent addresses a transaction can pay
  Users,      \* user ids
  Pays,       \* Pays[t]: the addresses of t's outputs, in the order of vout
  MinConfirmations, \* config.min_confirmations, which no action reads
  MaxHeight,  \* bound: blocks on the node's chain
  MaxWatches, \* bound: calls of watch in one process
  MaxFaults,  \* bound: failed RPCs
  MaxStops    \* bound: dropped runs and process restarts

ASSUME PaysAssumption == Pays \in [Txs -> Seq(Addresses)]
ASSUME BoundsAssumption ==
  /\ MinConfirmations \in Nat
  /\ MaxHeight \in Nat /\ MaxWatches \in Nat
  /\ MaxFaults \in Nat /\ MaxStops \in Nat

VARIABLES
  chain,       \* the node's best chain: blocks by height, each a Seq(Txs)
  watched,     \* self.watched: Seq of [address, user_id]
  processed,   \* self.processed: the keys of the map
  last_height, \* self.last_height
  pc,          \* where `run` is suspended, "idle" when no run is in progress
  current_height, height, block, next, pos,   \* locals of poll and check_transaction
  faults, stops,
  \* history, read by no action:
  offered,     \* offered[<<t, i>>]: calls of on_deposit for output i of t
  credited,    \* the <<address, user>> pairs this process called on_deposit with
  forgotten,   \* forgotten[t]: times the listener lost what it knew of t
  excused      \* transactions the listener may pass over, see NothingElsePassedOver

listener == <<watched, processed, last_height>>
scan     == <<current_height, height>>
place    == <<block, next, pos>>
locals   == <<scan, place>>
budgets  == <<faults, stops>>
history  == <<offered, credited, forgotten, excused>>
vars     == <<chain, listener, pc, locals, budgets, history>>

Outputs == UNION {{t} \X DOMAIN Pays[t] : t \in Txs}
Blocks  == {b \in BoundedSeq(Txs, Cardinality(Txs)) : IsInjective(b)}
TxsOf(blocks) == UNION {ToSet(blocks[h]) : h \in DOMAIN blocks}

\* A transaction is mined once on a chain.
IsChain(blocks) ==
  \A g, h \in DOMAIN blocks : g # h => ToSet(blocks[g]) \cap ToSet(blocks[h]) = {}

IsWatched(a) == \E i \in DOMAIN watched : watched[i].address = a

\* Mutant: the entry added last, as a map would keep it.
OwnerLast(a) ==
  watched[SelectLastInSeq(watched, LAMBDA w : w.address = a)].user_id

\* watched.iter().find(..): the entry of the list w added first.
First(w, a) == SelectInSeq(w, LAMBDA x : x.address = a)
Owner(a)    == watched[First(watched, a)].user_id

\* The locals of poll outlive neither poll nor a dropped run.
NoBlock == block' = <<>> /\ next' = 1 /\ pos' = 1
NoPoll  == current_height' = 0 /\ height' = 0 /\ NoBlock

Polling == pc \in {"count", "block", "tx", "credit"}
Current == block[next]

\* The highest block whose transactions this run has been told of.
Reached == CASE pc = "block"            -> height - 1
             [] pc \in {"tx", "credit"} -> height
             [] OTHER                   -> last_height

Init ==
  /\ chain = <<>>
  /\ watched = <<>> /\ processed = {} /\ last_height = 0
  /\ pc = "idle"
  /\ current_height = 0 /\ height = 0 /\ block = <<>> /\ next = 1 /\ pos = 1
  /\ faults = 0 /\ stops = 0
  /\ offered = [o \in Outputs |-> 0]
  /\ credited = {}
  /\ forgotten = [t \in Txs |-> 0]
  /\ excused = {}

-----------------------------------------------------------------------------
(* The node *)

Mine == \E b \in Blocks :
  /\ Len(chain) < MaxHeight
  /\ IsChain(Append(chain, b))
  /\ chain' = Append(chain, b)
  /\ UNCHANGED <<listener, pc, locals, budgets, history>>

\* The last `depth` blocks give way to a longer branch.  What the branch holds
\* at heights the listener has read already is out of its sight.
Reorg == Len(chain) < MaxHeight /\ \E depth \in 1..Len(chain) :
  LET fork == Len(chain) - depth IN
  \E branch \in [1..depth + 1 -> Blocks] :
    /\ IsChain(SubSeq(chain, 1, fork) \o branch)
    /\ chain' = SubSeq(chain, 1, fork) \o branch
    /\ excused' = excused \cup
         UNION {ToSet(branch[i]) : i \in {j \in DOMAIN branch : fork + j <= Reached}}
    /\ UNCHANGED <<listener, pc, locals, budgets, offered, credited, forgotten>>

-----------------------------------------------------------------------------
(* The application *)

\* A transaction dealt with before its address was watched is not looked at again.
Watch == \E a \in Addresses, u \in Users :
  /\ pc = "idle"
  /\ Len(watched) < MaxWatches
  /\ watched' = Append(watched, [address |-> a, user_id |-> u])
  /\ excused' = excused \cup {t \in processed : a \in ToSet(Pays[t])}
  /\ UNCHANGED <<chain, processed, last_height, pc, locals, budgets, offered, credited, forgotten>>

\* With nothing to watch `run` returns at once.
Run ==
  /\ pc = "idle"
  /\ watched # <<>>
  /\ pc' = "start"
  /\ UNCHANGED <<chain, listener, locals, budgets, history>>

\* The future of `run` is dropped at an await; the listener stays.
Cancel ==
  /\ pc # "idle"
  /\ stops < MaxStops
  /\ stops' = stops + 1
  /\ pc' = "idle"
  /\ forgotten' = [t \in Txs |->
       forgotten[t] + IF pc = "credit" /\ t = Current THEN 1 ELSE 0]
  /\ NoPoll
  /\ UNCHANGED <<chain, listener, faults, offered, credited, excused>>

\* The process dies; nothing of the listener is on disk.
Restart ==
  /\ stops < MaxStops
  /\ stops' = stops + 1
  /\ watched' = <<>> /\ processed' = {} /\ last_height' = 0
  /\ pc' = "idle"
  /\ credited' = {}
  /\ forgotten' = [t \in Txs |->
       forgotten[t] + IF t \in processed \/ (pc = "credit" /\ t = Current) THEN 1 ELSE 0]
  /\ NoPoll
  /\ UNCHANGED <<chain, faults, offered, excused>>

-----------------------------------------------------------------------------
(* run and poll *)

\* Every run starts from the node's height: the blocks up to it are never read.
RunStart ==
  /\ pc = "start"
  /\ last_height' = Len(chain)
  /\ pc' = "count"
  /\ excused' = excused \cup TxsOf(chain)
  /\ UNCHANGED <<chain, watched, processed, locals, budgets, offered, credited, forgotten>>

\* Mutant: the newest block is left for later.
PollCountLate ==
  /\ pc = "count"
  /\ Len(chain) > last_height + 1
  /\ current_height' = Len(chain) - 1
  /\ height' = last_height + 1
  /\ pc' = "block"
  /\ UNCHANGED <<chain, listener, place, budgets, history>>

\* With no new block poll returns, run sleeps and asks again: no step here.
PollCount ==
  /\ pc = "count"
  /\ Len(chain) > last_height
  /\ current_height' = Len(chain)
  /\ height' = last_height + 1
  /\ pc' = "block"
  /\ UNCHANGED <<chain, listener, place, budgets, history>>

\* The block's hash fixes its content, and a node serves a block that has left
\* its best chain, so asking for the hash and then for the block is one step.
PollBlock ==
  /\ pc = "block"
  /\ height <= Len(chain)
  /\ block' = chain[height]
  /\ pc' = "tx"
  /\ UNCHANGED <<chain, listener, scan, next, pos, budgets, history>>

SkipProcessed ==
  /\ pc = "tx" /\ next <= Len(block)
  /\ Current \in processed
  /\ next' = next + 1
  /\ UNCHANGED <<chain, listener, scan, block, pos, pc, budgets, history>>

\* Mutant: the transactions already processed are not looked up.
FetchTxAgain ==
  /\ pc = "tx" /\ next <= Len(block)
  /\ pc' = "credit"
  /\ UNCHANGED <<chain, listener, locals, budgets, history>>

FetchTx ==
  /\ pc = "tx" /\ next <= Len(block)
  /\ Current \notin processed
  /\ pc' = "credit"
  /\ UNCHANGED <<chain, listener, locals, budgets, history>>

\* check_transaction, an output to a watched address: the callback is called,
\* and what it answers is only logged.
Offer ==
  /\ pc = "credit" /\ pos <= Len(Pays[Current])
  /\ LET a == Pays[Current][pos] IN
       /\ IsWatched(a)
       /\ offered' = [offered EXCEPT ![<<Current, pos>>] = @ + 1]
       /\ credited' = credited \cup {<<a, Owner(a)>>}
  /\ pos' = pos + 1
  /\ UNCHANGED <<chain, listener, scan, block, next, pc, budgets, forgotten, excused>>

PassOutput ==
  /\ pc = "credit" /\ pos <= Len(Pays[Current])
  /\ ~IsWatched(Pays[Current][pos])
  /\ pos' = pos + 1
  /\ UNCHANGED <<chain, listener, scan, block, next, pc, budgets, history>>

\* Mutant: the transaction is not remembered.
MarkNothing ==
  /\ pc = "credit" /\ pos > Len(Pays[Current])
  /\ next' = next + 1 /\ pos' = 1
  /\ pc' = "tx"
  /\ UNCHANGED <<chain, listener, scan, block, budgets, history>>

MarkProcessed ==
  /\ pc = "credit" /\ pos > Len(Pays[Current])
  /\ processed' = processed \cup {Current}
  /\ next' = next + 1 /\ pos' = 1
  /\ pc' = "tx"
  /\ UNCHANGED <<chain, watched, last_height, scan, block, budgets, history>>

\* Mutant: the loop over heights runs once too often.
NextHeightOneMore ==
  /\ pc = "tx" /\ next > Len(block)
  /\ height <= current_height
  /\ pc' = "block"
  /\ height' = height + 1 /\ NoBlock
  /\ UNCHANGED <<chain, listener, current_height, budgets, history>>

NextHeight ==
  /\ pc = "tx" /\ next > Len(block)
  /\ height < current_height
  /\ pc' = "block"
  /\ height' = height + 1 /\ NoBlock
  /\ UNCHANGED <<chain, listener, current_height, budgets, history>>

FinishPoll ==
  /\ pc = "tx" /\ next > Len(block)
  /\ height >= current_height
  /\ last_height' = current_height
  /\ pc' = "count"
  /\ NoPoll
  /\ UNCHANGED <<chain, watched, processed, budgets, history>>

\* getblockcount fails: at the start run returns the error.
StartError ==
  /\ pc = "start"
  /\ faults < MaxFaults
  /\ faults' = faults + 1
  /\ pc' = "idle"
  /\ UNCHANGED <<chain, listener, locals, stops, history>>

\* Mutant: a failed poll counts as done.
PollErrorAdvances ==
  /\ pc = "block"
  /\ faults < MaxFaults
  /\ faults' = faults + 1
  /\ pc' = "count"
  /\ last_height' = current_height
  /\ NoPoll
  /\ UNCHANGED <<chain, watched, processed, stops, history>>

\* getblockhash or getblock fails: poll returns the error, run logs it and
\* polls again from last_height.  (A failed getblockcount is no step.)
PollError ==
  /\ pc = "block"
  /\ faults < MaxFaults
  /\ faults' = faults + 1
  /\ pc' = "count"
  /\ NoPoll
  /\ UNCHANGED <<chain, listener, stops, history>>

\* getrawtransaction fails: the transaction is left out without a word.
TxError ==
  /\ pc = "tx" /\ next <= Len(block)
  /\ Current \notin processed
  /\ faults < MaxFaults
  /\ faults' = faults + 1
  /\ next' = next + 1
  /\ excused' = excused \cup {Current}
  /\ UNCHANGED <<chain, listener, scan, block, pos, pc, stops, offered, credited, forgotten>>

Poll == PollCount \/ PollBlock \/ SkipProcessed \/ FetchTx \/ Offer \/ PassOutput
          \/ MarkProcessed \/ NextHeight \/ FinishPoll \/ PollError \/ TxError

Next == Mine \/ Reorg \/ Watch \/ Run \/ Cancel \/ Restart
          \/ RunStart \/ StartError \/ Poll

Spec == Init /\ [][Next]_vars

\* The node answers every request in the end, the callback returns, and the
\* runtime keeps polling the future of `run`.
FairSpec == Spec /\ WF_vars(RunStart) /\ WF_vars(Poll)

-----------------------------------------------------------------------------
(* Properties *)

\* Types, and the place of the locals of poll with respect to the chain.
TypeOK ==
  /\ chain \in Seq(Seq(Txs))
  /\ watched \in Seq([address : Addresses, user_id : Users])
  /\ processed \in SUBSET Txs
  /\ last_height \in 0..Len(chain)
  /\ pc \in {"idle", "start", "count", "block", "tx", "credit"}
  /\ current_height \in Nat /\ height \in Nat /\ block \in Seq(Txs)
  /\ pc \in {"block", "tx", "credit"} =>
       /\ last_height < height
       /\ height <= current_height
       /\ current_height <= Len(chain)
  /\ next \in 1..Len(block) + 1
  /\ pos \in Nat \ {0}
  /\ pc \notin {"tx", "credit"} => next = 1
  /\ pc # "credit" => pos = 1
  /\ pc = "credit" => next <= Len(block) /\ pos <= Len(Pays[Current]) + 1
  /\ faults \in Nat /\ stops \in Nat
  /\ offered \in [Outputs -> Nat]
  /\ credited \in SUBSET (Addresses \X Users)
  /\ forgotten \in [Txs -> Nat]
  /\ excused \in SUBSET Txs

\* An output reaches the callback again only if the listener was stopped since
\* and lost what it knew of the transaction: polls repeated after an error,
\* reorganisations and new runs of one listener never credit it twice
\* ("Track processed tx hashes to avoid duplicates").
DuplicateOnlyAfterInterruption ==
  \A o \in Outputs : offered[o] <= 1 + forgotten[o[1]]

\* Once last_height covers a block, every output in it to a watched address has
\* reached the callback, or its transaction is excused: it was on the chain when
\* a run started, came in by a reorganisation below the height already read, its
\* getrawtransaction failed, or it was processed before the address was watched.
NothingElsePassedOver ==
  Polling => \A h \in 1..last_height : \A t \in ToSet(chain[h]) :
    \/ t \in excused
    \/ \A i \in DOMAIN Pays[t] : IsWatched(Pays[t][i]) => offered[<<t, i>>] >= 1

\* Between restarts an address has one owner: its deposits never go to a
\* second user, whatever is watched later.
OneOwnerPerAddress ==
  \A p, q \in credited : p[1] = q[1] => p[2] = q[2]

\* What the configuration says of min_confirmations, "Minimum confirmations
\* before crediting": a call of the callback finds the block that deep.
ConfirmedBeforeCredit ==
  [][offered' # offered => Len(chain) - height + 1 >= MinConfirmations]_vars

\* The listener still knows that it has dealt with output i of t.
Remembers(t, i) == t \in processed \/ (pc = "credit" /\ t = Current /\ i < pos)

Ledger == INSTANCE DepositLedger WITH
  Deposits   <- Outputs,
  AddressOf  <- [o \in Outputs |-> Pays[o[1]][o[2]]],
  registered <- {<<watched[i].address, watched[i].user_id>> : i \in DOMAIN watched},
  remembered <- {o \in Outputs : Remembers(o[1], o[2])},
  losses     <- [o \in Outputs |-> forgotten[o[1]]]

\* The listener keeps the ledger of DepositLedger: each step offers one output at
\* most, one it does not remember, while its address is watched, and it forgets what
\* it was offering when it is dropped and everything when its process dies.
KeepsLedger == Ledger!Spec

\* While the listener keeps polling, a transaction that stays on the chain is
\* processed or excused in the end, whatever fails in between.
EveryPaymentSettles ==
  \A t \in Txs :
    (Polling /\ t \in TxsOf(chain))
      ~> (t \in processed \cup excused \/ t \notin TxsOf(chain) \/ ~Polling)
=============================================================================
