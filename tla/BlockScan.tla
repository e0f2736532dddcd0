------------------------------ MODULE BlockScan ------------------------------
(***************************************************************************)
(* The three listeners that scan a chain in the order of its blocks and    *)
(* hand every transfer they find to a callback at once:                    *)
(*   "token"    PegListenerService, one event query per token and round,   *)
(*   "bitcoin"  BtcService, one block per round,                           *)
(*   "tron"     Trc20Service, one block per round with a block cache.      *)
(* They differ in how a round goes and agree in what surrounds it: the     *)
(* syncBlock column, one timer, callbacks nobody awaits, and a unique log  *)
(* id per stored transfer.  A behaviour is one of the three at work.       *)
(***************************************************************************)
EXTENDS Integers, FiniteSetsExt

CONSTANTS
    Tokens,       \* token rows of the network
    Transfers,    \* transfers
    OnChain,      \* those on the chain of each kind of listener
    LogIds,       \* values of the unique logId column
    TokenOf,      \* the token moved by a transfer
    BlockOf,      \* its block
    LogIdOf,      \* the log id each listener gives it, by kind of listener
    EmptyBlocks,  \* blocks that may hold no transaction on the TRON chain
    FirstBlock,   \* syncBlock the token rows were created with
    MinBlockDiff, \* blocks the token listener waits for (20 in the code)
    MaxBlock,     \* lag beyond which it queries a part only (500)
    Batch,        \* blocks of that part (100)
    MaxHeight,    \* bound: height of the chain
    MaxJobs,      \* bound: callbacks of one transfer in flight
    MaxWrites,    \* bound: syncBlock updates in flight
    MaxFaults,    \* bound: failing awaits and process restarts
    NoToken

Kinds == {"token", "bitcoin", "tron"}

ASSUME TransferAssumption == /\ TokenOf \in [Transfers -> Tokens]
                             /\ BlockOf \in [Transfers -> Nat]
                             /\ LogIdOf \in [Kinds -> [Transfers -> LogIds]]
                             /\ OnChain \in [Kinds -> SUBSET Transfers]
                             /\ \A t \in Transfers : BlockOf[t] \notin EmptyBlocks
ASSUME BlockAssumption == /\ FirstBlock \in Nat /\ MaxHeight \in Nat
                          /\ FirstBlock <= MaxHeight
                          /\ MinBlockDiff \in Nat \ {0}
                          /\ MaxBlock \in Nat
                          /\ Batch \in Nat /\ Batch <= MaxBlock
ASSUME BoundAssumption == /\ MaxJobs \in Nat /\ MaxWrites \in Nat
                          /\ MaxFaults \in Nat
ASSUME NoTokenAssumption == NoToken \notin Tokens

VARIABLES
    kind,      \* which listener it is
    height,    \* the chain's latest block
    open,      \* transfers whose address has a pending request
    empty,     \* blocks the TRON node gives without a list of transactions
    sync,      \* syncBlock of each token
    pc,        \* where the round is; "timer" between rounds
    base,      \* the sync blocks the round has read
    seen,      \* the latest block number it has read (tron: kept between rounds)
    todo,      \* tokens the loop of the token listener has not reached
    at,        \* the token a round works on
    cached,    \* numbers of the blocks in blockCache (tron)
    writes,    \* syncBlock updates sent and not yet executed (not "token")
    handed,    \* transfers a callback was started for
    jobs,      \* callbacks of each transfer, by what they do next
    rows,      \* log ids in the transaction table
    applied,   \* calls of updatePaymentStatus for each log id
    faults     \* faults so far

chainVars == <<kind, height, open, empty>>
bookVars  == <<rows, applied>>
vars == <<chainVars, sync, pc, base, seen, todo, at, cached, writes, handed,
          jobs, bookVars, faults>>

JobSteps == {"check", "create", "apply"}
NoJobs == [t \in Transfers |-> [s \in JobSteps |-> 0]]
NoBase == [k \in Tokens |-> 0]
NoWrites == [b \in 0 .. MaxHeight |-> 0]
LogId(t) == LogIdOf[kind][t]

Init ==
    /\ kind \in Kinds
    /\ height = FirstBlock
    /\ open = OnChain[kind]
    /\ empty \in SUBSET EmptyBlocks /\ (kind # "tron" => empty = {})
    /\ sync = [k \in Tokens |-> FirstBlock]
    /\ pc = "timer"
    /\ base = NoBase
    /\ seen = 0
    /\ todo = {}
    /\ at = NoToken
    /\ cached = {}
    /\ writes = NoWrites
    /\ handed = {}
    /\ jobs = NoJobs
    /\ rows = {}
    /\ applied = [l \in LogIds |-> 0]
    /\ faults = 0

\* A round ends, and its locals are gone.
EndRound(next) ==
    /\ pc' = next
    /\ base' = NoBase
    /\ todo' = {}
    /\ at' = NoToken
    /\ seen' = IF kind = "tron" THEN seen ELSE 0

-----------------------------------------------------------------------------
(* Slips that the properties below must catch.                             *)

\* the query goes one block past the latest
SlipPastTheTip ==
    IF seen - base[at] > MaxBlock THEN base[at] + Batch ELSE seen + 1

\* the block of syncBlock itself is fetched, and saved, again
SlipSyncedBlock == base[at]

\* the loop goes on to save the sync block of a range it could not query
SlipSaveAnyway ==
    /\ kind = "token" /\ pc = "query"
    /\ faults < MaxFaults
    /\ faults' = faults + 1
    /\ pc' = "save"
    /\ UNCHANGED <<chainVars, sync, base, seen, todo, at, cached, writes,
                   handed, jobs, bookVars>>

\* the finally block is dropped, so a failed round is the last one
SlipNoFinally ==
    /\ kind = "bitcoin" /\ pc # "timer"
    /\ faults < MaxFaults
    /\ faults' = faults + 1
    /\ EndRound("stopped")
    /\ UNCHANGED <<chainVars, sync, cached, writes, handed, jobs, bookVars>>

\* the log id column is not unique
SlipNotUnique(t) == FALSE

-----------------------------------------------------------------------------
(* The chain, and the requests: one stops being pending when it expires or *)
(* another transfer finishes it.                                           *)

Mine ==
    /\ height < MaxHeight
    /\ height' = height + 1
    /\ UNCHANGED <<kind, open, empty, sync, pc, base, seen, todo, at, cached,
                   writes, handed, jobs, bookVars, faults>>

Settle(t) ==
    /\ t \in open
    /\ open' = open \ {t}
    /\ UNCHANGED <<kind, height, empty, sync, pc, base, seen, todo, at,
                   cached, writes, handed, jobs, bookVars, faults>>

-----------------------------------------------------------------------------
(* The process ends, and with it its memory; of the syncBlock updates it   *)
(* has sent, the database may still execute any.                           *)

LoseMemory ==
    /\ pc' = "timer" /\ base' = NoBase /\ todo' = {} /\ at' = NoToken
    /\ seen' = 0
    /\ cached' = {}
    /\ \E kept \in [{b \in DOMAIN writes : writes[b] > 0} -> 0 .. MaxWrites] :
          /\ \A b \in DOMAIN kept : kept[b] <= writes[b]
          /\ writes' = [b \in DOMAIN writes |->
                          IF b \in DOMAIN kept THEN kept[b] ELSE 0]
    /\ jobs' = NoJobs
    /\ UNCHANGED <<chainVars, sync, handed, bookVars>>

-----------------------------------------------------------------------------
(* A callback is started for each transfer a query or a block returned.    *)

HandOver(S) ==
    /\ \A t \in S : jobs[t]["check"] < MaxJobs
    /\ handed' = handed \cup S
    /\ jobs' = [t \in Transfers |->
                  IF t \in S THEN [jobs[t] EXCEPT !["check"] = @ + 1]
                             ELSE jobs[t]]

-----------------------------------------------------------------------------
(* PegListenerService.runSync.                                             *)

FindTokens ==
    /\ kind = "token" /\ pc = "timer"
    /\ base' = sync
    /\ pc' = "height"
    /\ UNCHANGED <<chainVars, sync, seen, todo, at, cached, writes, handed,
                   jobs, bookVars, faults>>

GetBlockNumber ==
    /\ kind = "token" /\ pc = "height"
    /\ seen' = height
    /\ todo' = Tokens
    /\ pc' = "loop"
    /\ UNCHANGED <<chainVars, sync, base, at, cached, writes, handed, jobs,
                   bookVars, faults>>

\* The loop takes the next token and passes over one that is nearly up to date.
NextToken(k) ==
    /\ kind = "token" /\ pc = "loop"
    /\ k \in todo
    /\ todo' = todo \ {k}
    /\ IF seen - base[k] < MinBlockDiff
       THEN UNCHANGED <<pc, at>>
       ELSE pc' = "query" /\ at' = k
    /\ UNCHANGED <<chainVars, sync, base, seen, cached, writes, handed, jobs,
                   bookVars, faults>>

LastTokenBlock ==
    IF seen - base[at] > MaxBlock THEN base[at] + Batch ELSE seen

\* The range starts with the last block of the range before, again.
GetPastEvents ==
    /\ kind = "token" /\ pc = "query"
    /\ HandOver({t \in OnChain[kind] :
                   TokenOf[t] = at /\ BlockOf[t] \in base[at] .. LastTokenBlock})
    /\ pc' = "save"
    /\ UNCHANGED <<chainVars, sync, base, seen, todo, at, cached, writes,
                   bookVars, faults>>

UpdateTokenSync ==
    /\ kind = "token" /\ pc = "save"
    /\ sync' = [sync EXCEPT ![at] = LastTokenBlock]
    /\ pc' = "loop"
    /\ UNCHANGED <<chainVars, base, seen, todo, at, cached, writes, handed,
                   jobs, bookVars, faults>>

EndLoop ==
    /\ kind = "token" /\ pc = "loop"
    /\ todo = {}
    /\ EndRound("timer")
    /\ UNCHANGED <<chainVars, sync, cached, writes, handed, jobs, bookVars,
                   faults>>

\* Without the block number the round is tried again later.
GetBlockNumberFails ==
    /\ kind = "token" /\ pc = "height"
    /\ faults < MaxFaults
    /\ faults' = faults + 1
    /\ EndRound("timer")
    /\ UNCHANGED <<chainVars, sync, cached, writes, handed, jobs, bookVars>>

\* A failure inside the loop returns without setting the timer again.
TokenLoopFails ==
    /\ kind = "token" /\ pc \in {"query", "save"}
    /\ faults < MaxFaults
    /\ faults' = faults + 1
    /\ EndRound("stopped")
    /\ UNCHANGED <<chainVars, sync, cached, writes, handed, jobs, bookVars>>

-----------------------------------------------------------------------------
(* BtcService.runSync: the finally block sets the timer however it ends.   *)

GetLatestBlock ==
    /\ kind = "bitcoin" /\ pc = "timer"
    /\ seen' = height
    /\ pc' = "height"
    /\ UNCHANGED <<chainVars, sync, base, todo, at, cached, writes, handed,
                   jobs, bookVars, faults>>

\* The block after syncBlock is fetched once a later one exists.
FindToken ==
    /\ kind = "bitcoin" /\ pc = "height"
    /\ \E k \in Tokens :
          IF seen <= sync[k] + 1
          THEN EndRound("timer")
          ELSE pc' = "block" /\ at' = k /\ base' = sync
                             /\ UNCHANGED <<seen, todo>>
    /\ UNCHANGED <<chainVars, sync, cached, writes, handed, jobs, bookVars,
                   faults>>

RoundFails ==
    /\ kind = "bitcoin" /\ pc # "timer"
    /\ faults < MaxFaults
    /\ faults' = faults + 1
    /\ EndRound("timer")
    /\ UNCHANGED <<chainVars, sync, cached, writes, handed, jobs, bookVars>>

-----------------------------------------------------------------------------
(* Trc20Service.runSync: seen is latestBlkNumber, kept between rounds.     *)

FindTronTokens ==
    /\ kind = "tron" /\ pc = "timer"
    /\ base' = sync
    /\ \E k \in Tokens :
          /\ at' = k
          /\ pc' = IF seen = 0 \/ sync[k] >= seen THEN "height" ELSE "block"
    /\ UNCHANGED <<chainVars, sync, seen, todo, cached, writes, handed, jobs,
                   bookVars, faults>>

GetCurrentBlock ==
    /\ kind = "tron" /\ pc = "height"
    /\ seen' = height
    /\ cached' = cached \cup {height}
    /\ pc' = "timer" /\ base' = NoBase /\ at' = NoToken
    /\ UNCHANGED <<chainVars, sync, todo, writes, handed, jobs, bookVars,
                   faults>>

-----------------------------------------------------------------------------
(* BtcService and Trc20Service: a block, from the network or from the      *)
(* cache, is handed over and the update of syncBlock sent, not awaited.  A *)
(* cached block is deleted, but a duplicate or a stale node may keep it.   *)

NextBlock == base[at] + 1

FetchBlock ==
    /\ pc = "block" /\ NextBlock \notin empty
    /\ MapThenSumSet(LAMBDA b : writes[b], DOMAIN writes) < MaxWrites
    /\ HandOver({t \in OnChain[kind] : BlockOf[t] = NextBlock})
    /\ writes' = [writes EXCEPT ![NextBlock] = @ + 1]
    /\ cached' \in {cached, cached \ {NextBlock}}
    /\ EndRound("timer")
    /\ UNCHANGED <<chainVars, sync, bookVars, faults>>

\* The TRON listener throws where it expects the transactions of the block,
\* before it sends the update: the process ends, and will end there again.
FetchEmptyBlock ==
    /\ pc = "block" /\ NextBlock \in empty
    /\ LoseMemory
    /\ UNCHANGED faults

\* The update of syncBlock, which names the network, reaches the database.
UpdateTokenSyncByNetwork(b) ==
    /\ writes[b] > 0
    /\ writes' = [writes EXCEPT ![b] = @ - 1]
    /\ sync' = [k \in Tokens |-> b]
    /\ UNCHANGED <<chainVars, pc, base, seen, todo, at, cached, handed, jobs,
                   bookVars, faults>>

-----------------------------------------------------------------------------
(* The callbacks.                                                          *)

CheckAddress(t) ==
    /\ jobs[t]["check"] > 0
    /\ jobs' = [jobs EXCEPT ![t]["check"] = @ - 1,
                            ![t]["create"] = IF t \in open THEN @ + 1 ELSE @]
    /\ UNCHANGED <<chainVars, sync, pc, base, seen, todo, at, cached, writes,
                   handed, bookVars, faults>>

\* The unique logId column refuses a transfer that is stored already.
DuplicateLogId(t) == LogId(t) \in rows

CreateTransaction(t) ==
    /\ jobs[t]["create"] > 0
    /\ IF DuplicateLogId(t)
       THEN /\ jobs' = [jobs EXCEPT ![t]["create"] = @ - 1]
            /\ UNCHANGED rows
       ELSE /\ jobs' = [jobs EXCEPT ![t]["create"] = @ - 1,
                                    ![t]["apply"] = @ + 1]
            /\ rows' = rows \cup {LogId(t)}
    /\ UNCHANGED <<chainVars, sync, pc, base, seen, todo, at, cached, writes,
                   handed, applied, faults>>

UpdatePaymentStatus(t) ==
    /\ jobs[t]["apply"] > 0
    /\ jobs' = [jobs EXCEPT ![t]["apply"] = @ - 1]
    /\ applied' = [applied EXCEPT ![LogId(t)] = @ + 1]
    /\ UNCHANGED <<chainVars, sync, pc, base, seen, todo, at, cached, writes,
                   handed, rows, faults>>

\* The callback catches an insert that fails and gives the transfer up.
CreateFails(t) ==
    /\ jobs[t]["create"] > 0
    /\ faults < MaxFaults
    /\ faults' = faults + 1
    /\ jobs' = [jobs EXCEPT ![t]["create"] = @ - 1]
    /\ UNCHANGED <<chainVars, sync, pc, base, seen, todo, at, cached, writes,
                   handed, bookVars>>

-----------------------------------------------------------------------------
(* A restart, or a rejection nobody handles (any other await of a round, a *)
(* callback's checkAddress, an update of syncBlock), ends the process.     *)

Restart ==
    /\ faults < MaxFaults
    /\ faults' = faults + 1
    /\ LoseMemory

-----------------------------------------------------------------------------
TokenStep ==
    \/ FindTokens
    \/ GetBlockNumber
    \/ \E k \in Tokens : NextToken(k)
    \/ GetPastEvents
    \/ UpdateTokenSync
    \/ EndLoop

BlockStep ==
    \/ GetLatestBlock
    \/ FindToken
    \/ FindTronTokens
    \/ GetCurrentBlock
    \/ FetchBlock
    \/ FetchEmptyBlock

JobStep(t) ==
    \/ CheckAddress(t)
    \/ CreateTransaction(t)
    \/ UpdatePaymentStatus(t)

RoundFault == GetBlockNumberFails \/ TokenLoopFails \/ RoundFails

Next ==
    \/ Mine
    \/ TokenStep
    \/ BlockStep
    \/ RoundFault
    \/ \E b \in 0 .. MaxHeight : UpdateTokenSyncByNetwork(b)
    \/ \E t \in Transfers : Settle(t) \/ JobStep(t) \/ CreateFails(t)
    \/ Restart

Spec == Init /\ [][Next]_vars

\* The chain grows, a timer that is set fires, and every await is answered but
\* the one of updatePaymentStatus for the merchant's server.
Fairness ==
    /\ WF_vars(Mine)
    /\ WF_vars(TokenStep \/ BlockStep)
    /\ \A b \in 0 .. MaxHeight : WF_vars(UpdateTokenSyncByNetwork(b))
    /\ \A t \in Transfers : /\ WF_vars(CheckAddress(t))
                            /\ WF_vars(CreateTransaction(t))

FairSpec == Spec /\ Fairness

-----------------------------------------------------------------------------
(* Properties.                                                             *)

RoundStages == {"timer", "height", "loop", "query", "save", "block",
                "stopped"}

\* The rows, the listener's fields and its callbacks have their types.
TypeOK ==
    /\ kind \in Kinds
    /\ height \in FirstBlock .. MaxHeight
    /\ open \in SUBSET Transfers
    /\ empty \in SUBSET EmptyBlocks
    /\ sync \in [Tokens -> 0 .. MaxHeight]
    /\ pc \in RoundStages
    /\ base \in [Tokens -> 0 .. MaxHeight]
    /\ seen \in 0 .. MaxHeight
    /\ todo \in SUBSET Tokens
    /\ at \in Tokens \cup {NoToken}
    /\ cached \in SUBSET (0 .. MaxHeight)
    /\ writes \in [0 .. MaxHeight -> Nat]
    /\ handed \in SUBSET Transfers
    /\ jobs \in [Transfers -> [JobSteps -> Nat]]
    /\ rows \in SUBSET LogIds
    /\ applied \in [LogIds -> Nat]
    /\ faults \in 0 .. MaxFaults

\* syncBlock never passes a block whose transfers were not handed to a
\* callback: not by a failed query, a restart or an update that lands late.
NothingSkipped ==
    \A t \in OnChain[kind] :
        FirstBlock < BlockOf[t] /\ BlockOf[t] <= sync[TokenOf[t]]
            => t \in handed

\* The transfer is in a block the listener is sure to reach.
Reached(t) == /\ t \in OnChain[kind]
              /\ FirstBlock < BlockOf[t] /\ BlockOf[t] + MinBlockDiff <= MaxHeight

\* Whatever fails, a restart between two blocks and a late or lost update of
\* syncBlock included, the block listeners go on to scan every block, the TRON
\* listener until the first that holds no transaction; the token listener is
\* only sure to while its loop does not fail.
EveryBlockScanned ==
    \A t \in Transfers :
        /\ Reached(t)
        /\ \A b \in empty : BlockOf[t] < b
        /\ [](kind = "token" => pc # "stopped")
        => <>(t \in handed)

\* No call of a merchant's server stays open for good.
MerchantsAnswer == \A t \in Transfers : []<>(jobs[t]["apply"] = 0)

\* When nothing fails, no block is empty and the merchants answer, a transfer
\* to an address with a pending request is stored and applied, or its log id
\* is taken by an output of the same transaction, which is applied.
EventuallyApplied ==
    MerchantsAnswer =>
        \A t \in Transfers :
            Reached(t) /\ empty = {} /\ [](t \in open /\ faults = 0)
                => <>(applied[LogId(t)] > 0)

-----------------------------------------------------------------------------
(* The listeners implement TransferLedger, with a log id for a payment.    *)

Fate == [l \in LogIds |->
           IF applied[l] > 1 THEN "overpaid"
           ELSE IF applied[l] = 1 THEN "credited"
           ELSE IF l \notin rows THEN "unseen"
           ELSE IF \E t \in Transfers : LogId(t) = l /\ jobs[t]["apply"] > 0
           THEN "stored" ELSE "lost"]

Ledger == INSTANCE TransferLedger WITH Payments <- LogIds, fate <- Fate

\* However often a block is scanned, its transfers are stored once and applied
\* once, or lost for good with the process that stored them.
ImplementsLedger == Ledger!Spec

=============================================================================
