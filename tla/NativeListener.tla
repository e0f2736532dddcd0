--------------------------- MODULE NativeListener ---------------------------
(***************************************************************************)
(* The listener for the native coin of an EVM chain: NetListenerService    *)
(* scans blocks and puts the transfers it finds into the list of           *)
(* EthCacheService, which every few seconds settles the ones that are deep *)
(* enough.  Both run on timers of one process and keep what they found in  *)
(* memory; only the token's syncBlock and the transaction rows persist.    *)
(*                                                                         *)
(* The forEach callbacks of both services are started and not awaited, so  *)
(* each is a small process of its own, counted by what it does next.       *)
(***************************************************************************)
EXTENDS Integers, LinkedList, FiniteSetsExt

CONSTANTS
    BlockOf,        \* block of each transfer (Items are the transfers)
    Success,        \* transfers whose receipt says they succeeded
    FirstBlock,     \* syncBlock the token row was created with
    MinLag,         \* blocks the scan waits for (20 in the code)
    MaxBatch,       \* blocks one scan covers at most (100)
    Confirmations,  \* depth a transfer must exceed (10)
    MaxHeight,      \* bound: height of the chain
    MaxJobs,        \* bound: settlement callbacks in flight
    MaxRows,        \* bound: a transfer's rows are counted up to here
    MaxFaults       \* bound: failing awaits and process restarts

ASSUME NodesAssumption == Nodes \subseteq Nat
ASSUME ItemsAssumption == /\ BlockOf \in [Items -> Nat]
                          /\ Success \in SUBSET Items
ASSUME ThresholdAssumption == /\ FirstBlock \in Nat
                              /\ MinLag \in Nat \ {0}
                              /\ MaxBatch \in Nat \ {0}
                              /\ Confirmations \in Nat
ASSUME BoundAssumption == /\ MaxHeight \in Nat /\ FirstBlock <= MaxHeight
                          /\ MaxJobs \in Nat
                          /\ MaxRows \in Nat \ {0}
                          /\ MaxFaults \in Nat

VARIABLES
    height,     \* the chain's latest block
    open,       \* transfers whose address has a pending request
    found,      \* the token row has the network and name the lookup asks for
    syncBlock,  \* token.syncBlock
    scan,       \* where runSync is
    block,      \* blockNumber, the loop's next block
    top,        \* currentBlkNum, where the loop ends
    looking,    \* callbacks of the block loop waiting for checkAddress
    txns,       \* the cache: a LinkedList of transfers
    seen,       \* currentBlock, as read by checkTxns
    checking,   \* checkTxns has its block number
    jobs,       \* callbacks of checkTxns, by transfer and next step
    rows,       \* transaction rows stored for each transfer
    applied,    \* calls of updatePaymentStatus for each transfer
    faults      \* faults so far

chainVars == <<height, open, found>>
scanVars  == <<syncBlock, scan, block, top, looking>>
cacheVars == <<txns, seen, checking, jobs>>
bookVars  == <<rows, applied>>
vars == <<chainVars, scanVars, cacheVars, bookVars, faults>>

JobSteps == {"receipt", "create", "apply", "remove"}
NoJobs == [p \in Items |-> [s \in JobSteps |-> 0]]

InFlight(p) == MapThenSumSet(LAMBDA s : jobs[p][s], JobSteps)
AllInFlight == MapThenSumSet(InFlight, Items)

Init ==
    /\ height = FirstBlock
    /\ open = Items
    /\ found \in BOOLEAN
    /\ syncBlock = FirstBlock
    /\ scan = "idle" /\ block = 0 /\ top = 0
    /\ looking = [p \in Items |-> 0]
    /\ txns = EmptyList
    /\ seen = 0 /\ checking = FALSE
    /\ jobs = NoJobs
    /\ rows = [p \in Items |-> 0]
    /\ applied = [p \in Items |-> 0]
    /\ faults = 0

-----------------------------------------------------------------------------
(* Slips that the properties below must catch.                             *)

\* the depth is not tested
SlipShallow(p) == TRUE

\* a scan goes back one block further
SlipScanBefore == syncBlock - 1

\* the entry is removed and its row is not stored
SlipRemoveUnpaid(p) ==
    /\ jobs[p]["create"] > 0
    /\ jobs' = [jobs EXCEPT ![p]["create"] = @ - 1, ![p]["remove"] = @ + 1]
    /\ UNCHANGED <<chainVars, scanVars, txns, seen, checking, bookVars,
                   faults>>

\* a settled entry stays in the cache
SlipKeepInCache(p) ==
    /\ jobs[p]["remove"] > 0
    /\ jobs' = [jobs EXCEPT ![p]["remove"] = @ - 1]
    /\ UNCHANGED <<chainVars, scanVars, txns, seen, checking, bookVars,
                   faults>>

-----------------------------------------------------------------------------
(* The chain, and the requests: one stops being pending when it expires or *)
(* another transfer finishes it.                                           *)

Mine ==
    /\ height < MaxHeight
    /\ height' = height + 1
    /\ UNCHANGED <<open, found, scanVars, cacheVars, bookVars, faults>>

Settle(p) ==
    /\ p \in open
    /\ open' = open \ {p}
    /\ UNCHANGED <<height, found, scanVars, cacheVars, bookVars, faults>>

-----------------------------------------------------------------------------
(* NetListenerService.runSync.                                             *)

\* The first block a scan fetches: the last one of the scan before, again.
ScanFrom == syncBlock

\* A round that finds its token again.
RunSync ==
    /\ scan = "idle" /\ found
    /\ height - syncBlock >= MinLag
    /\ block' = ScanFrom
    /\ top' = IF height - syncBlock > MaxBatch THEN syncBlock + MaxBatch
                                               ELSE height
    /\ scan' = "fetch"
    /\ UNCHANGED <<chainVars, syncBlock, looking, cacheVars, bookVars, faults>>

\* The process ends, and with it everything in memory.
LoseMemory ==
    /\ scan' = "idle" /\ block' = 0 /\ top' = 0
    /\ looking' = [p \in Items |-> 0]
    /\ txns' = EmptyList
    /\ seen' = 0 /\ checking' = FALSE
    /\ jobs' = NoJobs
    /\ UNCHANGED <<chainVars, syncBlock, bookVars>>

\* Without its token the round throws, outside its try, on every start.
RunSyncThrows ==
    /\ scan = "idle" /\ ~found
    /\ LoseMemory
    /\ UNCHANGED faults

\* getBlock answers, and a callback starts for each transfer of the block.
FetchBlock ==
    /\ scan = "fetch"
    /\ block < top
    /\ looking' = [p \in Items |->
                     looking[p] + (IF BlockOf[p] = block THEN 1 ELSE 0)]
    /\ scan' = "sync"
    /\ UNCHANGED <<chainVars, syncBlock, block, top, cacheVars, bookVars,
                   faults>>

UpdateTokenSync ==
    /\ scan = "sync"
    /\ syncBlock' = block
    /\ block' = block + 1
    /\ scan' = "fetch"
    /\ UNCHANGED <<chainVars, top, looking, cacheVars, bookVars, faults>>

EndSync ==
    /\ scan = "fetch"
    /\ block >= top
    /\ scan' = "idle"
    /\ UNCHANGED <<chainVars, syncBlock, block, top, looking, cacheVars,
                   bookVars, faults>>

\* A block whose fetch or whose syncBlock update fails is passed over.
SkipBlock ==
    /\ \/ scan = "fetch" /\ block < top
       \/ scan = "sync"
    /\ faults < MaxFaults
    /\ faults' = faults + 1
    /\ block' = block + 1
    /\ scan' = "fetch"
    /\ UNCHANGED <<chainVars, syncBlock, top, looking, cacheVars, bookVars>>

\* A transfer to an address with a pending request goes into the cache.
CheckAddress(p) ==
    /\ looking[p] > 0
    /\ looking' = [looking EXCEPT ![p] = @ - 1]
    /\ IF p \in open
       THEN \E n \in Nodes \ Allocated(txns) :
               /\ \A m \in Nodes \ Allocated(txns) : n <= m
               /\ txns' = InsertInBegin(txns, n, p)
       ELSE UNCHANGED txns
    /\ UNCHANGED <<chainVars, syncBlock, scan, block, top, seen, checking,
                   jobs, bookVars, faults>>

\* The callback catches what checkAddress throws and gives the transfer up.
CheckAddressFails(p) ==
    /\ looking[p] > 0
    /\ faults < MaxFaults
    /\ faults' = faults + 1
    /\ looking' = [looking EXCEPT ![p] = @ - 1]
    /\ UNCHANGED <<chainVars, syncBlock, scan, block, top, cacheVars,
                   bookVars>>

-----------------------------------------------------------------------------
(* EthCacheService.checkTxns.  It is rescheduled before its callbacks end, *)
(* so the callbacks of several rounds overlap.                             *)

GetBlockNumber ==
    /\ ~checking
    /\ checking' = TRUE
    /\ seen' = height
    /\ UNCHANGED <<chainVars, scanVars, txns, jobs, bookVars, faults>>

DeepEnough(p) == seen - BlockOf[p] > Confirmations

\* How often a transfer is in the cache: a block scanned twice enters it twice.
Entries(p) ==
    LET path == Traverse(txns)
    IN  Cardinality({i \in DOMAIN path : txns.data[path[i]] = p})

CheckTxns ==
    /\ checking
    /\ AllInFlight + MapThenSumSet(Entries, {p \in Items : DeepEnough(p)})
         <= MaxJobs
    /\ jobs' = [p \in Items |->
                  IF DeepEnough(p)
                  THEN [jobs[p] EXCEPT !["receipt"] = @ + Entries(p)]
                  ELSE jobs[p]]
    /\ checking' = FALSE
    /\ seen' = 0
    /\ UNCHANGED <<chainVars, scanVars, txns, bookVars, faults>>

\* A job of transfer p goes from one step to the next.
Advance(p, from, to) ==
    /\ jobs[p][from] > 0
    /\ jobs' = [jobs EXCEPT ![p][from] = @ - 1, ![p][to] = @ + 1]

GetReceipt(p) ==
    /\ Advance(p, "receipt", IF p \in Success THEN "create" ELSE "remove")
    /\ UNCHANGED <<chainVars, scanVars, txns, seen, checking, bookVars,
                   faults>>

\* The log id is random, so the insert is never refused as a duplicate.
CreateTransaction(p) ==
    /\ Advance(p, "create", "apply")
    /\ rows' = [rows EXCEPT ![p] = Min({MaxRows, @ + 1})]
    /\ UNCHANGED <<chainVars, scanVars, txns, seen, checking, applied, faults>>

UpdatePaymentStatus(p) ==
    /\ Advance(p, "apply", "remove")
    /\ applied' = [applied EXCEPT ![p] = Min({MaxRows, @ + 1})]
    /\ UNCHANGED <<chainVars, scanVars, txns, seen, checking, rows, faults>>

RemoveFromCache(p) ==
    /\ jobs[p]["remove"] > 0
    /\ jobs' = [jobs EXCEPT ![p]["remove"] = @ - 1]
    /\ txns' = DeleteByData(txns, {p})
    /\ UNCHANGED <<chainVars, scanVars, seen, checking, bookVars, faults>>

JobStep(p) ==
    \/ GetReceipt(p)
    \/ CreateTransaction(p)
    \/ UpdatePaymentStatus(p)
    \/ RemoveFromCache(p)

-----------------------------------------------------------------------------
(* A restart, or a rejection nobody handles (in checkTxns, or a receipt    *)
(* that is null), ends the process too.                                    *)

Restart ==
    /\ faults < MaxFaults
    /\ faults' = faults + 1
    /\ LoseMemory

-----------------------------------------------------------------------------
ScanStep == RunSync \/ RunSyncThrows \/ FetchBlock \/ UpdateTokenSync \/ EndSync
CacheStep == GetBlockNumber \/ CheckTxns

Next ==
    \/ Mine
    \/ ScanStep
    \/ SkipBlock
    \/ CacheStep
    \/ \E p \in Items :
          \/ Settle(p)
          \/ CheckAddress(p)
          \/ CheckAddressFails(p)
          \/ JobStep(p)
    \/ Restart

Spec == Init /\ [][Next]_vars

\* The chain grows, timers fire and every await is answered in the end but
\* the one of updatePaymentStatus for the merchant's server.
Fairness ==
    /\ WF_vars(Mine)
    /\ WF_vars(ScanStep)
    /\ WF_vars(CacheStep)
    /\ \A p \in Items : /\ WF_vars(CheckAddress(p))
                         /\ WF_vars(GetReceipt(p))
                         /\ WF_vars(CreateTransaction(p))
                         /\ WF_vars(RemoveFromCache(p))

FairSpec == Spec /\ Fairness

-----------------------------------------------------------------------------
(* Properties.                                                             *)

Cached == {txns.data[n] : n \in ToSet(Traverse(txns))}

\* The tables, the services' fields and their callbacks have their types.
TypeOK ==
    /\ height \in FirstBlock .. MaxHeight
    /\ open \in SUBSET Items
    /\ found \in BOOLEAN
    /\ syncBlock \in Nat
    /\ scan \in {"idle", "fetch", "sync"}
    /\ block \in Nat
    /\ top \in Nat
    /\ looking \in [Items -> Nat]
    /\ txns \in Lists
    /\ seen \in Nat
    /\ checking \in BOOLEAN
    /\ jobs \in [Items -> [JobSteps -> Nat]]
    /\ rows \in [Items -> 0 .. MaxRows]
    /\ applied \in [Items -> 0 .. MaxRows]
    /\ faults \in 0 .. MaxFaults

\* Only a transfer that succeeded and lies deep enough in the chain is
\* stored, whichever round of checkTxns its callback was started by.
OnlyConfirmed ==
    \A p \in Items :
        rows[p] > 0 => p \in Success /\ height - BlockOf[p] > Confirmations

\* As long as nothing fails, a successful transfer in a block syncBlock has
\* passed, to an address that is still awaiting one, is on its way or stored:
\* it is not lost between the block loop, the list and the callbacks.
NothingSkipped ==
    \A p \in Success \cap open :
        faults = 0 /\ syncBlock > FirstBlock
                   /\ BlockOf[p] \in FirstBlock .. syncBlock =>
            looking[p] > 0 \/ p \in Cached \/ InFlight(p) > 0 \/ rows[p] > 0

\* No call of a merchant's server stays open for good.
MerchantsAnswer == \A p \in Items : []<>(jobs[p]["apply"] = 0)

\* A successful transfer to an address with a pending request is applied to
\* it in the end, when the token is found, nothing fails, the merchants answer
\* and the chain grows far enough.
EventuallyApplied ==
    MerchantsAnswer =>
        \A p \in Success :
            /\ FirstBlock <= BlockOf[p]
            /\ BlockOf[p] + MinLag + Confirmations < MaxHeight
            => ([](found /\ faults = 0 /\ p \in open) => <>(applied[p] > 0))

\* "@Column({unique: true})" on logId (transaction.entity.ts:16): a transfer
\* has one transaction row, however often it is found.
StoredOnce == \A p \in Items : rows[p] <= 1

=============================================================================
