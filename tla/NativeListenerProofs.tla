------------------------ MODULE NativeListenerProofs ------------------------
(***************************************************************************)
(* For any chain, any transfers and any thresholds: the native-coin        *)
(* listener stores confirmed, successful transfers only, whatever fails,   *)
(* and while nothing fails it skips none.                                  *)
(***************************************************************************)
EXTENDS NativeListener, LinkedListProofs, SumLemmas, TLAPS

Deep(p) == height - BlockOf[p] > Confirmations

\* The chain only grows, and checkTxns never knows more of it than there is.
HeightOK == height \in Nat /\ seen \in Nat /\ seen <= height

\* Jobs and rows are tables over the transfers.
TablesOK ==
    /\ jobs = [p \in Items |-> [s \in JobSteps |-> jobs[p][s]]]
    /\ rows = [p \in Items |-> rows[p]]

\* A transfer in work is deep enough, and past its receipt it has succeeded.
JobsOK ==
    \A p \in Items, s \in JobSteps :
        jobs[p][s] # 0 => /\ Deep(p)
                          /\ s \in {"create", "apply"} => p \in Success

RowsOK == \A p \in Items : rows[p] # 0 => Deep(p) /\ p \in Success

ConfirmedInv == HeightOK /\ TablesOK /\ JobsOK /\ RowsOK

\* Initially no transfer is in work or stored.
LEMMA ConfirmedInit == Init => ConfirmedInv
  BY ThresholdAssumption
     DEF Init, ConfirmedInv, HeightOK, TablesOK, JobsOK, RowsOK, NoJobs

\* A step that starts no job and stores nothing keeps the invariant, however
\* the chain grows meanwhile.
LEMMA QuietStep ==
    ASSUME ConfirmedInv, UNCHANGED <<jobs, rows>>,
           height' \in Nat, height <= height',
           seen' \in Nat, seen' <= height'
    PROVE  ConfirmedInv'
<1>1. \A p \in Items : Deep(p) => Deep(p)'
  BY ItemsAssumption, ThresholdAssumption DEF Deep, ConfirmedInv, HeightOK
<1>2. HeightOK' /\ TablesOK' BY DEF ConfirmedInv, HeightOK, TablesOK
<1>3. JobsOK' /\ RowsOK' BY <1>1 DEF ConfirmedInv, JobsOK, RowsOK
<1> QED BY <1>2, <1>3 DEF ConfirmedInv

\* A job that moves on stays within what its transfer has shown so far.
LEMMA AdvanceStep ==
    ASSUME ConfirmedInv, NEW p \in Items,
           NEW from \in JobSteps, NEW to \in JobSteps, Advance(p, from, to),
           to \in {"create", "apply"} => p \in Success,
           UNCHANGED <<height, seen>>
    PROVE  /\ jobs' = [q \in Items |-> [s \in JobSteps |-> jobs'[q][s]]]
           /\ JobsOK'
           /\ Deep(p)
<1>1. jobs = [q \in Items |-> [s \in JobSteps |-> jobs[q][s]]]
  BY DEF ConfirmedInv, TablesOK
<1>2. jobs[p][from] # 0 BY DEF Advance
<1>3. Deep(p) BY <1>2 DEF ConfirmedInv, JobsOK
<1>4. jobs' = [jobs EXCEPT ![p][from] = @ - 1, ![p][to] = @ + 1]
  BY DEF Advance
<1>5. jobs' = [q \in Items |-> [s \in JobSteps |-> jobs'[q][s]]]
  BY <1>1, <1>4
<1>6. ASSUME NEW q \in Items, NEW s \in JobSteps, jobs'[q][s] # 0
      PROVE  Deep(q) /\ (s \in {"create", "apply"} => q \in Success)
  <2>1. CASE q # p
    BY <1>1, <1>4, <1>6, <2>1 DEF ConfirmedInv, JobsOK
  <2>2. CASE q = p /\ s \notin {from, to}
    BY <1>1, <1>4, <1>6, <2>2 DEF ConfirmedInv, JobsOK
  <2>3. CASE q = p /\ s = from
    BY <1>2, <1>3, <2>3 DEF ConfirmedInv, JobsOK
  <2>4. CASE q = p /\ s = to
    BY <1>3, <2>4
  <2> QED BY <2>1, <2>2, <2>3, <2>4
<1>7. JobsOK' BY <1>6 DEF JobsOK, Deep
<1> QED BY <1>3, <1>5, <1>7

\* Every step keeps the invariant.
LEMMA ConfirmedStep == ConfirmedInv /\ [Next]_vars => ConfirmedInv'
<1> SUFFICES ASSUME ConfirmedInv, [Next]_vars PROVE ConfirmedInv'
  OBVIOUS
<1> USE DEF chainVars, scanVars, cacheVars, bookVars
<1>h. height \in Nat /\ seen \in Nat /\ seen <= height
  BY DEF ConfirmedInv, HeightOK
<1>1. CASE Mine
  BY <1>1, <1>h, QuietStep DEF Mine
<1>2. CASE RunSync \/ FetchBlock \/ UpdateTokenSync \/ EndSync
  BY <1>2, <1>h, QuietStep
     DEF RunSync, FetchBlock, UpdateTokenSync, EndSync
<1>3. CASE SkipBlock
  BY <1>3, <1>h, QuietStep DEF SkipBlock
<1>4. CASE GetBlockNumber
  BY <1>4, <1>h, QuietStep DEF GetBlockNumber
<1>5. CASE CheckTxns
  <2>1. jobs' = [p \in Items |->
                   IF DeepEnough(p)
                   THEN [jobs[p] EXCEPT !["receipt"] = @ + Entries(p)]
                   ELSE jobs[p]]
    BY <1>5 DEF CheckTxns
  <2>2. UNCHANGED <<height, rows>> /\ seen' = 0 BY <1>5 DEF CheckTxns
  <2>3. jobs = [p \in Items |-> [s \in JobSteps |-> jobs[p][s]]]
    BY DEF ConfirmedInv, TablesOK
  <2>4. \A p \in Items : DeepEnough(p) => Deep(p)
    BY <1>h, ItemsAssumption, ThresholdAssumption DEF DeepEnough, Deep
  <2>5. HeightOK' BY <1>h, <2>2 DEF HeightOK
  <2>6. ASSUME NEW p \in Items
        PROVE  jobs'[p] = [s \in JobSteps |-> jobs'[p][s]]
    BY <2>1, <2>3
  <2>7. TablesOK' BY <2>1, <2>2, <2>6 DEF ConfirmedInv, TablesOK
  <2>8. ASSUME NEW p \in Items, NEW s \in JobSteps, jobs'[p][s] # 0
        PROVE  Deep(p) /\ (s \in {"create", "apply"} => p \in Success)
    <3>1. CASE DeepEnough(p) /\ s = "receipt" BY <2>4, <3>1
    <3>2. CASE ~DeepEnough(p) \/ s # "receipt"
      <4>1. jobs'[p][s] = jobs[p][s] BY <2>1, <2>3, <3>2
      <4> QED BY <2>8, <4>1 DEF ConfirmedInv, JobsOK
    <3> QED BY <3>1, <3>2
  <2>9. JobsOK' BY <2>2, <2>8 DEF JobsOK, Deep
  <2>10. RowsOK' BY <2>2 DEF ConfirmedInv, RowsOK, Deep
  <2> QED BY <2>5, <2>7, <2>9, <2>10 DEF ConfirmedInv
<1>6. ASSUME NEW p \in Items, Settle(p) \/ CheckAddress(p)
                                        \/ CheckAddressFails(p)
      PROVE  ConfirmedInv'
  BY <1>6, <1>h, QuietStep DEF Settle, CheckAddress, CheckAddressFails
<1>7. ASSUME NEW p \in Items, JobStep(p)
      PROVE  ConfirmedInv'
  <2> USE DEF JobSteps
  <2>1. CASE GetReceipt(p)
    <3>1. Advance(p, "receipt", IF p \in Success THEN "create" ELSE "remove")
      BY <2>1 DEF GetReceipt
    <3>2. UNCHANGED <<height, seen, rows>> BY <2>1 DEF GetReceipt
    <3>3. /\ jobs' = [q \in Items |-> [s \in JobSteps |-> jobs'[q][s]]]
          /\ JobsOK'
      BY <3>1, <3>2, AdvanceStep
    <3> QED BY <1>h, <3>2, <3>3
            DEF ConfirmedInv, HeightOK, TablesOK, RowsOK, Deep
  <2>2. CASE CreateTransaction(p)
    <3>1. Advance(p, "create", "apply") BY <2>2 DEF CreateTransaction
    <3>2. UNCHANGED <<height, seen>> BY <2>2 DEF CreateTransaction
    <3>3. p \in Success
      BY <3>1 DEF Advance, ConfirmedInv, JobsOK
    <3>4. /\ jobs' = [q \in Items |-> [s \in JobSteps |-> jobs'[q][s]]]
          /\ JobsOK'
          /\ Deep(p)
      BY <3>1, <3>2, <3>3, AdvanceStep
    <3>5. /\ rows' = [q \in Items |-> rows'[q]]
          /\ \A q \in Items \ {p} : rows'[q] = rows[q]
      BY <2>2 DEF CreateTransaction, ConfirmedInv, TablesOK
    <3>6. RowsOK'
      BY <3>2, <3>3, <3>4, <3>5 DEF ConfirmedInv, RowsOK, Deep
    <3> QED BY <1>h, <3>2, <3>4, <3>5, <3>6 DEF ConfirmedInv, HeightOK, TablesOK
  <2>3. CASE UpdatePaymentStatus(p)
    <3>1. Advance(p, "apply", "remove") BY <2>3 DEF UpdatePaymentStatus
    <3>2. UNCHANGED <<height, seen, rows>> BY <2>3 DEF UpdatePaymentStatus
    <3>3. /\ jobs' = [q \in Items |-> [s \in JobSteps |-> jobs'[q][s]]]
          /\ JobsOK'
      BY <3>1, <3>2, AdvanceStep
    <3> QED BY <1>h, <3>2, <3>3
            DEF ConfirmedInv, HeightOK, TablesOK, RowsOK, Deep
  <2>4. CASE RemoveFromCache(p)
    <3>1. jobs[p]["remove"] # 0 /\ jobs' = [jobs EXCEPT ![p]["remove"] = @ - 1]
      BY <2>4 DEF RemoveFromCache
    <3>2. UNCHANGED <<height, seen, rows>> BY <2>4 DEF RemoveFromCache
    <3>3. jobs = [q \in Items |-> [s \in JobSteps |-> jobs[q][s]]]
      BY DEF ConfirmedInv, TablesOK
    <3>4. jobs' = [q \in Items |-> [s \in JobSteps |-> jobs'[q][s]]]
      BY <3>1, <3>3
    <3>5. \A q \in Items, s \in JobSteps : jobs'[q][s] # 0 => jobs[q][s] # 0
      BY <3>1, <3>3
    <3>6. JobsOK' BY <3>2, <3>5 DEF ConfirmedInv, JobsOK, Deep
    <3> QED BY <1>h, <3>2, <3>4, <3>6
            DEF ConfirmedInv, HeightOK, TablesOK, RowsOK, Deep
  <2> QED BY <1>7, <2>1, <2>2, <2>3, <2>4 DEF JobStep
<1>8. CASE Restart \/ RunSyncThrows
  <2>1. jobs' = NoJobs /\ seen' = 0 /\ UNCHANGED <<height, rows>>
    BY <1>8 DEF Restart, RunSyncThrows, LoseMemory
  <2>2. HeightOK' /\ TablesOK' /\ JobsOK'
    BY <1>h, <2>1 DEF ConfirmedInv, HeightOK, TablesOK, JobsOK, NoJobs
  <2>3. RowsOK' BY <2>1 DEF ConfirmedInv, RowsOK, Deep
  <2> QED BY <2>2, <2>3 DEF ConfirmedInv
<1>9. CASE UNCHANGED vars
  BY <1>9, <1>h, QuietStep DEF vars
<1> QED BY <1>1, <1>2, <1>3, <1>4, <1>5, <1>6, <1>7, <1>8, <1>9
        DEF Next, ScanStep, CacheStep

\* EthCacheService stores a transfer only after the chain has confirmed it,
\* whichever overlapping round of checkTxns picked it up.
THEOREM OnlyConfirmedStored == Spec => []OnlyConfirmed
<1>1. ConfirmedInv => OnlyConfirmed
  <2> SUFFICES ASSUME ConfirmedInv, NEW p \in Items, rows[p] > 0
               PROVE  p \in Success /\ height - BlockOf[p] > Confirmations
    BY DEF OnlyConfirmed
  <2>1. rows[p] # 0 OBVIOUS
  <2> QED BY <2>1 DEF ConfirmedInv, RowsOK, Deep
<1> QED BY <1>1, ConfirmedInit, ConfirmedStep, PTL DEF Spec

-----------------------------------------------------------------------------
(* The cache as a list, and the types.                                     *)

Linked == \E o : WellLinked(txns, o)

\* Several nodes may hold a transfer; their number is a natural.
LEMMA EntriesNat ==
    ASSUME Linked, NEW p \in Items
    PROVE  Entries(p) \in Nat
<1> DEFINE path == Traverse(txns)
           at == {i \in DOMAIN path : txns.data[path[i]] = p}
<1>1. path \in Seq(Nodes)
  BY PathInOrder DEF Linked, WellLinked
<1>2. IsFiniteSet(1 .. Len(path))
  BY <1>1, FS_Interval
<1>3. at \subseteq 1 .. Len(path)
  BY <1>1
<1>4. IsFiniteSet(at)
  BY <1>2, <1>3, FS_Subset
<1>5. Cardinality(at) \in Nat
  BY <1>4, FS_CardinalityType
<1> QED BY <1>5 DEF Entries

\* The lesser of two numbers.
LEMMA MinOfTwo ==
    ASSUME NEW a \in Nat, NEW b \in Nat
    PROVE  Min({a, b}) = IF a <= b THEN a ELSE b
<1>1. \E x \in {a, b} : \A y \in {a, b} : x <= y
  OBVIOUS
<1>2. /\ Min({a, b}) \in {a, b}
      /\ \A y \in {a, b} : Min({a, b}) <= y
  BY <1>1 DEF Min
<1> QED BY <1>2

\* A scanned transfer is cached in front of the list.
LEMMA CachedOnCheck ==
    ASSUME Linked, NEW p \in Items, NEW n \in Nodes \ Allocated(txns),
           txns' = InsertInBegin(txns, n, p)
    PROVE  /\ Linked'
           /\ p \in Cached'
           /\ Cached \subseteq Cached'
<1>1. PICK o : WellLinked(txns, o)
  BY DEF Linked
<1>2. /\ WellLinked(txns', <<n>> \o o)
      /\ Traverse(txns') = <<n>> \o Traverse(txns)
  BY <1>1, InsertInBeginWellLinked
<1>3. txns \in Lists /\ Ordered(txns, o) /\ o \in Seq(Nodes)
  BY <1>1 DEF WellLinked, Ordered
<1>4. /\ Traverse(txns) \in Seq(Nodes)
      /\ n \notin ToSet(Traverse(txns))
  BY <1>3, FreeNode, PathInOrder
<1>5. ToSet(Traverse(txns')) = ToSet(Traverse(txns)) \cup {n}
  BY <1>2, <1>4, BeforeGrows
<1>6. ToSet(Traverse(txns)) \subseteq Nodes
  BY <1>4 DEF ToSet
<1>7. \A x \in Nodes : txns'.data[x] = IF x = n THEN p ELSE txns.data[x]
  BY <1>3, InsertInBeginFields
<1>8. Linked'
  BY <1>2 DEF Linked
<1>9. p \in Cached' /\ Cached \subseteq Cached'
  BY <1>4, <1>5, <1>6, <1>7 DEF Cached
<1> QED BY <1>8, <1>9

\* Removing a settled transfer loses no other.
LEMMA CachedOnRemove ==
    ASSUME Linked, NEW p \in Items, txns' = DeleteByData(txns, {p})
    PROVE  /\ Linked'
           /\ Cached \ {p} \subseteq Cached'
<1> DEFINE path == Traverse(txns)
           n == FirstMatch(txns, {p})
<1>1. PICK o : WellLinked(txns, o)
  BY DEF Linked
<1>2. path \in Seq(Nodes)
  BY <1>1, PathInOrder DEF WellLinked
<1>3. CASE Search(txns, {p}) = {}
  <2>1. txns' = txns
    BY <1>3 DEF DeleteByData
  <2> QED BY <2>1 DEF Linked, Cached
<1>4. CASE Search(txns, {p}) # {}
  <2>1. PICK i \in 1 .. Len(path) : n = path[i] /\ txns.data[n] \in {p}
    BY <1>2, <1>4, FirstMatchOnPath
  <2>2. txns' = DeleteNode(txns, n)
    BY <1>4 DEF DeleteByData
  <2> HIDE DEF n
  <2>3. /\ WellLinked(txns', o)
        /\ txns'.data = txns.data
        /\ Traverse(txns') = Cut(path, i) \/ Traverse(txns') = path
    BY <1>1, <2>1, <2>2, DeleteNodeWellLinked
  <2> HIDE DEF path
  <2>4. ToSet(path) \ {n} \subseteq ToSet(Cut(path, i))
    BY <1>2, <2>1, CutKeepsOthers
  <2>5. Cached \ {p} \subseteq Cached'
    BY <2>1, <2>3, <2>4 DEF Cached, path
  <2> QED BY <2>3, <2>5 DEF Linked
<1> QED BY <1>3, <1>4

\* Every step keeps the shape of the list and the types.
LEMMA LinkedStep == Linked /\ [Next]_vars => Linked'
<1> SUFFICES ASSUME Linked, [Next]_vars PROVE Linked'
  OBVIOUS
<1> USE DEF chainVars, scanVars, cacheVars, bookVars
<1>1. CASE UNCHANGED txns
  BY <1>1 DEF Linked
<1>2. ASSUME NEW p \in Items, CheckAddress(p) PROVE Linked'
  BY <1>1, <1>2, CachedOnCheck DEF CheckAddress
<1>3. ASSUME NEW p \in Items, RemoveFromCache(p) PROVE Linked'
  BY <1>3, CachedOnRemove DEF RemoveFromCache
<1>4. CASE Restart \/ RunSyncThrows
  BY <1>4, EmptyWellLinked DEF Restart, RunSyncThrows, LoseMemory, Linked
<1>5. CASE \/ Mine \/ RunSync \/ FetchBlock \/ UpdateTokenSync \/ EndSync
           \/ SkipBlock \/ CacheStep \/ UNCHANGED vars
  <2>1. UNCHANGED txns
    BY <1>5 DEF Mine, RunSync, FetchBlock, UpdateTokenSync, EndSync, SkipBlock,
                CacheStep, GetBlockNumber, CheckTxns, vars
  <2> QED BY <1>1, <2>1
<1>6. ASSUME NEW p \in Items,
             \/ Settle(p) \/ CheckAddressFails(p) \/ GetReceipt(p)
             \/ CreateTransaction(p) \/ UpdatePaymentStatus(p)
      PROVE  Linked'
  <2>1. UNCHANGED txns
    BY <1>6 DEF Settle, CheckAddressFails, GetReceipt, CreateTransaction,
                UpdatePaymentStatus
  <2> QED BY <1>1, <2>1
<1> QED BY <1>2, <1>3, <1>4, <1>5, <1>6 DEF Next, ScanStep, JobStep

\* The parts of the type invariant that a step can disturb together.
ScanTypes ==
    /\ height \in FirstBlock .. MaxHeight
    /\ open \in SUBSET Items
    /\ found \in BOOLEAN
    /\ syncBlock \in Nat
    /\ scan \in {"idle", "fetch", "sync"}
    /\ block \in Nat
    /\ top \in Nat
    /\ looking \in [Items -> Nat]
    /\ seen \in Nat
    /\ checking \in BOOLEAN
    /\ faults \in 0 .. MaxFaults

JobTypes == jobs \in [Items -> [JobSteps -> Nat]]

RowTypes ==
    /\ rows \in [Items -> 0 .. MaxRows]
    /\ applied \in [Items -> 0 .. MaxRows]

ListenerTypes == Linked /\ ScanTypes /\ JobTypes /\ RowTypes

\* Initially the list is empty and nothing runs.
LEMMA TypesInit == Init => ListenerTypes
<1> SUFFICES ASSUME Init PROVE ListenerTypes
  OBVIOUS
<1>1. Linked
  BY EmptyWellLinked DEF Init, Linked
<1>2. ScanTypes
  <2>1. checking \in BOOLEAN /\ found \in BOOLEAN
    BY DEF Init
  <2> QED BY <2>1, ThresholdAssumption, BoundAssumption DEF Init, ScanTypes
<1>3. JobTypes
  BY DEF Init, JobTypes, NoJobs
<1>4. RowTypes
  BY BoundAssumption DEF Init, RowTypes
<1> QED BY <1>1, <1>2, <1>3, <1>4 DEF ListenerTypes

\* Moving a job keeps the table of jobs.
LEMMA AdvanceTypes ==
    ASSUME JobTypes, NEW p \in Items,
           NEW from \in JobSteps, NEW to \in JobSteps, Advance(p, from, to)
    PROVE  JobTypes'
<1>1. jobs' = [jobs EXCEPT ![p] = [jobs[p] EXCEPT ![from] = @ - 1,
                                                  ![to] = @ + 1]]
  BY DEF Advance, JobTypes
<1>2. jobs[p] \in [JobSteps -> Nat] /\ jobs[p][from] > 0
  BY DEF Advance, JobTypes
<1>3. [jobs[p] EXCEPT ![from] = @ - 1, ![to] = @ + 1] \in [JobSteps -> Nat]
  BY <1>2
<1> QED BY <1>1, <1>3 DEF JobTypes

\* Jobs are only added, moved on and ended.
LEMMA JobTypesStep == ListenerTypes /\ [Next]_vars => JobTypes'
<1> SUFFICES ASSUME ListenerTypes, [Next]_vars PROVE JobTypes'
  OBVIOUS
<1> USE DEF chainVars, scanVars, cacheVars, bookVars
<1>1. JobTypes /\ Linked
  BY DEF ListenerTypes
<1>2. CASE UNCHANGED jobs
  BY <1>1, <1>2 DEF JobTypes
<1>3. CASE CheckTxns
  <2>1. jobs' = [p \in Items |->
                   IF DeepEnough(p)
                   THEN [jobs[p] EXCEPT !["receipt"] = @ + Entries(p)]
                   ELSE jobs[p]]
    BY <1>3 DEF CheckTxns
  <2>2. ASSUME NEW p \in Items
        PROVE  [jobs[p] EXCEPT !["receipt"] = @ + Entries(p)]
                  \in [JobSteps -> Nat]
    BY <1>1, EntriesNat DEF JobTypes, JobSteps
  <2> QED BY <1>1, <2>1, <2>2 DEF JobTypes
<1>4. ASSUME NEW p \in Items, JobStep(p) PROVE JobTypes'
  <2>1. CASE GetReceipt(p)
    BY <1>1, <2>1, AdvanceTypes DEF GetReceipt, JobSteps
  <2>2. CASE CreateTransaction(p)
    BY <1>1, <2>2, AdvanceTypes DEF CreateTransaction, JobSteps
  <2>3. CASE UpdatePaymentStatus(p)
    BY <1>1, <2>3, AdvanceTypes DEF UpdatePaymentStatus, JobSteps
  <2>4. CASE RemoveFromCache(p)
    <3>1. jobs' = [jobs EXCEPT ![p] = [jobs[p] EXCEPT !["remove"] = @ - 1]]
      BY <1>1, <2>4 DEF RemoveFromCache, JobTypes
    <3>2. [jobs[p] EXCEPT !["remove"] = @ - 1] \in [JobSteps -> Nat]
      BY <1>1, <2>4 DEF RemoveFromCache, JobTypes, JobSteps
    <3> QED BY <1>1, <3>1, <3>2 DEF JobTypes
  <2> QED BY <1>4, <2>1, <2>2, <2>3, <2>4 DEF JobStep
<1>5. CASE Restart \/ RunSyncThrows
  BY <1>5 DEF Restart, RunSyncThrows, LoseMemory, NoJobs, JobTypes
<1>6. CASE \/ Mine \/ RunSync \/ FetchBlock \/ UpdateTokenSync \/ EndSync
           \/ SkipBlock \/ GetBlockNumber \/ UNCHANGED vars
  <2>1. UNCHANGED jobs
    BY <1>6 DEF Mine, RunSync, FetchBlock, UpdateTokenSync, EndSync,
                SkipBlock, GetBlockNumber, vars
  <2> QED BY <1>2, <2>1
<1>7. ASSUME NEW p \in Items,
             Settle(p) \/ CheckAddress(p) \/ CheckAddressFails(p)
      PROVE  JobTypes'
  <2>1. UNCHANGED jobs
    BY <1>7 DEF Settle, CheckAddress, CheckAddressFails
  <2> QED BY <1>2, <2>1
<1> QED BY <1>3, <1>4, <1>5, <1>6, <1>7 DEF Next, ScanStep, CacheStep

\* Block numbers stay naturals, and the chain within its bound.
LEMMA ScanTypesStep == ListenerTypes /\ [Next]_vars => ScanTypes'
<1> SUFFICES ASSUME ListenerTypes, [Next]_vars PROVE ScanTypes'
  OBVIOUS
<1> USE ThresholdAssumption, BoundAssumption
        DEF chainVars, scanVars, cacheVars, bookVars
<1>1. ScanTypes
  BY DEF ListenerTypes
<1>2. CASE Mine
  BY <1>1, <1>2 DEF Mine, ScanTypes
<1>3. CASE RunSync
  BY <1>1, <1>3 DEF RunSync, ScanFrom, ScanTypes
<1>4. CASE FetchBlock
  BY <1>1, <1>4, ItemsAssumption DEF FetchBlock, ScanTypes
<1>5. CASE UpdateTokenSync
  BY <1>1, <1>5 DEF UpdateTokenSync, ScanTypes
<1>6. CASE EndSync
  BY <1>1, <1>6 DEF EndSync, ScanTypes
<1>7. CASE SkipBlock
  BY <1>1, <1>7 DEF SkipBlock, ScanTypes
<1>8. CASE CacheStep
  <2>1. checking' \in BOOLEAN
    BY <1>8 DEF CacheStep, GetBlockNumber, CheckTxns
  <2>2. /\ seen' \in {height, 0} /\ height \in Nat
        /\ UNCHANGED <<height, open, found, syncBlock, scan, block, top,
                      looking, faults>>
    <3>1. height \in Nat
      BY <1>1 DEF ScanTypes
    <3>2. CASE GetBlockNumber
      BY <3>1, <3>2 DEF GetBlockNumber
    <3>3. CASE CheckTxns
      <4>1. /\ seen' = 0
            /\ UNCHANGED <<chainVars, scanVars, faults>>
        BY <3>3 DEF CheckTxns
      <4> QED BY <3>1, <4>1
    <3> QED BY <1>8, <3>2, <3>3 DEF CacheStep
  <2> QED BY <1>1, <2>1, <2>2 DEF ScanTypes
<1>9. ASSUME NEW p \in Items, Settle(p) PROVE ScanTypes'
  BY <1>1, <1>9 DEF Settle, ScanTypes
<1>10. ASSUME NEW p \in Items, CheckAddress(p) PROVE ScanTypes'
  BY <1>1, <1>10 DEF CheckAddress, ScanTypes
<1>11. ASSUME NEW p \in Items, CheckAddressFails(p) PROVE ScanTypes'
  BY <1>1, <1>11 DEF CheckAddressFails, ScanTypes
<1>12. ASSUME NEW p \in Items, JobStep(p) PROVE ScanTypes'
  BY <1>1, <1>12 DEF JobStep, GetReceipt, CreateTransaction,
                     UpdatePaymentStatus, RemoveFromCache, ScanTypes
<1>13. CASE Restart \/ RunSyncThrows
  <2>1. /\ checking' \in BOOLEAN /\ seen' = 0 /\ scan' = "idle"
        /\ block' = 0 /\ top' = 0 /\ looking' = [p \in Items |-> 0]
        /\ UNCHANGED <<height, open, found, syncBlock>>
    BY <1>13 DEF Restart, RunSyncThrows, LoseMemory
  <2>2. faults' \in 0 .. MaxFaults
    BY <1>1, <1>13 DEF Restart, RunSyncThrows, ScanTypes
  <2> QED BY <1>1, <2>1, <2>2 DEF ScanTypes
<1>14. CASE UNCHANGED vars
  BY <1>1, <1>14 DEF vars, ScanTypes
<1> QED BY <1>2, <1>3, <1>4, <1>5, <1>6, <1>7, <1>8, <1>9, <1>10, <1>11,
           <1>12, <1>13, <1>14 DEF Next, ScanStep

\* Rows and applications are counted up to their bound.
LEMMA RowTypesStep == ListenerTypes /\ [Next]_vars => RowTypes'
<1> SUFFICES ASSUME ListenerTypes, [Next]_vars PROVE RowTypes'
  OBVIOUS
<1> USE DEF chainVars, scanVars, cacheVars, bookVars
<1>1. RowTypes
  BY DEF ListenerTypes
<1>2. CASE UNCHANGED <<rows, applied>>
  BY <1>1, <1>2 DEF RowTypes
<1>3. \A x \in 0 .. MaxRows : Min({MaxRows, x + 1}) \in 0 .. MaxRows
  BY BoundAssumption, MinOfTwo
<1>4. ASSUME NEW p \in Items, CreateTransaction(p) PROVE RowTypes'
  BY <1>1, <1>3, <1>4 DEF CreateTransaction, RowTypes
<1>5. ASSUME NEW p \in Items, UpdatePaymentStatus(p) PROVE RowTypes'
  BY <1>1, <1>3, <1>5 DEF UpdatePaymentStatus, RowTypes
<1>6. CASE \/ Mine \/ ScanStep \/ SkipBlock \/ CacheStep \/ Restart
           \/ UNCHANGED vars
  <2>1. UNCHANGED <<rows, applied>>
    BY <1>6 DEF Mine, ScanStep, RunSync, RunSyncThrows, FetchBlock,
                UpdateTokenSync, EndSync, SkipBlock, CacheStep, GetBlockNumber,
                CheckTxns, Restart, LoseMemory, vars
  <2> QED BY <1>2, <2>1
<1>7. ASSUME NEW p \in Items,
             \/ Settle(p) \/ CheckAddress(p) \/ CheckAddressFails(p)
             \/ GetReceipt(p) \/ RemoveFromCache(p)
      PROVE  RowTypes'
  <2>1. UNCHANGED <<rows, applied>>
    BY <1>7 DEF Settle, CheckAddress, CheckAddressFails, GetReceipt,
                RemoveFromCache
  <2> QED BY <1>2, <2>1
<1> QED BY <1>4, <1>5, <1>6, <1>7 DEF Next, JobStep

\* Together, the types are inductive.
LEMMA TypesStep == ListenerTypes /\ [Next]_vars => ListenerTypes'
BY LinkedStep, ScanTypesStep, JobTypesStep, RowTypesStep DEF ListenerTypes

\* The tables, the services' fields and the callbacks keep their types.
THEOREM ListenerTypesHold == Spec => []TypeOK
<1>1. ListenerTypes => TypeOK
  BY DEF ListenerTypes, Linked, WellLinked, ScanTypes, JobTypes, RowTypes,
         TypeOK
<1> QED BY <1>1, TypesInit, TypesStep, PTL DEF Spec

-----------------------------------------------------------------------------
(* Nothing is skipped.                                                     *)

\* A job that is past createTransaction has stored its row.
Stored ==
    \A p \in Success :
        jobs[p]["apply"] > 0 \/ jobs[p]["remove"] > 0 => rows[p] > 0

OnTheWay(p) ==
    \/ looking[p] > 0
    \/ p \in Cached
    \/ \E s \in JobSteps : jobs[p][s] > 0
    \/ rows[p] > 0

\* Nothing up to block b has been lost.
ScannedTo(b) ==
    \A p \in Success \cap open :
        FirstBlock <= BlockOf[p] /\ BlockOf[p] <= b => OnTheWay(p)

\* As far as a scan has come, and as far as syncBlock says it has.
Scanned ==
    faults = 0 => /\ syncBlock > FirstBlock => ScannedTo(syncBlock)
                  /\ scan = "fetch" => ScannedTo(block - 1)
                  /\ scan = "sync" => ScannedTo(block)

\* Without its token the listener never scans.
Unfound == ~found => scan = "idle" /\ syncBlock = FirstBlock

SkipInv == ListenerTypes /\ Stored /\ Scanned /\ Unfound

\* Initially no job runs and no block is scanned.
LEMMA SkipInit == Init => SkipInv
<1> SUFFICES ASSUME Init PROVE SkipInv
  OBVIOUS
<1>1. Stored
  BY ItemsAssumption DEF Init, Stored, NoJobs, JobSteps
<1>2. Scanned
  BY ThresholdAssumption DEF Init, Scanned
<1>3. Unfound
  BY DEF Init, Unfound
<1> QED BY <1>1, <1>2, <1>3, TypesInit DEF SkipInv

\* What a job's move does to the numbers.
LEMMA AdvanceNumbers ==
    ASSUME JobTypes, NEW p \in Items,
           NEW from \in JobSteps, NEW to \in JobSteps, from # to,
           Advance(p, from, to)
    PROVE  /\ jobs[p][from] > 0
           /\ jobs'[p][to] = jobs[p][to] + 1
           /\ jobs'[p][to] > 0
           /\ \A s \in JobSteps \ {from, to} : jobs'[p][s] = jobs[p][s]
           /\ jobs'[p][from] = jobs[p][from] - 1
           /\ \A q \in Items \ {p} : jobs'[q] = jobs[q]
BY DEF Advance, JobTypes

\* A job gets past createTransaction by storing its row, and rows stay.
LEMMA StoredStep == SkipInv /\ [Next]_vars => Stored'
<1> SUFFICES ASSUME SkipInv, [Next]_vars PROVE Stored'
  OBVIOUS
<1> USE DEF chainVars, scanVars, cacheVars, bookVars
<1>1. /\ Stored /\ JobTypes /\ Linked
      /\ rows \in [Items -> 0 .. MaxRows] /\ Success \subseteq Items
  BY ItemsAssumption DEF SkipInv, ListenerTypes, RowTypes
<1>2. CASE UNCHANGED <<jobs, rows>>
  BY <1>1, <1>2 DEF Stored
<1>3. CASE CheckTxns
  <2>1. jobs' = [p \in Items |->
                   IF DeepEnough(p)
                   THEN [jobs[p] EXCEPT !["receipt"] = @ + Entries(p)]
                   ELSE jobs[p]]
        /\ rows' = rows
    BY <1>3 DEF CheckTxns
  <2>2. \A p \in Items : /\ jobs'[p]["apply"] = jobs[p]["apply"]
                         /\ jobs'[p]["remove"] = jobs[p]["remove"]
    BY <1>1, <2>1 DEF JobTypes, JobSteps
  <2> QED BY <1>1, <2>1, <2>2 DEF Stored
<1>4. ASSUME NEW p \in Items, JobStep(p) PROVE Stored'
  <2> SUFFICES ASSUME NEW q \in Success,
                      jobs'[q]["apply"] > 0 \/ jobs'[q]["remove"] > 0
               PROVE  rows'[q] > 0
    BY DEF Stored
  <2>1. CASE GetReceipt(p)
    <3>1. Advance(p, "receipt", IF p \in Success THEN "create" ELSE "remove")
      BY <2>1 DEF GetReceipt
    <3>2. rows' = rows
      BY <2>1 DEF GetReceipt
    <3>3. CASE p = q
      <4>1. /\ jobs'[q]["apply"] = jobs[q]["apply"]
            /\ jobs'[q]["remove"] = jobs[q]["remove"]
        BY <1>1, <3>1, <3>3, AdvanceNumbers DEF JobSteps
      <4> QED BY <1>1, <3>2, <4>1 DEF Stored
    <3>4. CASE p # q
      <4>1. jobs'[q] = jobs[q]
        <5>1. (IF p \in Success THEN "create" ELSE "remove")
                 \in JobSteps \ {"receipt"}
          BY DEF JobSteps
        <5> QED BY <1>1, <3>1, <3>4, <5>1, AdvanceNumbers DEF JobSteps
      <4> QED BY <1>1, <3>2, <4>1 DEF Stored
    <3> QED BY <3>3, <3>4
  <2>2. CASE CreateTransaction(p)
    <3>1. Advance(p, "create", "apply")
      BY <2>2 DEF CreateTransaction
    <3>2. rows' = [rows EXCEPT ![p] = Min({MaxRows, @ + 1})]
      BY <2>2 DEF CreateTransaction
    <3>3. CASE p = q
      <4>1. Min({MaxRows, rows[p] + 1}) > 0
        BY <1>1, BoundAssumption, MinOfTwo
      <4> QED BY <1>1, <3>2, <3>3, <4>1
    <3>4. CASE p # q
      <4>1. jobs'[q] = jobs[q] /\ rows'[q] = rows[q]
        BY <1>1, <3>1, <3>2, <3>4, AdvanceNumbers DEF JobSteps
      <4> QED BY <1>1, <4>1 DEF Stored
    <3> QED BY <3>3, <3>4
  <2>3. CASE UpdatePaymentStatus(p)
    <3>1. Advance(p, "apply", "remove") /\ rows' = rows
      BY <2>3 DEF UpdatePaymentStatus
    <3>2. CASE p = q
      <4>1. jobs[q]["apply"] > 0
        BY <1>1, <3>1, <3>2, AdvanceNumbers DEF JobSteps
      <4> QED BY <3>1, <4>1, <1>1 DEF Stored
    <3>3. CASE p # q
      <4>1. jobs'[q] = jobs[q]
        BY <1>1, <3>1, <3>3, AdvanceNumbers DEF JobSteps
      <4> QED BY <1>1, <3>1, <4>1 DEF Stored
    <3> QED BY <3>2, <3>3
  <2>4. CASE RemoveFromCache(p)
    <3>1. /\ rows' = rows
          /\ jobs[p]["remove"] > 0
          /\ jobs' = [jobs EXCEPT ![p]["remove"] = @ - 1]
      BY <2>4 DEF RemoveFromCache
    <3>2. /\ jobs'[q]["apply"] = jobs[q]["apply"]
          /\ jobs'[q]["remove"] > 0 => jobs[q]["remove"] > 0
      BY <1>1, <3>1 DEF JobTypes, JobSteps
    <3> QED BY <1>1, <3>1, <3>2 DEF Stored
  <2> QED BY <1>4, <2>1, <2>2, <2>3, <2>4 DEF JobStep
<1>5. CASE Restart \/ RunSyncThrows
  BY <1>1, <1>5
     DEF Restart, RunSyncThrows, LoseMemory, NoJobs, Stored, JobSteps
<1>6. CASE \/ Mine \/ RunSync \/ FetchBlock \/ UpdateTokenSync \/ EndSync
           \/ SkipBlock \/ GetBlockNumber \/ UNCHANGED vars
  <2>1. UNCHANGED <<jobs, rows>>
    BY <1>6 DEF Mine, RunSync, FetchBlock, UpdateTokenSync, EndSync,
                SkipBlock, GetBlockNumber, vars
  <2> QED BY <1>2, <2>1
<1>7. ASSUME NEW p \in Items,
             Settle(p) \/ CheckAddress(p) \/ CheckAddressFails(p)
      PROVE  Stored'
  <2>1. UNCHANGED <<jobs, rows>>
    BY <1>7 DEF Settle, CheckAddress, CheckAddressFails
  <2> QED BY <1>2, <2>1
<1> QED BY <1>3, <1>4, <1>5, <1>6, <1>7 DEF Next, ScanStep, CacheStep

\* Without its token, the scan stays where it is.
LEMMA UnfoundStep == SkipInv /\ [Next]_vars => Unfound'
<1> SUFFICES ASSUME SkipInv, [Next]_vars PROVE Unfound'
  OBVIOUS
<1> USE DEF chainVars, scanVars
<1>1. Unfound
  BY DEF SkipInv
<1>2. CASE RunSync \/ FetchBlock \/ UpdateTokenSync \/ EndSync \/ SkipBlock
  <2>1. found' = found /\ found
    BY <1>1, <1>2
       DEF RunSync, FetchBlock, UpdateTokenSync, EndSync, SkipBlock, Unfound
  <2> QED BY <2>1 DEF Unfound
<1>3. CASE RunSyncThrows \/ Restart
  <2>1. UNCHANGED <<found, syncBlock>> /\ scan' = "idle"
    BY <1>3 DEF RunSyncThrows, Restart, LoseMemory
  <2> QED BY <1>1, <2>1 DEF Unfound
<1>4. CASE UNCHANGED <<found, scan, syncBlock>>
  BY <1>1, <1>4 DEF Unfound
<1>5. CASE Mine \/ CacheStep \/ UNCHANGED vars
  <2>1. UNCHANGED <<found, scan, syncBlock>>
    BY <1>5 DEF Mine, CacheStep, GetBlockNumber, CheckTxns, vars
  <2> QED BY <1>4, <2>1
<1>6. ASSUME NEW p \in Items,
             \/ Settle(p) \/ CheckAddress(p) \/ CheckAddressFails(p)
             \/ JobStep(p)
      PROVE  Unfound'
  <2>1. UNCHANGED <<found, scan, syncBlock>>
    BY <1>6 DEF Settle, CheckAddress, CheckAddressFails, JobStep, GetReceipt,
                CreateTransaction, UpdatePaymentStatus, RemoveFromCache
  <2> QED BY <1>4, <2>1
<1> QED BY <1>2, <1>3, <1>5, <1>6 DEF Next, ScanStep

\* While nothing fails, no step loses a transfer that is still awaited.
LEMMA OnTheWayStep ==
    ASSUME SkipInv, [Next]_vars, faults' = 0, ~RunSyncThrows,
           NEW p \in Success \cap open', OnTheWay(p)
    PROVE  OnTheWay(p)'
<1> USE DEF chainVars, scanVars, cacheVars, bookVars
<1>1. /\ Stored /\ JobTypes /\ Linked /\ p \in Items /\ p \in Success
      /\ rows \in [Items -> 0 .. MaxRows] /\ looking \in [Items -> Nat]
      /\ faults \in Nat
  BY ItemsAssumption, BoundAssumption
     DEF SkipInv, ListenerTypes, RowTypes, ScanTypes
<1>2. CASE UNCHANGED <<looking, txns, jobs, rows>>
  BY <1>2 DEF OnTheWay, Cached
<1>3. CASE FetchBlock
  <2>1. looking' = [q \in Items |->
                      looking[q] + (IF BlockOf[q] = block THEN 1 ELSE 0)]
        /\ UNCHANGED <<txns, jobs, rows>>
    BY <1>3 DEF FetchBlock
  <2>2. looking'[p] >= looking[p] /\ looking'[p] \in Nat
    BY <1>1, <2>1
  <2> QED BY <1>1, <2>1, <2>2 DEF OnTheWay, Cached
<1>4. CASE CheckTxns
  <2>1. jobs' = [q \in Items |->
                   IF DeepEnough(q)
                   THEN [jobs[q] EXCEPT !["receipt"] = @ + Entries(q)]
                   ELSE jobs[q]]
        /\ UNCHANGED <<looking, txns, rows>>
    BY <1>4 DEF CheckTxns
  <2>2. \A s \in JobSteps : jobs[p][s] > 0 => jobs'[p][s] > 0
    BY <1>1, <2>1, EntriesNat DEF JobTypes, JobSteps
  <2> QED BY <2>1, <2>2 DEF OnTheWay, Cached
<1>5. ASSUME NEW q \in Items, CheckAddress(q) PROVE OnTheWay(p)'
  <2>1. /\ looking' = [looking EXCEPT ![q] = @ - 1]
        /\ UNCHANGED <<jobs, rows, open>>
    BY <1>5 DEF CheckAddress
  <2>2. Cached \subseteq Cached' /\ (q \in open => q \in Cached')
    <3>1. CASE q \in open
      <4>1. PICK n \in Nodes \ Allocated(txns) :
               txns' = InsertInBegin(txns, n, q)
        BY <1>5, <3>1 DEF CheckAddress
      <4> QED BY <1>1, <4>1, CachedOnCheck
    <3>2. CASE q \notin open
      BY <1>5, <3>2 DEF CheckAddress, Cached
    <3> QED BY <3>1, <3>2
  <2>3. CASE p = q
    BY <2>1, <2>2, <2>3 DEF OnTheWay
  <2>4. CASE p # q
    <3>1. looking'[p] = looking[p]
      BY <1>1, <2>1, <2>4
    <3> QED BY <2>1, <2>2, <3>1 DEF OnTheWay
  <2> QED BY <2>3, <2>4
<1>6. ASSUME NEW q \in Items, JobStep(q) PROVE OnTheWay(p)'
  <2>1. CASE GetReceipt(q)
    <3>1. Advance(q, "receipt", IF q \in Success THEN "create" ELSE "remove")
      BY <2>1 DEF GetReceipt
    <3>2. UNCHANGED <<looking, txns, rows>>
      BY <2>1 DEF GetReceipt
    <3>3. CASE p = q
      <4>1. jobs'[p]["create"] > 0
        BY <1>1, <3>1, <3>3, AdvanceNumbers DEF JobSteps
      <4> QED BY <4>1 DEF OnTheWay, JobSteps
    <3>4. CASE p # q
      <4>1. jobs'[p] = jobs[p]
        <5>1. (IF q \in Success THEN "create" ELSE "remove")
                 \in JobSteps \ {"receipt"}
          BY DEF JobSteps
        <5> QED BY <1>1, <3>1, <3>4, <5>1, AdvanceNumbers DEF JobSteps
      <4> QED BY <3>2, <4>1 DEF OnTheWay, Cached
    <3> QED BY <3>3, <3>4
  <2>2. CASE CreateTransaction(q)
    <3>1. Advance(q, "create", "apply") /\ UNCHANGED <<looking, txns>>
      BY <2>2 DEF CreateTransaction
    <3>2. rows' = [rows EXCEPT ![q] = Min({MaxRows, @ + 1})]
      BY <2>2 DEF CreateTransaction
    <3>3. CASE p = q
      <4>1. Min({MaxRows, rows[p] + 1}) > 0
        BY <1>1, BoundAssumption, MinOfTwo
      <4>2. rows'[p] > 0
        BY <1>1, <3>2, <3>3, <4>1
      <4> QED BY <4>2 DEF OnTheWay
    <3>4. CASE p # q
      <4>1. jobs'[p] = jobs[p] /\ rows'[p] = rows[p]
        BY <1>1, <3>1, <3>2, <3>4, AdvanceNumbers DEF JobSteps
      <4> QED BY <3>1, <4>1 DEF OnTheWay, Cached
    <3> QED BY <3>3, <3>4
  <2>3. CASE UpdatePaymentStatus(q)
    <3>1. /\ Advance(q, "apply", "remove")
          /\ UNCHANGED <<looking, txns, rows>>
      BY <2>3 DEF UpdatePaymentStatus
    <3>2. CASE p = q
      <4>1. jobs'[p]["remove"] > 0
        BY <1>1, <3>1, <3>2, AdvanceNumbers DEF JobSteps
      <4> QED BY <4>1 DEF OnTheWay, JobSteps
    <3>3. CASE p # q
      <4>1. jobs'[p] = jobs[p]
        BY <1>1, <3>1, <3>3, AdvanceNumbers DEF JobSteps
      <4> QED BY <3>1, <4>1 DEF OnTheWay, Cached
    <3> QED BY <3>2, <3>3
  <2>4. CASE RemoveFromCache(q)
    <3>1. /\ UNCHANGED <<looking, rows>>
          /\ jobs[q]["remove"] > 0
          /\ jobs' = [jobs EXCEPT ![q]["remove"] = @ - 1]
          /\ txns' = DeleteByData(txns, {q})
      BY <2>4 DEF RemoveFromCache
    <3>2. CASE p = q
      <4>1. rows'[p] > 0
        BY <1>1, <3>1, <3>2 DEF Stored
      <4> QED BY <4>1 DEF OnTheWay
    <3>3. CASE p # q
      <4>1. jobs'[p] = jobs[p]
        BY <1>1, <3>1, <3>3 DEF JobTypes
      <4>2. p \in Cached => p \in Cached'
        BY <1>1, <3>1, <3>3, CachedOnRemove
      <4> QED BY <3>1, <4>1, <4>2 DEF OnTheWay
    <3> QED BY <3>2, <3>3
  <2> QED BY <1>6, <2>1, <2>2, <2>3, <2>4 DEF JobStep
<1>7. CASE \/ Mine \/ RunSync \/ UpdateTokenSync \/ EndSync \/ GetBlockNumber
           \/ UNCHANGED vars
  <2>1. UNCHANGED <<looking, txns, jobs, rows>>
    BY <1>7 DEF Mine, RunSync, UpdateTokenSync, EndSync, GetBlockNumber, vars
  <2> QED BY <1>2, <2>1
<1>8. ASSUME NEW q \in Items, Settle(q) PROVE OnTheWay(p)'
  <2>1. UNCHANGED <<looking, txns, jobs, rows>>
    BY <1>8 DEF Settle
  <2> QED BY <1>2, <2>1
<1>9. ~ SkipBlock /\ ~ Restart /\ \A q \in Items : ~ CheckAddressFails(q)
  BY <1>1 DEF SkipBlock, Restart, CheckAddressFails
<1> QED BY <1>3, <1>4, <1>5, <1>6, <1>7, <1>8, <1>9
        DEF Next, ScanStep, CacheStep

\* So what was scanned stays scanned.
LEMMA ScannedToStep ==
    ASSUME SkipInv, [Next]_vars, faults' = 0, ~RunSyncThrows,
           NEW b, ScannedTo(b)
    PROVE  \A p \in Success \cap open' :
              FirstBlock <= BlockOf[p] /\ BlockOf[p] <= b => OnTheWay(p)'
<1>1. open' \subseteq open
  BY DEF Next, Mine, ScanStep, RunSync, FetchBlock, UpdateTokenSync, EndSync,
         LoseMemory, SkipBlock, CacheStep, GetBlockNumber, CheckTxns, Settle,
         CheckAddress, CheckAddressFails, JobStep, GetReceipt,
         CreateTransaction, UpdatePaymentStatus, RemoveFromCache, Restart,
         vars, chainVars, scanVars, cacheVars, bookVars
<1> QED BY <1>1, OnTheWayStep DEF ScannedTo

\* The scan moves on only from a block whose transfers it handed over.
LEMMA ScannedStep == SkipInv /\ [Next]_vars => Scanned'
<1> SUFFICES ASSUME SkipInv, [Next]_vars, faults' = 0
             PROVE  /\ syncBlock' > FirstBlock => ScannedTo(syncBlock)'
                    /\ scan' = "fetch" => ScannedTo(block - 1)'
                    /\ scan' = "sync" => ScannedTo(block)'
  BY DEF Scanned
<1>0. CASE RunSyncThrows
  <2>1. scan' = "idle" /\ syncBlock' = syncBlock /\ syncBlock = FirstBlock
    BY <1>0 DEF RunSyncThrows, LoseMemory, SkipInv, Unfound
  <2> QED BY <2>1, ThresholdAssumption
<1> SUFFICES ASSUME ~RunSyncThrows
             PROVE  /\ syncBlock' > FirstBlock => ScannedTo(syncBlock)'
                    /\ scan' = "fetch" => ScannedTo(block - 1)'
                    /\ scan' = "sync" => ScannedTo(block)'
  BY <1>0
<1> USE DEF chainVars, scanVars, cacheVars, bookVars
<1>1. /\ faults \in Nat /\ block \in Nat /\ syncBlock \in Nat
      /\ looking \in [Items -> Nat] /\ Success \subseteq Items
      /\ BlockOf \in [Items -> Nat] /\ FirstBlock \in Nat
  BY ItemsAssumption, ThresholdAssumption, BoundAssumption
     DEF SkipInv, ListenerTypes, ScanTypes
<1>2. ~ SkipBlock /\ ~ Restart /\ \A q \in Items : ~ CheckAddressFails(q)
  BY <1>1 DEF SkipBlock, Restart, CheckAddressFails
<1>3. faults = 0
  <2>1. ASSUME faults' = faults PROVE faults = 0
    BY <2>1
  <2>2. faults' = faults
    BY <1>2 DEF Next, Mine, ScanStep, RunSync, FetchBlock, UpdateTokenSync,
                EndSync, CacheStep, GetBlockNumber, CheckTxns, Settle,
                CheckAddress, JobStep, GetReceipt, CreateTransaction,
                UpdatePaymentStatus, RemoveFromCache, vars
  <2> QED BY <2>1, <2>2
<1>4. /\ syncBlock > FirstBlock => ScannedTo(syncBlock)
      /\ scan = "fetch" => ScannedTo(block - 1)
      /\ scan = "sync" => ScannedTo(block)
  BY <1>3 DEF SkipInv, Scanned
<1>5. ASSUME NEW b, ScannedTo(b)
      PROVE  \A p \in Success \cap open' :
                FirstBlock <= BlockOf[p] /\ BlockOf[p] <= b => OnTheWay(p)'
  BY <1>5, ScannedToStep
<1>6. syncBlock > FirstBlock =>
         \A p \in Success \cap open' :
            FirstBlock <= BlockOf[p] /\ BlockOf[p] <= syncBlock
               => OnTheWay(p)'
  BY <1>4, <1>5
<1>7. CASE UNCHANGED <<syncBlock, scan, block>>
  BY <1>4, <1>5, <1>7 DEF ScannedTo
<1>8. CASE RunSync
  <2>1. block' = syncBlock /\ syncBlock' = syncBlock /\ scan' = "fetch"
    BY <1>8 DEF RunSync, ScanFrom
  <2>2. \A p \in Success \cap open' :
           FirstBlock <= BlockOf[p] /\ BlockOf[p] <= syncBlock - 1
              => OnTheWay(p)'
    BY <1>1, <1>6
  <2> QED BY <1>6, <2>1, <2>2 DEF ScannedTo
<1>9. CASE FetchBlock
  <2>1. /\ block' = block /\ syncBlock' = syncBlock
        /\ scan = "fetch" /\ scan' = "sync"
        /\ looking' = [q \in Items |->
                         looking[q] + (IF BlockOf[q] = block THEN 1 ELSE 0)]
    BY <1>9 DEF FetchBlock
  <2>2. \A p \in Success : BlockOf[p] = block => OnTheWay(p)'
    BY <1>1, <2>1 DEF OnTheWay
  <2>3. \A p \in Success \cap open' :
           FirstBlock <= BlockOf[p] /\ BlockOf[p] <= block - 1
              => OnTheWay(p)'
    BY <1>4, <1>5, <2>1
  <2>4. \A p \in Success \cap open' :
           FirstBlock <= BlockOf[p] /\ BlockOf[p] <= block => OnTheWay(p)'
    BY <1>1, <2>2, <2>3
  <2> QED BY <1>6, <2>1, <2>4 DEF ScannedTo
<1>10. CASE UpdateTokenSync
  <2>1. /\ scan = "sync" /\ scan' = "fetch"
        /\ syncBlock' = block /\ block' = block + 1
    BY <1>10 DEF UpdateTokenSync
  <2>2. \A p \in Success \cap open' :
           FirstBlock <= BlockOf[p] /\ BlockOf[p] <= block => OnTheWay(p)'
    BY <1>4, <1>5, <2>1
  <2>3. block' - 1 = block
    BY <1>1, <2>1
  <2> QED BY <2>1, <2>2, <2>3 DEF ScannedTo
<1>11. CASE EndSync
  <2>1. scan' = "idle" /\ syncBlock' = syncBlock
    BY <1>11 DEF EndSync
  <2> QED BY <1>6, <2>1 DEF ScannedTo
<1>12. CASE Mine \/ CacheStep \/ UNCHANGED vars
  <2>1. UNCHANGED <<syncBlock, scan, block>>
    BY <1>12 DEF Mine, CacheStep, GetBlockNumber, CheckTxns, vars
  <2> QED BY <1>7, <2>1
<1>13. ASSUME NEW p \in Items, Settle(p) \/ CheckAddress(p) \/ JobStep(p)
       PROVE  UNCHANGED <<syncBlock, scan, block>>
  BY <1>13 DEF Settle, CheckAddress, JobStep, GetReceipt, CreateTransaction,
               UpdatePaymentStatus, RemoveFromCache
<1> QED BY <1>2, <1>7, <1>8, <1>9, <1>10, <1>11, <1>12, <1>13
        DEF Next, ScanStep

\* Every step keeps the invariant.
LEMMA SkipStep == SkipInv /\ [Next]_vars => SkipInv'
BY TypesStep, StoredStep, ScannedStep, UnfoundStep DEF SkipInv

\* A transfer some step of which has a job is in flight.
LEMMA InFlightIs ==
    ASSUME JobTypes, NEW p \in Items, NEW s \in JobSteps, jobs[p][s] > 0
    PROVE  InFlight(p) > 0
<1> DEFINE f == jobs[p]
<1>1. IsFiniteSet(JobSteps)
  <2>1. \A x : IsFiniteSet({x})
    BY FS_Singleton
  <2>2. IsFiniteSet({"receipt"} \cup {"create"})
    BY <2>1, FS_Union
  <2>3. IsFiniteSet({"apply"} \cup {"remove"})
    BY <2>1, FS_Union
  <2>4. IsFiniteSet(({"receipt"} \cup {"create"})
                       \cup ({"apply"} \cup {"remove"}))
    BY <2>2, <2>3, FS_Union
  <2>5. JobSteps = ({"receipt"} \cup {"create"})
                      \cup ({"apply"} \cup {"remove"})
    BY DEF JobSteps
  <2> QED BY <2>4, <2>5
<1>2. \A x \in JobSteps : f[x] \in Nat
  BY DEF JobTypes
<1>3. FunSum(f, JobSteps) = f[s] + FunSum(f, JobSteps \ {s})
  BY <1>1, <1>2, SumRemove
<1>4. FunSum(f, JobSteps \ {s}) \in Nat
  <2>1. IsFiniteSet(JobSteps \ {s})
    BY <1>1, FS_RemoveElement
  <2> QED BY <1>2, <2>1, SumNat
<1>5. InFlight(p) = FunSum(f, JobSteps)
  BY DEF InFlight, FunSum
<1> HIDE DEF f
<1>6. f[s] \in Nat /\ f[s] > 0
  BY <1>2 DEF f
<1> QED BY <1>3, <1>4, <1>5, <1>6

\* While nothing fails, every successful transfer in a block syncBlock has
\* passed, to an address that still awaits one, is with some callback, in the
\* cache, or stored, however the scan, the cache and its rounds interleave.
THEOREM NothingIsSkipped == Spec => []NothingSkipped
<1>1. SkipInv => NothingSkipped
  <2> SUFFICES ASSUME SkipInv, NEW p \in Success \cap open,
                      faults = 0, syncBlock > FirstBlock,
                      BlockOf[p] \in FirstBlock .. syncBlock
               PROVE  looking[p] > 0 \/ p \in Cached \/ InFlight(p) > 0
                                     \/ rows[p] > 0
    BY DEF NothingSkipped
  <2>1. OnTheWay(p)
    BY DEF SkipInv, Scanned, ScannedTo
  <2>2. JobTypes /\ p \in Items
    BY ItemsAssumption DEF SkipInv, ListenerTypes
  <2> QED BY <2>1, <2>2, InFlightIs DEF OnTheWay
<1> QED BY <1>1, SkipInit, SkipStep, PTL DEF Spec

=============================================================================
