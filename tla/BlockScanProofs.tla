--------------------------- MODULE BlockScanProofs ---------------------------
(***************************************************************************)
(* For any chain, tokens and batch sizes, and whatever fails: syncBlock of *)
(* a token never passes a transfer that no callback was started for.       *)
(***************************************************************************)
EXTENDS BlockScan, TLAPS

\* Every transfer of token k up to block b was handed to a callback.
Covered(k, b) ==
    \A t \in OnChain[kind] :
        TokenOf[t] = k /\ FirstBlock < BlockOf[t] /\ BlockOf[t] <= b
            => t \in handed

\* Block numbers are numbers, and a round that works on a token has one.
NumbersOK ==
    /\ kind \in Kinds
    /\ height \in Nat /\ seen \in Nat
    /\ sync \in [Tokens -> Nat]
    /\ base \in [Tokens -> Nat]
    /\ writes \in [0 .. MaxHeight -> Nat]
    /\ pc \in {"query", "save", "block"} => at \in Tokens
    /\ pc = "block" => kind # "token"

\* What is stored, what a round has read and what an update in flight will
\* store covers the transfers; the block listeners, which give all tokens one
\* sync block, cover those of every token.
StoredCovered ==
    /\ \A k \in Tokens : Covered(k, sync[k])
    /\ kind # "token" => \A j, k \in Tokens : Covered(k, sync[j])

ReadCovered ==
    /\ \A k \in Tokens : Covered(k, base[k])
    /\ kind # "token" => \A j, k \in Tokens : Covered(k, base[j])

SentCovered ==
    \A b \in 0 .. MaxHeight, k \in Tokens : writes[b] # 0 => Covered(k, b)

\* The token listener stores the end of its range after handing it over.
RangeCovered == pc = "save" => Covered(at, LastTokenBlock)

ScanInv ==
    NumbersOK /\ StoredCovered /\ ReadCovered /\ SentCovered /\ RangeCovered

-----------------------------------------------------------------------------
\* Nothing lies between the first sync block and itself.
LEMMA NothingToCover ==
    ASSUME NEW k, NEW b \in Nat, b <= FirstBlock, kind \in Kinds
    PROVE  Covered(k, b)
  BY TransferAssumption, BlockAssumption DEF Covered

\* Callbacks are only ever added, so what is covered stays covered.
LEMMA CoveredStays ==
    ASSUME NEW k, NEW b, kind' = kind, handed \subseteq handed', Covered(k, b)
    PROVE  Covered(k, b)'
  BY DEF Covered

\* Initially no block after the first is synchronised.
LEMMA ScanInit == Init => ScanInv
<1> SUFFICES ASSUME Init PROVE ScanInv OBVIOUS
<1>1. /\ sync = [k \in Tokens |-> FirstBlock] /\ base = [k \in Tokens |-> 0]
      /\ writes = [b \in 0 .. MaxHeight |-> 0] /\ pc = "timer"
      /\ height = FirstBlock /\ seen = 0 /\ kind \in Kinds
  BY DEF Init, NoBase, NoWrites
<1>2. FirstBlock \in Nat BY BlockAssumption
<1>3. NumbersOK BY <1>1, <1>2 DEF NumbersOK
<1>4. \A j, k \in Tokens : Covered(k, sync[j]) /\ Covered(k, base[j])
  BY <1>1, <1>2, NothingToCover
<1>5. StoredCovered /\ ReadCovered
  BY <1>4 DEF StoredCovered, ReadCovered
<1>6. SentCovered /\ RangeCovered
  BY <1>1 DEF SentCovered, RangeCovered
<1> QED BY <1>3, <1>5, <1>6 DEF ScanInv

-----------------------------------------------------------------------------
\* A step that hands nothing over, stores no sync block and sends no update:
\* the round keeps the blocks it has read, reads the stored ones or ends.
LEMMA QuietStep ==
    ASSUME ScanInv, NumbersOK', UNCHANGED <<kind, sync, handed>>,
           \A b \in 0 .. MaxHeight : writes'[b] # 0 => writes[b] # 0,
           base' \in {base, sync, NoBase},
           pc' = "save" => UNCHANGED <<pc, base, at, seen>>
    PROVE  ScanInv'
<1>1. StoredCovered'
  BY CoveredStays DEF ScanInv, StoredCovered
<1>2. ReadCovered'
  <2>1. CASE base' = base
    BY <2>1, CoveredStays DEF ScanInv, ReadCovered
  <2>2. CASE base' = sync
    BY <2>2, CoveredStays DEF ScanInv, StoredCovered, ReadCovered
  <2>3. CASE base' = NoBase
    <3>1. 0 \in Nat /\ 0 <= FirstBlock BY BlockAssumption
    <3>2. \A k \in Tokens : Covered(k, 0)
      BY <3>1, NothingToCover DEF ScanInv, NumbersOK
    <3>3. \A j, k \in Tokens : base'[j] = 0 /\ Covered(k, 0)'
      BY <2>3, <3>2, CoveredStays DEF NoBase
    <3> QED BY <3>3 DEF ReadCovered, Covered
  <2> QED BY <2>1, <2>2, <2>3
<1>3. SentCovered'
  BY CoveredStays DEF ScanInv, SentCovered
<1>4. RangeCovered'
  BY CoveredStays DEF ScanInv, RangeCovered, LastTokenBlock, Covered
<1> QED BY <1>1, <1>2, <1>3, <1>4 DEF ScanInv

\* GetPastEvents covers the range from the block it has read to its end.
LEMMA QueryStep == ScanInv /\ GetPastEvents => ScanInv'
<1> SUFFICES ASSUME ScanInv, GetPastEvents PROVE ScanInv' OBVIOUS
<1>1. /\ pc = "query" /\ kind = "token" /\ pc' = "save"
      /\ UNCHANGED <<kind, height, sync, base, seen, at, writes>>
      /\ handed' = handed \cup
             {t \in OnChain[kind] :
                TokenOf[t] = at /\ BlockOf[t] \in base[at] .. LastTokenBlock}
  BY DEF GetPastEvents, HandOver, chainVars
<1>2. NumbersOK BY DEF ScanInv
<1>3. NumbersOK' BY <1>1, <1>2 DEF NumbersOK
<1>4. handed \subseteq handed' BY <1>1
<1>5. StoredCovered' /\ ReadCovered' /\ SentCovered'
  BY <1>1, <1>4, CoveredStays
     DEF ScanInv, StoredCovered, ReadCovered, SentCovered
<1>6. RangeCovered'
  <2>1. at \in Tokens /\ base[at] \in Nat BY <1>1, <1>2 DEF NumbersOK
  <2>2. LastTokenBlock \in Nat
    BY <1>2, <2>1, BlockAssumption DEF LastTokenBlock, NumbersOK
  <2>3. Covered(at, base[at]) BY <2>1 DEF ScanInv, ReadCovered
  <2>4. ASSUME NEW t \in OnChain[kind], TokenOf[t] = at,
               FirstBlock < BlockOf[t], BlockOf[t] <= LastTokenBlock
        PROVE  t \in handed'
    <3>1. BlockOf[t] \in Nat BY <1>2, TransferAssumption DEF NumbersOK
    <3>2. CASE BlockOf[t] <= base[at]
      BY <1>1, <2>3, <2>4, <3>2 DEF Covered
    <3>3. CASE ~(BlockOf[t] <= base[at])
      <4>1. BlockOf[t] \in base[at] .. LastTokenBlock
        BY <2>1, <2>2, <2>4, <3>1, <3>3
      <4> QED BY <1>1, <2>4, <4>1
    <3> QED BY <3>2, <3>3
  <2>5. LastTokenBlock' = LastTokenBlock /\ at' = at
    BY <1>1 DEF LastTokenBlock
  <2> QED BY <1>1, <2>4, <2>5 DEF RangeCovered, Covered
<1> QED BY <1>3, <1>5, <1>6 DEF ScanInv

\* UpdateTokenSync stores the end of a range that was handed over.
LEMMA SaveStep == ScanInv /\ UpdateTokenSync => ScanInv'
<1> SUFFICES ASSUME ScanInv, UpdateTokenSync PROVE ScanInv' OBVIOUS
<1>1. /\ pc = "save" /\ kind = "token" /\ pc' = "loop"
      /\ sync' = [sync EXCEPT ![at] = LastTokenBlock]
      /\ UNCHANGED <<kind, height, base, seen, at, writes, handed>>
  BY DEF UpdateTokenSync, chainVars
<1>2. NumbersOK /\ at \in Tokens BY <1>1 DEF ScanInv, NumbersOK
<1>3. LastTokenBlock \in Nat
  BY <1>2, BlockAssumption DEF LastTokenBlock, NumbersOK
<1>4. NumbersOK' BY <1>1, <1>2, <1>3 DEF NumbersOK
<1>5. ASSUME NEW k \in Tokens PROVE Covered(k, sync[k])'
  <2>1. CASE k = at
    <3>1. Covered(k, LastTokenBlock) BY <1>1, <2>1 DEF ScanInv, RangeCovered
    <3>2. sync'[k] = LastTokenBlock BY <1>1, <1>2, <2>1 DEF NumbersOK
    <3> QED BY <1>1, <3>1, <3>2 DEF Covered
  <2>2. CASE k # at
    <3>1. sync'[k] = sync[k] BY <1>1, <1>2, <2>2 DEF NumbersOK
    <3> QED BY <1>1, <3>1 DEF ScanInv, StoredCovered, Covered
  <2> QED BY <2>1, <2>2
<1>6. StoredCovered' BY <1>1, <1>5 DEF StoredCovered, Covered
<1>7. ReadCovered' /\ SentCovered'
  BY <1>1, CoveredStays DEF ScanInv, ReadCovered, SentCovered
<1>8. RangeCovered' BY <1>1 DEF RangeCovered
<1> QED BY <1>4, <1>6, <1>7, <1>8 DEF ScanInv

\* FetchBlock sends the number of the block it hands over, one past the blocks
\* that the tokens, which share their sync block, have covered.
LEMMA FetchStep == ScanInv /\ FetchBlock => ScanInv'
<1> SUFFICES ASSUME ScanInv, FetchBlock PROVE ScanInv' OBVIOUS
<1>1. /\ pc = "block" /\ pc' = "timer"
      /\ UNCHANGED <<kind, height, sync>>
      /\ base' = NoBase
      /\ seen' \in {seen, 0}
      /\ writes' = [writes EXCEPT ![NextBlock] = @ + 1]
      /\ handed' = handed \cup {t \in OnChain[kind] : BlockOf[t] = NextBlock}
  BY DEF FetchBlock, HandOver, EndRound, chainVars
<1>2. NumbersOK /\ at \in Tokens /\ kind # "token"
  BY <1>1 DEF ScanInv, NumbersOK
<1>3. base[at] \in Nat /\ NextBlock = base[at] + 1
  BY <1>2 DEF NumbersOK, NextBlock
<1>4. NumbersOK'
  <2>1. NoBase \in [Tokens -> Nat] BY DEF NoBase
  <2>2. writes \in [0 .. MaxHeight -> Nat] BY <1>2 DEF NumbersOK
  <2>3. writes' = [b \in 0 .. MaxHeight |->
                     IF b = NextBlock THEN writes[b] + 1 ELSE writes[b]]
    BY <1>1, <2>2
  <2>4. \A b \in 0 .. MaxHeight : writes[b] \in Nat BY <2>2
  <2>5. writes' \in [0 .. MaxHeight -> Nat] BY <2>3, <2>4
  <2> QED BY <1>1, <1>2, <2>1, <2>5 DEF NumbersOK
<1>5. handed \subseteq handed' BY <1>1
<1>6. StoredCovered' BY <1>1, <1>5, CoveredStays DEF ScanInv, StoredCovered
<1>7. ReadCovered'
  <2>1. 0 \in Nat /\ 0 <= FirstBlock BY BlockAssumption
  <2>2. \A j, k \in Tokens : base'[j] = 0 /\ Covered(k, 0)'
    BY <1>1, <1>2, <1>5, <2>1, NothingToCover, CoveredStays
       DEF NoBase, NumbersOK
  <2> QED BY <2>2 DEF ReadCovered, Covered
<1>8. SentCovered'
  <2> SUFFICES ASSUME NEW b \in 0 .. MaxHeight, NEW k \in Tokens,
                      writes'[b] # 0
               PROVE  Covered(k, b)'
    BY DEF SentCovered
  <2>1. CASE b = NextBlock
    <3>1. Covered(k, base[at]) BY <1>2 DEF ScanInv, ReadCovered
    <3>2. ASSUME NEW t \in OnChain[kind], TokenOf[t] = k,
                 FirstBlock < BlockOf[t], BlockOf[t] <= b
          PROVE  t \in handed'
      <4>1. BlockOf[t] \in Nat BY <1>2, TransferAssumption DEF NumbersOK
      <4>2. CASE BlockOf[t] <= base[at]
        BY <1>5, <3>1, <3>2, <4>2 DEF Covered
      <4>3. CASE ~(BlockOf[t] <= base[at])
        <5>1. BlockOf[t] = NextBlock BY <1>3, <2>1, <3>2, <4>1, <4>3
        <5> QED BY <1>1, <5>1
      <4> QED BY <4>2, <4>3
    <3> QED BY <1>1, <3>2 DEF Covered
  <2>2. CASE b # NextBlock
    <3>1. writes'[b] = writes[b] BY <1>1, <1>2, <2>2 DEF NumbersOK
    <3>2. writes[b] # 0 BY <3>1
    <3>3. Covered(k, b) BY <3>2 DEF ScanInv, SentCovered
    <3> QED BY <1>1, <1>5, <3>3, CoveredStays
  <2> QED BY <2>1, <2>2
<1>9. RangeCovered' BY <1>1 DEF RangeCovered
<1> QED BY <1>4, <1>6, <1>7, <1>8, <1>9 DEF ScanInv

\* An update that lands, however late, stores a covered block.
LEMMA LandStep ==
    ASSUME ScanInv, NEW b \in 0 .. MaxHeight, UpdateTokenSyncByNetwork(b)
    PROVE  ScanInv'
<1>1. /\ writes[b] > 0
      /\ writes' = [writes EXCEPT ![b] = @ - 1]
      /\ sync' = [k \in Tokens |-> b]
      /\ UNCHANGED <<kind, height, pc, base, seen, at, handed>>
  BY DEF UpdateTokenSyncByNetwork, chainVars
<1>2. NumbersOK BY DEF ScanInv
<1>3. b \in Nat /\ writes[b] \in Nat /\ writes[b] # 0
  BY <1>1, <1>2, BlockAssumption DEF NumbersOK
<1>4. writes' \in [0 .. MaxHeight -> Nat] BY <1>1, <1>2, <1>3 DEF NumbersOK
<1>5. NumbersOK' BY <1>1, <1>2, <1>3, <1>4 DEF NumbersOK
<1>6. \A k \in Tokens : Covered(k, b)'
  BY <1>1, <1>3, CoveredStays DEF ScanInv, SentCovered
<1>7. StoredCovered' BY <1>1, <1>6 DEF StoredCovered, Covered
<1>8. ReadCovered' BY <1>1, CoveredStays DEF ScanInv, ReadCovered
<1>9. SentCovered'
  <2>1. \A c \in 0 .. MaxHeight : writes'[c] # 0 => writes[c] # 0
    BY <1>1, <1>2, <1>3 DEF NumbersOK
  <2> QED BY <1>1, <2>1, CoveredStays DEF ScanInv, SentCovered
<1>10. RangeCovered'
  BY <1>1 DEF ScanInv, RangeCovered, LastTokenBlock, Covered
<1> QED BY <1>5, <1>7, <1>8, <1>9, <1>10 DEF ScanInv

-----------------------------------------------------------------------------
\* Of the updates in flight, those that survive the process are some of them.
LEMMA MemoryLost ==
    ASSUME LoseMemory, writes \in [0 .. MaxHeight -> Nat]
    PROVE  /\ writes' \in [0 .. MaxHeight -> Nat]
           /\ \A b \in 0 .. MaxHeight : writes'[b] # 0 => writes[b] # 0
<1>1. PICK kept \in [{b \in DOMAIN writes : writes[b] > 0} -> 0 .. MaxWrites] :
             writes' = [b \in DOMAIN writes |->
                          IF b \in DOMAIN kept THEN kept[b] ELSE 0]
  BY DEF LoseMemory
<1>2. \A b \in DOMAIN kept : kept[b] \in Nat /\ writes[b] > 0
  BY <1>1, BoundAssumption
<1>3. DOMAIN writes = 0 .. MaxHeight
  OBVIOUS
<1> QED BY <1>1, <1>2, <1>3

\* Every step keeps the invariant.
LEMMA ScanStep == ScanInv /\ [Next]_vars => ScanInv'
<1> SUFFICES ASSUME ScanInv, [Next]_vars PROVE ScanInv' OBVIOUS
<1> USE DEF chainVars, bookVars
<1>n. NumbersOK BY DEF ScanInv
<1>b. NoBase \in [Tokens -> Nat] /\ NoWrites \in [0 .. MaxHeight -> Nat]
  BY DEF NoBase, NoWrites
<1>1. CASE Mine
  <2>1. NumbersOK' BY <1>1, <1>n DEF Mine, NumbersOK
  <2> QED BY <1>1, <2>1, QuietStep DEF Mine
<1>2. CASE FindTokens \/ GetBlockNumber \/ EndLoop
  <2>1. NumbersOK'
    BY <1>2, <1>n, <1>b
       DEF FindTokens, GetBlockNumber, EndLoop, EndRound, NumbersOK
  <2> QED BY <1>2, <2>1, QuietStep
          DEF FindTokens, GetBlockNumber, EndLoop, EndRound
<1>3. ASSUME NEW k \in Tokens, NextToken(k) PROVE ScanInv'
  <2>1. NumbersOK' BY <1>3, <1>n DEF NextToken, NumbersOK
  <2> QED BY <1>3, <2>1, QuietStep DEF NextToken
<1>4. CASE GetLatestBlock \/ FindToken \/ FindTronTokens \/ GetCurrentBlock
  <2>1. NumbersOK'
    BY <1>4, <1>n, <1>b
       DEF GetLatestBlock, FindToken, FindTronTokens, GetCurrentBlock,
           EndRound, NumbersOK
  <2> QED BY <1>4, <2>1, QuietStep
          DEF GetLatestBlock, FindToken, FindTronTokens, GetCurrentBlock,
              EndRound
<1>5. CASE RoundFault
  <2>1. NumbersOK'
    BY <1>5, <1>n, <1>b
       DEF RoundFault, GetBlockNumberFails, TokenLoopFails, RoundFails,
           EndRound, NumbersOK
  <2> QED BY <1>5, <2>1, QuietStep
          DEF RoundFault, GetBlockNumberFails, TokenLoopFails, RoundFails,
              EndRound
<1>6. ASSUME NEW t \in Transfers, Settle(t) \/ JobStep(t) \/ CreateFails(t)
      PROVE  ScanInv'
  <2>1. UNCHANGED <<kind, height, sync, pc, base, seen, at, writes, handed>>
    BY <1>6 DEF Settle, JobStep, CheckAddress, CreateTransaction,
                UpdatePaymentStatus, CreateFails
  <2>2. NumbersOK' BY <1>n, <2>1 DEF NumbersOK
  <2> QED BY <2>1, <2>2, QuietStep
<1>7. CASE Restart \/ FetchEmptyBlock
  <2>1. LoseMemory
    BY <1>7 DEF Restart, FetchEmptyBlock
  <2>2. /\ writes' \in [0 .. MaxHeight -> Nat]
        /\ \A b \in 0 .. MaxHeight : writes'[b] # 0 => writes[b] # 0
    BY <2>1, <1>n, MemoryLost DEF NumbersOK
  <2>3. /\ UNCHANGED <<kind, height, sync, handed>>
        /\ pc' = "timer" /\ base' = NoBase /\ seen' = 0
    BY <2>1 DEF LoseMemory
  <2>4. NumbersOK' BY <2>2, <2>3, <1>n, <1>b DEF NumbersOK
  <2> QED BY <2>2, <2>3, <2>4, QuietStep
<1>8. CASE UNCHANGED vars
  <2>1. NumbersOK' BY <1>8, <1>n DEF vars, NumbersOK
  <2> QED BY <1>8, <2>1, QuietStep DEF vars
<1> QED BY <1>1, <1>2, <1>3, <1>4, <1>5, <1>6, <1>7, <1>8,
           QueryStep, SaveStep, FetchStep, LandStep
        DEF Next, TokenStep, BlockStep

\* Whatever batch sizes, failures, restarts and late updates there are, no
\* listener's syncBlock moves past a transfer it did not hand to a callback.
THEOREM NeverSkips == Spec => []NothingSkipped
<1>1. ScanInv => NothingSkipped
  BY TransferAssumption
     DEF ScanInv, NumbersOK, StoredCovered, Covered, NothingSkipped
<1> QED BY <1>1, ScanInit, ScanStep, PTL DEF Spec

-----------------------------------------------------------------------------
\* A round that queries or saves is at a token, or the range it works on would
\* have no first block.
TypeInv == TypeOK /\ (pc \in {"query", "save"} => at \in Tokens)

\* What a round does not use between rounds has its type when it is cleared.
LEMMA ClearedTyped ==
    /\ NoBase \in [Tokens -> 0 .. MaxHeight]
    /\ NoWrites \in [0 .. MaxHeight -> Nat]
    /\ NoJobs \in [Transfers -> [JobSteps -> Nat]]
    /\ 0 \in 0 .. MaxHeight
  BY BlockAssumption DEF NoBase, NoWrites, NoJobs

\* The range of a query ends at a block the chain has.
LEMMA RangeOnChain ==
    ASSUME TypeInv, pc \in {"query", "save"}
    PROVE  LastTokenBlock \in 0 .. MaxHeight
<1>1. base[at] \in 0 .. MaxHeight /\ seen \in 0 .. MaxHeight
  BY DEF TypeInv, TypeOK
<1> QED BY <1>1, BlockAssumption DEF LastTokenBlock

\* Handing transfers over adds callbacks, and counts them.
LEMMA HandOverTyped ==
    ASSUME NEW S \in SUBSET Transfers, HandOver(S), TypeOK
    PROVE  /\ handed' \in SUBSET Transfers
           /\ jobs' \in [Transfers -> [JobSteps -> Nat]]
  BY DEF HandOver, TypeOK, JobSteps

\* Initially every field has its type.
LEMMA TypeInit == Init => TypeInv
<1> SUFFICES ASSUME Init PROVE TypeInv OBVIOUS
<1>1. FirstBlock \in 0 .. MaxHeight /\ FirstBlock \in FirstBlock .. MaxHeight
  BY BlockAssumption
<1>2. 0 \in 0 .. MaxFaults BY BoundAssumption
<1>3. open \in SUBSET Transfers /\ empty \in SUBSET EmptyBlocks
  BY TransferAssumption DEF Init
<1> QED BY <1>1, <1>2, <1>3, ClearedTyped DEF Init, TypeInv, TypeOK, RoundStages

\* A callback's step moves a count, adds a row or counts a call.
LEMMA JobTyped ==
    ASSUME TypeInv, NEW t \in Transfers, JobStep(t) \/ CreateFails(t)
    PROVE  TypeInv'
<1> USE DEF chainVars, bookVars
<1>t. TypeOK BY DEF TypeInv
<1>j. /\ jobs \in [Transfers -> [JobSteps -> Nat]]
      /\ JobSteps = {"check", "create", "apply"}
  BY <1>t DEF TypeOK, JobSteps
<1>l. kind \in Kinds /\ LogId(t) \in LogIds
  BY <1>t, TransferAssumption DEF TypeOK, LogId
<1>1. CASE CheckAddress(t)
  <2>1. jobs' \in [Transfers -> [JobSteps -> Nat]]
    BY <1>1, <1>j DEF CheckAddress
  <2> QED BY <1>1, <2>1 DEF CheckAddress, TypeInv, TypeOK
<1>2. CASE CreateTransaction(t)
  <2>1. jobs' \in [Transfers -> [JobSteps -> Nat]]
    BY <1>2, <1>j DEF CreateTransaction
  <2>2. rows' \in SUBSET LogIds
    BY <1>2, <1>l, <1>t DEF CreateTransaction, TypeOK
  <2> QED BY <1>2, <2>1, <2>2 DEF CreateTransaction, TypeInv, TypeOK
<1>3. CASE UpdatePaymentStatus(t)
  <2>1. jobs' \in [Transfers -> [JobSteps -> Nat]]
    BY <1>3, <1>j DEF UpdatePaymentStatus
  <2>2. applied' \in [LogIds -> Nat]
    BY <1>3, <1>l, <1>t DEF UpdatePaymentStatus, TypeOK
  <2> QED BY <1>3, <2>1, <2>2 DEF UpdatePaymentStatus, TypeInv, TypeOK
<1>4. CASE CreateFails(t)
  <2>1. jobs' \in [Transfers -> [JobSteps -> Nat]]
    BY <1>4, <1>j DEF CreateFails
  <2>2. faults' \in 0 .. MaxFaults
    BY <1>4, <1>t, BoundAssumption DEF CreateFails, TypeOK
  <2> QED BY <1>4, <2>1, <2>2 DEF CreateFails, TypeInv, TypeOK
<1> QED BY <1>1, <1>2, <1>3, <1>4 DEF JobStep

\* What is left when the process ends has its type.
LEMMA MemoryLostTyped ==
    ASSUME TypeInv, LoseMemory, faults' \in 0 .. MaxFaults
    PROVE  TypeInv'
<1>1. writes' \in [0 .. MaxHeight -> Nat]
  BY MemoryLost DEF TypeInv, TypeOK
<1>2. /\ UNCHANGED <<kind, height, open, empty, sync, handed, rows, applied>>
      /\ pc' = "timer" /\ base' = NoBase /\ todo' = {} /\ at' = NoToken
      /\ seen' = 0 /\ cached' = {} /\ jobs' = NoJobs
  BY DEF LoseMemory, chainVars, bookVars
<1> QED BY <1>1, <1>2, ClearedTyped DEF TypeInv, TypeOK, RoundStages

\* A round's step, whichever listener it is.
LEMMA RoundTyped ==
    ASSUME TypeInv, TokenStep \/ BlockStep
    PROVE  TypeInv'
<1> USE DEF chainVars, bookVars
<1>t. TypeOK BY DEF TypeInv
<1>h. height \in 0 .. MaxHeight BY <1>t, BlockAssumption DEF TypeOK
<1>1. CASE FindTokens \/ GetBlockNumber \/ EndLoop
  BY <1>1, <1>h, ClearedTyped
     DEF FindTokens, GetBlockNumber, EndLoop, EndRound, TypeInv, TypeOK,
         RoundStages
<1>2. ASSUME NEW k \in Tokens, NextToken(k) PROVE TypeInv'
  BY <1>2 DEF NextToken, TypeInv, TypeOK, RoundStages
<1>c. OnChain[kind] \subseteq Transfers
  BY <1>t, TransferAssumption DEF TypeOK
<1>3. CASE GetPastEvents
  <2>1. /\ handed' \in SUBSET Transfers
        /\ jobs' \in [Transfers -> [JobSteps -> Nat]]
    BY <1>3, <1>t, <1>c, HandOverTyped DEF GetPastEvents
  <2> QED BY <1>3, <2>1 DEF GetPastEvents, TypeInv, TypeOK, RoundStages
<1>4. CASE UpdateTokenSync
  <2>1. LastTokenBlock \in 0 .. MaxHeight
    BY <1>4, RangeOnChain DEF UpdateTokenSync
  <2>2. sync' \in [Tokens -> 0 .. MaxHeight]
    BY <1>4, <1>t, <2>1 DEF UpdateTokenSync, TypeOK
  <2> QED BY <1>4, <2>2 DEF UpdateTokenSync, TypeInv, TypeOK, RoundStages
<1>5. CASE GetLatestBlock \/ FindToken \/ FindTronTokens \/ GetCurrentBlock
  BY <1>5, <1>h, ClearedTyped
     DEF GetLatestBlock, FindToken, FindTronTokens, GetCurrentBlock,
         EndRound, TypeInv, TypeOK, RoundStages
<1>6. CASE FetchBlock
  <2>1. /\ handed' \in SUBSET Transfers
        /\ jobs' \in [Transfers -> [JobSteps -> Nat]]
    BY <1>6, <1>t, <1>c, HandOverTyped DEF FetchBlock
  <2>2. writes' \in [0 .. MaxHeight -> Nat]
    <3>1. writes \in [0 .. MaxHeight -> Nat] BY <1>t DEF TypeOK
    <3>2. writes' = [b \in 0 .. MaxHeight |->
                       IF b = NextBlock THEN writes[b] + 1 ELSE writes[b]]
      BY <1>6, <3>1 DEF FetchBlock
    <3>3. \A b \in 0 .. MaxHeight : writes[b] \in Nat BY <3>1
    <3> QED BY <3>2, <3>3
  <2>3. cached' \in SUBSET (0 .. MaxHeight)
    BY <1>6, <1>t DEF FetchBlock, TypeOK
  <2> QED BY <1>6, <2>1, <2>2, <2>3, ClearedTyped
          DEF FetchBlock, EndRound, TypeInv, TypeOK, RoundStages
<1>7. CASE FetchEmptyBlock
  <2>1. LoseMemory /\ faults' \in 0 .. MaxFaults
    BY <1>7, <1>t DEF FetchEmptyBlock, TypeOK
  <2> QED BY <2>1, MemoryLostTyped
<1> QED BY <1>1, <1>2, <1>3, <1>4, <1>5, <1>6, <1>7 DEF TokenStep, BlockStep

\* Every step keeps the types.
LEMMA TypeStep == TypeInv /\ [Next]_vars => TypeInv'
<1> SUFFICES ASSUME TypeInv, [Next]_vars PROVE TypeInv' OBVIOUS
<1> USE DEF chainVars, bookVars
<1>t. TypeOK BY DEF TypeInv
<1>1. CASE Mine
  <2>1. height' \in FirstBlock .. MaxHeight
    BY <1>1, <1>t, BlockAssumption DEF Mine, TypeOK
  <2> QED BY <1>1, <2>1 DEF Mine, TypeInv, TypeOK
<1>2. CASE RoundFault
  <2>1. faults' \in 0 .. MaxFaults
    BY <1>2, <1>t, BoundAssumption
       DEF RoundFault, GetBlockNumberFails, TokenLoopFails, RoundFails, TypeOK
  <2> QED BY <1>2, <2>1, ClearedTyped
          DEF RoundFault, GetBlockNumberFails, TokenLoopFails, RoundFails,
              EndRound, TypeInv, TypeOK, RoundStages
<1>3. ASSUME NEW b \in 0 .. MaxHeight, UpdateTokenSyncByNetwork(b)
      PROVE  TypeInv'
  <2>1. writes' \in [0 .. MaxHeight -> Nat]
    BY <1>3, <1>t DEF UpdateTokenSyncByNetwork, TypeOK
  <2>2. sync' \in [Tokens -> 0 .. MaxHeight]
    BY <1>3 DEF UpdateTokenSyncByNetwork
  <2> QED BY <1>3, <2>1, <2>2 DEF UpdateTokenSyncByNetwork, TypeInv, TypeOK
<1>4. ASSUME NEW t \in Transfers, Settle(t) PROVE TypeInv'
  BY <1>4 DEF Settle, TypeInv, TypeOK
<1>5. CASE Restart
  <2>1. faults' \in 0 .. MaxFaults
    BY <1>5, <1>t, BoundAssumption DEF Restart, TypeOK
  <2> QED BY <1>5, <2>1, MemoryLostTyped DEF Restart
<1>6. CASE UNCHANGED vars
  BY <1>6 DEF vars, TypeInv, TypeOK
<1> QED BY <1>1, <1>2, <1>3, <1>4, <1>5, <1>6, JobTyped, RoundTyped DEF Next

\* Every column, field and count of the three listeners has its type: no range
\* of a query ends past the chain, whatever the batch sizes.
THEOREM TypeCorrect == Spec => []TypeOK
<1>1. TypeInv => TypeOK BY DEF TypeInv
<1> QED BY <1>1, TypeInit, TypeStep, PTL DEF Spec

-----------------------------------------------------------------------------
(* The block listeners implement TransferLedger: however often a block is  *)
(* scanned and whatever fails, a log id is stored once and its payment     *)
(* applied at most once.                                                   *)

\* A callback stands between the insert of transfer t and its application.
ToApply(t) == jobs[t]["apply"] > 0

\* Such a callback is the only one of its log id, which is stored and not
\* applied yet: the unique column lets one insert of a log id through.
ToApplyOK ==
    /\ \A t \in Transfers :
          ToApply(t) => /\ jobs[t]["apply"] = 1
                        /\ LogId(t) \in rows
                        /\ applied[LogId(t)] = 0
    /\ \A t, u \in Transfers :
          ToApply(t) /\ ToApply(u) /\ LogId(t) = LogId(u) => t = u

AppliedOK == \A l \in LogIds : applied[l] # 0 => l \in rows /\ applied[l] = 1

LedgerInv == TypeInv /\ ToApplyOK /\ AppliedOK

InHand(l) == \E t \in Transfers : LogId(t) = l /\ ToApply(t)

FateOfIds == [l \in LogIds |->
                IF applied[l] > 1 THEN "overpaid"
                ELSE IF applied[l] = 1 THEN "credited"
                ELSE IF l \notin rows THEN "unseen"
                ELSE IF InHand(l) THEN "stored" ELSE "lost"]

-----------------------------------------------------------------------------
\* What a callback's step reads and counts has its type.
LEMMA BookTypes ==
    ASSUME TypeInv
    PROVE  /\ jobs \in [Transfers -> [JobSteps -> Nat]]
           /\ JobSteps = {"check", "create", "apply"}
           /\ applied \in [LogIds -> Nat]
           /\ \A t \in Transfers : LogId(t) \in LogIds
<1>1. kind \in Kinds /\ applied \in [LogIds -> Nat]
  BY DEF TypeInv, TypeOK
<1>2. jobs \in [Transfers -> [JobSteps -> Nat]] BY DEF TypeInv, TypeOK
<1>3. \A t \in Transfers : LogId(t) \in LogIds
  BY <1>1, TransferAssumption DEF LogId
<1> QED BY <1>1, <1>2, <1>3 DEF JobSteps

\* The fate of a log id, read off what is in hand, before and after a step.
LEMMA FateOf == Fate = FateOfIds /\ Fate' = FateOfIds'
  BY DEF Fate, FateOfIds, InHand, ToApply

\* Initially nothing is stored, applied or in hand.
LEMMA LedgerInit == Init => LedgerInv /\ Ledger!Init
<1> SUFFICES ASSUME Init PROVE LedgerInv /\ Ledger!Init OBVIOUS
<1>1. /\ rows = {} /\ applied = [l \in LogIds |-> 0]
      /\ \A t \in Transfers : jobs[t]["apply"] = 0
  BY DEF Init, NoJobs, JobSteps
<1>2. LedgerInv
  BY <1>1, TypeInit DEF LedgerInv, ToApplyOK, ToApply, AppliedOK
<1>3. Fate = [l \in LogIds |-> "unseen"] BY <1>1, FateOf DEF FateOfIds
<1> QED BY <1>2, <1>3 DEF Ledger!Init

\* A step that stores and applies nothing leaves every fate as it is.
LEMMA FatesStay ==
    ASSUME LedgerInv, TypeInv', UNCHANGED <<kind, rows, applied>>,
           \A t \in Transfers : jobs'[t]["apply"] = jobs[t]["apply"]
    PROVE  LedgerInv' /\ Fate' = Fate
<1>1. \A t \in Transfers : ToApply(t)' = ToApply(t) /\ LogId(t)' = LogId(t)
  BY DEF ToApply, LogId
<1>2. ToApplyOK' BY <1>1 DEF LedgerInv, ToApplyOK
<1>3. AppliedOK' BY DEF LedgerInv, AppliedOK
<1>4. Fate' = Fate BY DEF Fate, LogId
<1> QED BY <1>2, <1>3, <1>4 DEF LedgerInv

\* Handing transfers over starts callbacks at their first step only.
LEMMA HandOverAppliesNothing ==
    ASSUME NEW S, HandOver(S), TypeInv
    PROVE  \A t \in Transfers : jobs'[t]["apply"] = jobs[t]["apply"]
  BY DEF HandOver, TypeInv, TypeOK, JobSteps

-----------------------------------------------------------------------------
\* The insert stores a log id that was unseen, or is refused.
LEMMA CreateStep ==
    ASSUME LedgerInv, TypeInv', NEW t \in Transfers, CreateTransaction(t)
    PROVE  LedgerInv' /\ [Ledger!Next]_Fate
<1>t. /\ jobs \in [Transfers -> [JobSteps -> Nat]]
      /\ JobSteps = {"check", "create", "apply"}
      /\ LogId(t) \in LogIds
  BY BookTypes DEF LedgerInv
<1>k. UNCHANGED <<kind, applied>> BY DEF CreateTransaction, chainVars
<1>1. CASE DuplicateLogId(t)
  <2>1. \A u \in Transfers : jobs'[u]["apply"] = jobs[u]["apply"]
    BY <1>1, <1>t DEF CreateTransaction
  <2> QED BY <1>1, <1>k, <2>1, FatesStay DEF CreateTransaction
<1>2. CASE ~ DuplicateLogId(t)
  <2> PICK l \in LogIds : l = LogId(t) BY <1>t
  <2>1. l \notin rows /\ rows' = rows \cup {l}
    BY <1>2 DEF CreateTransaction, DuplicateLogId
  <2>2. ~ InHand(l) /\ applied[l] = 0
    BY <1>t, <2>1 DEF LedgerInv, ToApplyOK, AppliedOK, InHand
  <2>3. jobs[t]["apply"] = 0
    BY <1>t, <2>2 DEF InHand, ToApply
  <2>4. \A u \in Transfers : jobs'[u]["apply"] =
                                IF u = t THEN 1 ELSE jobs[u]["apply"]
    BY <1>2, <1>t, <2>3 DEF CreateTransaction
  <2>5. \A u \in Transfers : /\ LogId(u)' = LogId(u)
                             /\ ToApply(u)' <=> u = t \/ ToApply(u)
    BY <1>k, <2>4 DEF ToApply, LogId
  <2>6. ToApplyOK'
    <3>1. ASSUME NEW u \in Transfers, ToApply(u)'
          PROVE  (jobs[u]["apply"] = 1 /\ LogId(u) \in rows
                                       /\ applied[LogId(u)] = 0)'
      BY <1>k, <2>1, <2>2, <2>4, <2>5, <3>1 DEF LedgerInv, ToApplyOK
    <3>2. ASSUME NEW u \in Transfers, NEW v \in Transfers,
                 ToApply(u)', ToApply(v)', LogId(u)' = LogId(v)'
          PROVE  u = v
      BY <2>2, <2>5, <3>2 DEF LedgerInv, ToApplyOK, InHand
    <3> QED BY <3>1, <3>2 DEF ToApplyOK
  <2>7. LedgerInv'
    BY <1>k, <2>1, <2>6 DEF LedgerInv, AppliedOK
  <2>8. \A m \in LogIds : InHand(m)' <=> m = l \/ InHand(m)
    BY <2>5 DEF InHand
  <2>9. Fate[l] = "unseen" /\ Fate' = [Fate EXCEPT ![l] = "stored"]
    BY <1>t, <1>k, <2>1, <2>2, <2>8, FateOf DEF FateOfIds
  <2>10. Ledger!Store(l) BY <2>9 DEF Ledger!Store
  <2> QED BY <1>t, <2>7, <2>10 DEF Ledger!Next
<1> QED BY <1>1, <1>2

\* The one callback that stored a log id applies its payment.
LEMMA ApplyStep ==
    ASSUME LedgerInv, TypeInv', NEW t \in Transfers, UpdatePaymentStatus(t)
    PROVE  LedgerInv' /\ [Ledger!Next]_Fate
<1>t. /\ jobs \in [Transfers -> [JobSteps -> Nat]]
      /\ JobSteps = {"check", "create", "apply"}
      /\ applied \in [LogIds -> Nat]
      /\ \A u \in Transfers : LogId(u) \in LogIds
  BY BookTypes DEF LedgerInv
<1> PICK l \in LogIds : l = LogId(t) BY <1>t
<1>1. UNCHANGED <<kind, rows>> /\ ToApply(t)
  BY <1>t DEF UpdatePaymentStatus, chainVars, ToApply
<1>2. jobs[t]["apply"] = 1 /\ l \in rows /\ applied[l] = 0
  BY <1>1 DEF LedgerInv, ToApplyOK
<1>3. \A u \in Transfers : jobs'[u]["apply"] =
                              IF u = t THEN 0 ELSE jobs[u]["apply"]
  BY <1>t, <1>2 DEF UpdatePaymentStatus
<1>4. \A m \in LogIds : applied'[m] = IF m = l THEN 1 ELSE applied[m]
  BY <1>t, <1>2 DEF UpdatePaymentStatus
<1>5. \A u \in Transfers : /\ LogId(u)' = LogId(u)
                           /\ ToApply(u)' <=> u # t /\ ToApply(u)
  BY <1>1, <1>3 DEF ToApply, LogId
<1>6. \A u \in Transfers : ToApply(u) /\ LogId(u) = l => u = t
  BY <1>1 DEF LedgerInv, ToApplyOK
<1>7. ToApplyOK'
  <2>1. ASSUME NEW u \in Transfers, ToApply(u)'
        PROVE  (jobs[u]["apply"] = 1 /\ LogId(u) \in rows
                                     /\ applied[LogId(u)] = 0)'
    BY <1>1, <1>3, <1>4, <1>5, <1>6, <1>t, <2>1 DEF LedgerInv, ToApplyOK
  <2>2. ASSUME NEW u \in Transfers, NEW v \in Transfers,
               ToApply(u)', ToApply(v)', LogId(u)' = LogId(v)'
        PROVE  u = v
    BY <1>5, <2>2 DEF LedgerInv, ToApplyOK
  <2> QED BY <2>1, <2>2 DEF ToApplyOK
<1>8. LedgerInv'
  <2>1. AppliedOK' BY <1>1, <1>2, <1>4 DEF LedgerInv, AppliedOK
  <2> QED BY <1>7, <2>1 DEF LedgerInv
<1>9. \A m \in LogIds \ {l} : InHand(m)' <=> InHand(m)
  BY <1>5 DEF InHand
<1>10. InHand(l) BY <1>1 DEF InHand
<1>11. Fate[l] = "stored" /\ Fate' = [Fate EXCEPT ![l] = "credited"]
  BY <1>t, <1>1, <1>2, <1>4, <1>9, <1>10, FateOf DEF FateOfIds
<1>12. Ledger!Credit(l) BY <1>11 DEF Ledger!Credit
<1> QED BY <1>t, <1>8, <1>12 DEF Ledger!Next

\* The end of the process abandons what was stored and not applied.
LEMMA MemoryLostStep ==
    ASSUME LedgerInv, TypeInv', LoseMemory
    PROVE  LedgerInv' /\ [Ledger!Next]_Fate
<1>1. /\ UNCHANGED <<kind, rows, applied>>
      /\ \A t \in Transfers : ~ ToApply(t)'
  BY DEF LoseMemory, chainVars, bookVars, NoJobs, JobSteps, ToApply
<1>2. LedgerInv' BY <1>1 DEF LedgerInv, ToApplyOK, AppliedOK
<1>3. \A m \in LogIds : ~ InHand(m)' BY <1>1 DEF InHand
<1> DEFINE S == {m \in LogIds : Fate[m] = "stored"}
<1>4. Fate' = [m \in LogIds |-> IF m \in S THEN "lost" ELSE Fate[m]]
  BY <1>1, <1>3, FateOf DEF FateOfIds
<1>5. Ledger!Abandon(S) BY <1>4 DEF Ledger!Abandon
<1> QED BY <1>2, <1>5 DEF Ledger!Next

-----------------------------------------------------------------------------
\* Every step keeps the invariant and maps to a step of the ledger or none.
LEMMA LedgerStep ==
    LedgerInv /\ [Next]_vars => LedgerInv' /\ [Ledger!Next]_Fate
<1> SUFFICES ASSUME LedgerInv, [Next]_vars
             PROVE  LedgerInv' /\ [Ledger!Next]_Fate
  OBVIOUS
<1> USE DEF chainVars, bookVars
<1>t. TypeInv /\ TypeInv' BY TypeStep DEF LedgerInv
<1>j. /\ jobs \in [Transfers -> [JobSteps -> Nat]]
      /\ JobSteps = {"check", "create", "apply"}
  BY <1>t, BookTypes
<1>1. CASE UNCHANGED <<kind, rows, applied, jobs>>
  BY <1>1, <1>t, FatesStay
<1>2. CASE GetPastEvents \/ FetchBlock
  <2>1. \A t \in Transfers : jobs'[t]["apply"] = jobs[t]["apply"]
    BY <1>2, <1>t, HandOverAppliesNothing DEF GetPastEvents, FetchBlock
  <2> QED BY <1>2, <1>t, <2>1, FatesStay DEF GetPastEvents, FetchBlock
<1>3. ASSUME NEW t \in Transfers, CheckAddress(t) \/ CreateFails(t)
      PROVE  LedgerInv' /\ [Ledger!Next]_Fate
  <2>1. \A u \in Transfers : jobs'[u]["apply"] = jobs[u]["apply"]
    BY <1>3, <1>j DEF CheckAddress, CreateFails
  <2> QED BY <1>3, <1>t, <2>1, FatesStay DEF CheckAddress, CreateFails
<1>4. ASSUME NEW t \in Transfers, CreateTransaction(t)
      PROVE  LedgerInv' /\ [Ledger!Next]_Fate
  BY <1>4, <1>t, CreateStep
<1>5. ASSUME NEW t \in Transfers, UpdatePaymentStatus(t)
      PROVE  LedgerInv' /\ [Ledger!Next]_Fate
  BY <1>5, <1>t, ApplyStep
<1>6. CASE Restart \/ FetchEmptyBlock
  BY <1>6, <1>t, MemoryLostStep DEF Restart, FetchEmptyBlock
<1>7. CASE Mine \/ RoundFault \/ UNCHANGED vars
  BY <1>1, <1>7
     DEF Mine, RoundFault, GetBlockNumberFails, TokenLoopFails, RoundFails,
         vars
<1>8. CASE FindTokens \/ GetBlockNumber \/ UpdateTokenSync \/ EndLoop
  BY <1>1, <1>8 DEF FindTokens, GetBlockNumber, UpdateTokenSync, EndLoop
<1>9. ASSUME NEW k \in Tokens, NextToken(k)
      PROVE  LedgerInv' /\ [Ledger!Next]_Fate
  BY <1>1, <1>9 DEF NextToken
<1>10. CASE GetLatestBlock \/ FindToken \/ FindTronTokens \/ GetCurrentBlock
  BY <1>1, <1>10
     DEF GetLatestBlock, FindToken, FindTronTokens, GetCurrentBlock
<1>11. ASSUME NEW b \in 0 .. MaxHeight, UpdateTokenSyncByNetwork(b)
       PROVE  LedgerInv' /\ [Ledger!Next]_Fate
  BY <1>1, <1>11 DEF UpdateTokenSyncByNetwork
<1>12. ASSUME NEW t \in Transfers, Settle(t)
       PROVE  LedgerInv' /\ [Ledger!Next]_Fate
  BY <1>1, <1>12 DEF Settle
<1> QED BY <1>2, <1>3, <1>4, <1>5, <1>6, <1>7, <1>8, <1>9, <1>10, <1>11, <1>12
        DEF Next, TokenStep, BlockStep, JobStep

\* However often a block is scanned and whatever fails, a log id is stored
\* once, and its payment is then applied once or lost with its process.
THEOREM ScanLedgerImplemented == Spec => ImplementsLedger
<1>1. Spec => []LedgerInv
  BY LedgerInit, LedgerStep, PTL DEF Spec
<1> QED
  BY <1>1, LedgerInit, LedgerStep, PTL DEF Spec, ImplementsLedger, Ledger!Spec

=============================================================================
