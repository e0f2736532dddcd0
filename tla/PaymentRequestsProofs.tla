------------------------ MODULE PaymentRequestsProofs ------------------------
(***************************************************************************)
(* Proofs about PaymentRequests, for any number of calls, addresses,       *)
(* transfers, callbacks and faults, and for both values of CallerLoaded    *)
(* and SettingLoaded.                                                      *)
(*                                                                         *)
(* The argument: a callback of a listener that got past the insert of its  *)
(* transaction row is the only one that ever will for that transfer (the   *)
(* unique logId), so it alone can credit it; and a request row's status    *)
(* is written only by the call that creates it, once, and by writes of     *)
(* "processed" and "expired" to rows that exist.                           *)
(*                                                                         *)
(* Two sections prove what comments and tests of the code expect and       *)
(* overlapping handlers break, under the condition that they do not        *)
(* overlap there.  The last ones are about amounts, which are sums over    *)
(* sets of transfers.                                                      *)
(***************************************************************************)
EXTENDS PaymentsRefineLedger, SumLemmas, TLAPS

-----------------------------------------------------------------------------
(* Types.  TypeOK is inductive together with what a callback's locals are. *)

LocalsOK ==
    \A w \in Workers :
        wpc[w] # "idle" => wpay[w] \in Payments /\ wreq[w] \in Requests

TypeInv == TypeOK /\ LocalsOK

\* The initial state has its types.
LEMMA TypeInit == Init => TypeInv
  BY BoundsAssumption
  DEF Init, TypeInv, TypeOK, LocalsOK, WorkStages, HttpStages

\* Every action keeps the types.
LEMMA TypeStep == TypeInv /\ [Next]_vars => TypeInv'
  <1> SUFFICES ASSUME TypeInv, [Next]_vars PROVE TypeInv'
    OBVIOUS
  <1> USE DEF httpVars, rowVars, workVars, bookVars, taskVars, WorkStages,
              HttpStages
  <1>1. ASSUME NEW r \in Requests, CheckCaller(r) PROVE TypeInv'
    BY <1>1 DEF CheckCaller, TypeInv, TypeOK, LocalsOK
  <1>2. ASSUME NEW r \in Requests, GetAvailableAddress(r) PROVE TypeInv'
    BY <1>2 DEF GetAvailableAddress, TypeInv, TypeOK, LocalsOK
  <1>3. ASSUME NEW r \in Requests, ReserveAddress(r) PROVE TypeInv'
    BY <1>3 DEF ReserveAddress, TypeInv, TypeOK, LocalsOK
  <1>4. ASSUME NEW r \in Requests, CreatePaymentRequest(r) PROVE TypeInv'
    BY <1>4 DEF CreatePaymentRequest, TypeInv, TypeOK, LocalsOK
  <1>5. ASSUME NEW r \in Requests, RefusePaymentRequest(r) PROVE TypeInv'
    BY <1>5 DEF RefusePaymentRequest, TypeInv, TypeOK, LocalsOK
  <1>6. ASSUME NEW r \in Requests, UndoReservation(r) PROVE TypeInv'
    BY <1>6 DEF UndoReservation, TypeInv, TypeOK, LocalsOK
  <1>7. ASSUME NEW r \in Requests, HttpFails(r) PROVE TypeInv'
    BY <1>7, BoundsAssumption
    DEF HttpFails, TypeInv, TypeOK, LocalsOK
  <1>8. ASSUME NEW p \in Payments, Pay(p) PROVE TypeInv'
    BY <1>8 DEF Pay, Created, TypeInv, TypeOK, LocalsOK
  <1>9. ASSUME NEW w \in Workers, NEW p \in Payments, CheckAddress(w, p)
        PROVE  TypeInv'
    BY <1>9 DEF CheckAddress, Matches, TypeInv, TypeOK, LocalsOK
  <1>10. ASSUME NEW w \in Workers, RecordTransaction(w) PROVE TypeInv'
    BY <1>10
    DEF RecordTransaction, DuplicateLogId, Return, TypeInv, TypeOK, LocalsOK
  <1>11. ASSUME NEW w \in Workers, ReadRequest(w) PROVE TypeInv'
    BY <1>11 DEF ReadRequest, TypeInv, TypeOK, LocalsOK
  <1>12. ASSUME NEW w \in Workers, UpdateRequest(w) PROVE TypeInv'
    BY <1>12, AmountAssumption
    DEF UpdateRequest, NewStatus, NewReceived, Finishes, TypeInv, TypeOK,
        LocalsOK
  <1>13. ASSUME NEW w \in Workers, ReleaseAddress(w) PROVE TypeInv'
    BY <1>13 DEF ReleaseAddress, TypeInv, TypeOK, LocalsOK
  <1>14. ASSUME NEW w \in Workers, SendCallback(w) PROVE TypeInv'
    BY <1>14
    DEF SendCallback, ReportedStatus, Return, Finishes, TypeInv, TypeOK,
        LocalsOK
  <1>15. ASSUME NEW w \in Workers, AddBalance(w) PROVE TypeInv'
    BY <1>15 DEF AddBalance, Return, TypeInv, TypeOK, LocalsOK
  <1>16. ASSUME NEW w \in Workers, WorkerFails(w) PROVE TypeInv'
    BY <1>16, BoundsAssumption
    DEF WorkerFails, Return, TypeInv, TypeOK, LocalsOK
  <1>17. ASSUME NEW r \in Requests, GrowOld(r) PROVE TypeInv'
    BY <1>17 DEF GrowOld, Created, TypeInv, TypeOK, LocalsOK
  <1>18. ASSUME HourlyChecking PROVE TypeInv'
    BY <1>18 DEF HourlyChecking, TypeInv, TypeOK, LocalsOK
  <1>19. ASSUME GetExpired PROVE TypeInv'
    BY <1>19 DEF GetExpired, TypeInv, TypeOK, LocalsOK
  <1>20. ASSUME NEW r \in Requests, ReleaseExpired(r) PROVE TypeInv'
    BY <1>20 DEF ReleaseExpired, TypeInv, TypeOK, LocalsOK
  <1>21. ASSUME ExpireFlag PROVE TypeInv'
    BY <1>21 DEF ExpireFlag, Overdue, TypeInv, TypeOK, LocalsOK
  <1>22. ASSUME Restart PROVE TypeInv'
    BY <1>22, BoundsAssumption
    DEF Restart, TypeInv, TypeOK, LocalsOK
  <1>23. CASE UNCHANGED vars
    BY <1>23 DEF vars, TypeInv, TypeOK, LocalsOK
  <1> QED
    BY <1>1, <1>2, <1>3, <1>4, <1>5, <1>6, <1>7, <1>8, <1>9, <1>10, <1>11,
       <1>12, <1>13, <1>14, <1>15, <1>16, <1>17, <1>18, <1>19, <1>20, <1>21,
       <1>22, <1>23
    DEF Next, HttpStep, WorkerStep, TaskStep, vars

\* The tables and the handlers' locals have their types in every state.
THEOREM TypeCorrect == Spec => []TypeOK
  <1>1. TypeInv => TypeOK
    BY DEF TypeInv
  <1> QED
    BY <1>1, TypeInit, TypeStep, PTL DEF Spec

\* The same for the inductive invariant itself.
LEMMA TypeInvariant == Spec => []TypeInv
  BY TypeInit, TypeStep, PTL DEF Spec

-----------------------------------------------------------------------------
(* Rows.  A call has no row until it is served, only existing rows grow    *)
(* old or are below the expiry task's cut-off, and the request a callback  *)
(* works for exists and is the one its transfer was paid to.               *)

RowOK ==
    /\ \A r \in Requests : hpc[r] # "served" => status[r] = "none"
    /\ old \subseteq Created
    /\ tcut \subseteq Created

WorkOK ==
    \A w \in Workers :
        wpc[w] # "idle" => /\ status[wreq[w]] # "none"
                          /\ paid[wpay[w]] # NoAddress
                          /\ paid[wpay[w]] = holds[wreq[w]]

\* Every action keeps RowOK.
LEMMA RowStep == TypeInv /\ RowOK /\ WorkOK /\ [Next]_vars => RowOK'
  <1> SUFFICES ASSUME TypeInv, RowOK, WorkOK, [Next]_vars PROVE RowOK'
    OBVIOUS
  <1> USE DEF httpVars, rowVars, workVars, bookVars, taskVars
  <1>1. ASSUME NEW r \in Requests, CheckCaller(r) PROVE RowOK'
    BY <1>1 DEF CheckCaller, TypeInv, TypeOK, LocalsOK, RowOK, WorkOK, Created
  <1>2. ASSUME NEW r \in Requests, GetAvailableAddress(r) PROVE RowOK'
    BY <1>2
    DEF GetAvailableAddress, TypeInv, TypeOK, LocalsOK, RowOK, WorkOK, Created
  <1>3. ASSUME NEW r \in Requests, ReserveAddress(r) PROVE RowOK'
    BY <1>3
    DEF ReserveAddress, TypeInv, TypeOK, LocalsOK, RowOK, WorkOK, Created
  <1>4. ASSUME NEW r \in Requests, CreatePaymentRequest(r) PROVE RowOK'
    BY <1>4
    DEF CreatePaymentRequest, TypeInv, TypeOK, LocalsOK, RowOK, WorkOK, Created
  <1>5. ASSUME NEW r \in Requests, RefusePaymentRequest(r) PROVE RowOK'
    BY <1>5
    DEF RefusePaymentRequest, TypeInv, TypeOK, LocalsOK, RowOK, WorkOK, Created
  <1>6. ASSUME NEW r \in Requests, UndoReservation(r) PROVE RowOK'
    BY <1>6
    DEF UndoReservation, TypeInv, TypeOK, LocalsOK, RowOK, WorkOK, Created
  <1>7. ASSUME NEW r \in Requests, HttpFails(r) PROVE RowOK'
    BY <1>7 DEF HttpFails, TypeInv, TypeOK, LocalsOK, RowOK, WorkOK, Created
  <1>8. ASSUME NEW w \in Workers, UpdateRequest(w) PROVE RowOK'
    BY <1>8
    DEF UpdateRequest, Finishes, NewStatus, TypeInv, TypeOK, LocalsOK, RowOK,
        WorkOK, Created
  <1>9. ASSUME NEW r \in Requests, GrowOld(r) PROVE RowOK'
    BY <1>9 DEF GrowOld, TypeInv, TypeOK, LocalsOK, RowOK, WorkOK, Created
  <1>10. ASSUME HourlyChecking PROVE RowOK'
    BY <1>10
    DEF HourlyChecking, TypeInv, TypeOK, LocalsOK, RowOK, WorkOK, Created
  <1>11. ASSUME GetExpired PROVE RowOK'
    BY <1>11 DEF GetExpired, TypeInv, TypeOK, LocalsOK, RowOK, WorkOK, Created
  <1>12. ASSUME ExpireFlag PROVE RowOK'
    BY <1>12
    DEF ExpireFlag, Overdue, TypeInv, TypeOK, LocalsOK, RowOK, WorkOK, Created
  <1>13. ASSUME Restart PROVE RowOK'
    BY <1>13 DEF Restart, TypeInv, TypeOK, LocalsOK, RowOK, WorkOK, Created
  <1>14. CASE UNCHANGED <<hpc, status, old, tcut>>
    BY <1>14 DEF TypeInv, TypeOK, LocalsOK, RowOK, WorkOK, Created
  <1> QED
    BY <1>1, <1>2, <1>3, <1>4, <1>5, <1>6, <1>7, <1>8, <1>9, <1>10, <1>11,
       <1>12, <1>13, <1>14
    DEF Next, HttpStep, WorkerStep, TaskStep, vars, Pay, CheckAddress,
        RecordTransaction, ReadRequest, ReleaseAddress, SendCallback,
        AddBalance, WorkerFails, ReleaseExpired, Return

\* Every action keeps WorkOK.
LEMMA WorkStep == TypeInv /\ RowOK /\ WorkOK /\ [Next]_vars => WorkOK'
  <1> SUFFICES ASSUME TypeInv, RowOK, WorkOK, [Next]_vars PROVE WorkOK'
    OBVIOUS
  <1> USE DEF httpVars, rowVars, workVars, bookVars, taskVars
  <1>1. ASSUME NEW r \in Requests, CreatePaymentRequest(r) PROVE WorkOK'
    BY <1>1 DEF CreatePaymentRequest, TypeInv, TypeOK, LocalsOK, RowOK, WorkOK
  <1>2. ASSUME NEW p \in Payments, Pay(p) PROVE WorkOK'
    BY <1>2 DEF Pay, TypeInv, TypeOK, LocalsOK, RowOK, WorkOK
  <1>3. ASSUME NEW w \in Workers, NEW p \in Payments, CheckAddress(w, p)
        PROVE  WorkOK'
    BY <1>3 DEF CheckAddress, Matches, TypeInv, TypeOK, LocalsOK, RowOK, WorkOK
  <1>4. ASSUME NEW w \in Workers, RecordTransaction(w) PROVE WorkOK'
    BY <1>4
    DEF RecordTransaction, DuplicateLogId, Return, TypeInv, TypeOK, LocalsOK,
        RowOK, WorkOK
  <1>5. ASSUME NEW w \in Workers, ReadRequest(w) PROVE WorkOK'
    BY <1>5 DEF ReadRequest, TypeInv, TypeOK, LocalsOK, RowOK, WorkOK
  <1>6. ASSUME NEW w \in Workers, UpdateRequest(w) PROVE WorkOK'
    BY <1>6
    DEF UpdateRequest, Finishes, NewStatus, TypeInv, TypeOK, LocalsOK, RowOK,
        WorkOK
  <1>7. ASSUME NEW w \in Workers, ReleaseAddress(w) PROVE WorkOK'
    BY <1>7 DEF ReleaseAddress, TypeInv, TypeOK, LocalsOK, RowOK, WorkOK
  <1>8. ASSUME NEW w \in Workers, SendCallback(w) PROVE WorkOK'
    BY <1>8
    DEF SendCallback, ReportedStatus, Return, TypeInv, TypeOK, LocalsOK, RowOK,
        WorkOK
  <1>9. ASSUME NEW w \in Workers, AddBalance(w) PROVE WorkOK'
    BY <1>9 DEF AddBalance, Return, TypeInv, TypeOK, LocalsOK, RowOK, WorkOK
  <1>10. ASSUME NEW w \in Workers, WorkerFails(w) PROVE WorkOK'
    BY <1>10 DEF WorkerFails, Return, TypeInv, TypeOK, LocalsOK, RowOK, WorkOK
  <1>11. ASSUME ExpireFlag PROVE WorkOK'
    BY <1>11 DEF ExpireFlag, Overdue, TypeInv, TypeOK, LocalsOK, RowOK, WorkOK
  <1>12. ASSUME Restart PROVE WorkOK'
    BY <1>12 DEF Restart, TypeInv, TypeOK, LocalsOK, RowOK, WorkOK
  <1>13. CASE UNCHANGED <<wpc, wpay, wreq, status, paid, holds>>
    BY <1>13 DEF TypeInv, TypeOK, LocalsOK, RowOK, WorkOK
  <1> QED
    BY <1>1, <1>2, <1>3, <1>4, <1>5, <1>6, <1>7, <1>8, <1>9, <1>10, <1>11,
       <1>12, <1>13
    DEF Next, HttpStep, WorkerStep, TaskStep, vars, CheckCaller,
        GetAvailableAddress, ReserveAddress, RefusePaymentRequest,
        UndoReservation, HttpFails, GrowOld, HourlyChecking, GetExpired,
        ReleaseExpired

\* Both hold in every state.
LEMMA RowInvariant == Spec => [](RowOK /\ WorkOK)
  <1>1. Init => RowOK /\ WorkOK
    BY DEF Init, RowOK, WorkOK, Created
  <1> QED
    BY <1>1, RowStep, WorkStep, TypeInvariant, PTL DEF Spec

\* A settled request is never pending again: the only write of "pending" is
\* the insert of a row by its own call, before which the row does not exist.
THEOREM SettledStaysSettled == Spec => NeverReopened
  <1>1. TypeInv /\ RowOK /\ [Next]_vars =>
            [\A r \in Requests : status[r] \in {"processed", "expired"} =>
                                  status'[r] \in {"processed", "expired"}]_vars
    <2> SUFFICES ASSUME TypeInv, RowOK, [Next]_vars,
                        NEW r \in Requests,
                        status[r] \in {"processed", "expired"}
                 PROVE  status'[r] \in {"processed", "expired"}
      OBVIOUS
    <2> USE DEF rowVars
    <2>1. ASSUME NEW s \in Requests, CreatePaymentRequest(s)
          PROVE  status'[r] \in {"processed", "expired"}
      BY <2>1 DEF CreatePaymentRequest, RowOK, TypeInv, TypeOK
    <2>2. ASSUME NEW w \in Workers, UpdateRequest(w)
          PROVE  status'[r] \in {"processed", "expired"}
      BY <2>2 DEF UpdateRequest, Finishes, NewStatus, TypeInv, TypeOK
    <2>3. CASE ExpireFlag
      BY <2>3 DEF ExpireFlag, Overdue
    <2>4. CASE UNCHANGED status
      BY <2>4
    <2> QED
      BY <2>1, <2>2, <2>3, <2>4
      DEF Next, HttpStep, WorkerStep, TaskStep, vars, CheckCaller,
          GetAvailableAddress, ReserveAddress, RefusePaymentRequest,
          UndoReservation, HttpFails, Pay, CheckAddress, RecordTransaction,
          ReadRequest, ReleaseAddress, SendCallback, AddBalance, WorkerFails,
          GrowOld, HourlyChecking, GetExpired, ReleaseExpired, Restart
  <1> QED
    BY <1>1, TypeInvariant, RowInvariant, PTL DEF Spec, NeverReopened

-----------------------------------------------------------------------------
(* Transfers.  Past the insert, a callback is the only one for its         *)
(* transfer, and the transfer has not been credited yet.                   *)

StoredOK ==
    /\ \A p \in Recorded : paid[p] # NoAddress
    /\ \A w \in Workers :
          wpc[w] \in PastStages => /\ txnOf[wpay[w]] = wreq[w]
                                   /\ credits[wpay[w]] = 0

OneCallback ==
    \A v, w \in Workers :
        /\ wpc[v] \in PastStages
        /\ wpc[w] \in PastStages
        /\ wpay[v] = wpay[w]
        => v = w

CreditInv == StoredOK /\ OneCallback /\ CreditedOnce

\* Every action keeps CreditInv.
LEMMA CreditStep == TypeInv /\ WorkOK /\ CreditInv /\ [Next]_vars => CreditInv'
  <1> SUFFICES ASSUME TypeInv, WorkOK, CreditInv, [Next]_vars PROVE CreditInv'
    OBVIOUS
  <1> USE DEF httpVars, rowVars, workVars, bookVars, taskVars
  <1>1. ASSUME NEW p \in Payments, Pay(p) PROVE CreditInv'
    BY <1>1, NullAssumption
    DEF Pay, TypeInv, TypeOK, LocalsOK, WorkOK, CreditInv, StoredOK,
        OneCallback, CreditedOnce, Recorded, PastStages
  <1>2. ASSUME NEW w \in Workers, NEW p \in Payments, CheckAddress(w, p)
        PROVE  CreditInv'
    BY <1>2, NullAssumption
    DEF CheckAddress, Matches, TypeInv, TypeOK, LocalsOK, WorkOK, CreditInv,
        StoredOK, OneCallback, CreditedOnce, Recorded, PastStages
  <1>3. ASSUME NEW w \in Workers, RecordTransaction(w) PROVE CreditInv'
    <2>1. CASE wpay[w] \in Recorded
      BY <1>3, <2>1
      DEF RecordTransaction, DuplicateLogId, Return, TypeInv, TypeOK, LocalsOK,
          WorkOK, CreditInv, StoredOK, OneCallback, CreditedOnce, Recorded,
          PastStages
    <2>2. CASE wpay[w] \notin Recorded
      <3> DEFINE q == wpay[w]
      <3>1. /\ q \in Payments
            /\ wreq[w] \in Requests
            /\ paid[q] # NoAddress
        BY <1>3
        DEF RecordTransaction, DuplicateLogId, TypeInv, LocalsOK, WorkOK
      <3>2. /\ txnOf' = [txnOf EXCEPT ![q] = wreq[w]]
            /\ wpc' = [wpc EXCEPT ![w] = "read"]
            /\ UNCHANGED <<wpay, wreq, paid, credits>>
        BY <1>3, <2>2 DEF RecordTransaction, DuplicateLogId
      <3>3. Recorded' = Recorded \cup {q}
        BY <3>1, <3>2, NullAssumption DEF Recorded, TypeInv, TypeOK
      <3>4. credits[q] = 0
        <4>1. q \in Payments /\ q \notin Recorded
          BY <2>2, <3>1
        <4>2. credits[q] \in Nat
          BY <4>1 DEF TypeInv, TypeOK
        <4> HIDE DEF q
        <4>3. credits[q] <= 1 /\ (credits[q] = 1 => q \in Recorded)
          BY <4>1 DEF CreditInv, CreditedOnce
        <4> QED
          BY <4>1, <4>2, <4>3
      <3>5. \A v \in Workers : wpc[v] \in PastStages => wpay[v] \in Recorded
        BY NullAssumption
        DEF CreditInv, StoredOK, Recorded, TypeInv, LocalsOK, PastStages
      <3>6. StoredOK'
        BY <2>2, <3>1, <3>2, <3>3, <3>4, <3>5
        DEF CreditInv, StoredOK, TypeInv, TypeOK, PastStages, Recorded
      <3>7. OneCallback'
        BY <2>2, <3>2, <3>5
        DEF CreditInv, OneCallback, TypeInv, TypeOK, PastStages
      <3>8. CreditedOnce'
        BY <3>2, <3>3 DEF CreditInv, CreditedOnce
      <3> QED
        BY <3>6, <3>7, <3>8 DEF CreditInv
    <2> QED
      BY <2>1, <2>2
  <1>4. ASSUME NEW w \in Workers, ReadRequest(w) PROVE CreditInv'
    BY <1>4, NullAssumption
    DEF ReadRequest, TypeInv, TypeOK, LocalsOK, WorkOK, CreditInv, StoredOK,
        OneCallback, CreditedOnce, Recorded, PastStages
  <1>5. ASSUME NEW w \in Workers, UpdateRequest(w) PROVE CreditInv'
    BY <1>5, NullAssumption
    DEF UpdateRequest, Finishes, NewStatus, TypeInv, TypeOK, LocalsOK, WorkOK,
        CreditInv, StoredOK, OneCallback, CreditedOnce, Recorded, PastStages
  <1>6. ASSUME NEW w \in Workers, ReleaseAddress(w) PROVE CreditInv'
    BY <1>6, NullAssumption
    DEF ReleaseAddress, TypeInv, TypeOK, LocalsOK, WorkOK, CreditInv, StoredOK,
        OneCallback, CreditedOnce, Recorded, PastStages
  <1>7. ASSUME NEW w \in Workers, SendCallback(w) PROVE CreditInv'
    BY <1>7, NullAssumption
    DEF SendCallback, ReportedStatus, Return, TypeInv, TypeOK, LocalsOK,
        WorkOK, CreditInv, StoredOK, OneCallback, CreditedOnce, Recorded,
        PastStages
  <1>8. ASSUME NEW w \in Workers, AddBalance(w) PROVE CreditInv'
    BY <1>8, NullAssumption
    DEF AddBalance, Return, TypeInv, TypeOK, LocalsOK, WorkOK, CreditInv,
        StoredOK, OneCallback, CreditedOnce, Recorded, PastStages
  <1>9. ASSUME NEW w \in Workers, WorkerFails(w) PROVE CreditInv'
    BY <1>9, NullAssumption
    DEF WorkerFails, Return, TypeInv, TypeOK, LocalsOK, WorkOK, CreditInv,
        StoredOK, OneCallback, CreditedOnce, Recorded, PastStages
  <1>10. ASSUME Restart PROVE CreditInv'
    BY <1>10, NullAssumption
    DEF Restart, TypeInv, TypeOK, LocalsOK, WorkOK, CreditInv, StoredOK,
        OneCallback, CreditedOnce, Recorded, PastStages
  <1>11. CASE UNCHANGED <<wpc, wpay, wreq, paid, txnOf, credits>>
    BY <1>11
    DEF TypeInv, TypeOK, LocalsOK, WorkOK, CreditInv, StoredOK, OneCallback,
        CreditedOnce, Recorded, PastStages
  <1> QED
    BY <1>1, <1>2, <1>3, <1>4, <1>5, <1>6, <1>7, <1>8, <1>9, <1>10, <1>11
    DEF Next, HttpStep, WorkerStep, TaskStep, vars, CheckCaller,
        GetAvailableAddress, ReserveAddress, CreatePaymentRequest,
        RefusePaymentRequest, UndoReservation, HttpFails, GrowOld,
        HourlyChecking, GetExpired, ReleaseExpired, ExpireFlag

\* CreditInv holds in every state.
LEMMA CreditInvariant == Spec => []CreditInv
  <1>1. Init => CreditInv
    BY
    DEF Init, CreditInv, StoredOK, OneCallback, CreditedOnce, Recorded,
        PastStages
  <1> QED
    BY <1>1, CreditStep, RowInvariant, TypeInvariant, PTL DEF Spec

\* A transfer reaches a balance at most once and only if it is stored, under
\* any redelivery, any overlap of callbacks, and any faults and restarts.
THEOREM CreditedAtMostOnce == Spec => []CreditedOnce
  <1>1. CreditInv => CreditedOnce
    BY DEF CreditInv
  <1> QED
    BY <1>1, CreditInvariant, PTL

-----------------------------------------------------------------------------
(* Deposits.  The callback that marks a deposit processed writes the       *)
(* amount of the transfer it has just stored for it.                       *)

\* Every action keeps DepositShowsATransfer.
LEMMA DepositStep ==
    TypeInv /\ RowOK /\ WorkOK /\ CreditInv /\ DepositShowsATransfer
        /\ [Next]_vars => DepositShowsATransfer'
  <1> SUFFICES ASSUME TypeInv, RowOK, WorkOK, CreditInv, DepositShowsATransfer,
                      [Next]_vars
               PROVE  DepositShowsATransfer'
    OBVIOUS
  <1> USE DEF httpVars, rowVars, workVars, bookVars, taskVars
  <1>1. ASSUME NEW r \in Requests, CreatePaymentRequest(r)
        PROVE  DepositShowsATransfer'
    BY <1>1, NullAssumption
    DEF CreatePaymentRequest, TypeInv, TypeOK, LocalsOK, RowOK, WorkOK,
        CreditInv, StoredOK, PastStages, Recorded, DepositShowsATransfer
  <1>2. ASSUME NEW p \in Payments, Pay(p)
        PROVE  DepositShowsATransfer'
    BY <1>2, NullAssumption
    DEF Pay, TypeInv, TypeOK, LocalsOK, RowOK, WorkOK, CreditInv, StoredOK,
        PastStages, Recorded, DepositShowsATransfer
  <1>3. ASSUME NEW w \in Workers, RecordTransaction(w)
        PROVE  DepositShowsATransfer'
    BY <1>3, NullAssumption
    DEF RecordTransaction, DuplicateLogId, Return, TypeInv, TypeOK, LocalsOK,
        RowOK, WorkOK, CreditInv, StoredOK, PastStages, Recorded,
        DepositShowsATransfer
  <1>4. ASSUME NEW w \in Workers, UpdateRequest(w)
        PROVE  DepositShowsATransfer'
    <2>1. /\ wreq[w] \in Requests
          /\ wpay[w] \in Recorded
          /\ txnOf[wpay[w]] = wreq[w]
          /\ paid[wpay[w]] = holds[wreq[w]]
      BY <1>4, NullAssumption
      DEF UpdateRequest, Finishes, NewStatus, TypeInv, LocalsOK, WorkOK,
          CreditInv, StoredOK, PastStages, Recorded
    <2>2. Kind[wreq[w]] = "deposit" => received'[wreq[w]] = Amount[wpay[w]]
      BY <1>4, <2>1
      DEF UpdateRequest, Finishes, NewStatus, NewReceived, TypeInv, TypeOK
    <2>3. \A r \in Requests \ {wreq[w]} : /\ status'[r] = status[r]
                                         /\ received'[r] = received[r]
      BY <1>4, <2>1 DEF UpdateRequest, Finishes, NewStatus, TypeInv, TypeOK
    <2>4. UNCHANGED <<txnOf, paid, holds>>
      BY <1>4 DEF UpdateRequest, Finishes, NewStatus
    <2> QED
      BY <2>1, <2>2, <2>3, <2>4 DEF DepositShowsATransfer, Recorded
  <1>5. CASE ExpireFlag
    BY <1>5
    DEF ExpireFlag, Overdue, TypeInv, TypeOK, DepositShowsATransfer, Recorded
  <1>6. CASE UNCHANGED <<status, received, txnOf, paid, holds>>
    BY <1>6 DEF DepositShowsATransfer, Recorded
  <1> QED
    BY <1>1, <1>2, <1>3, <1>4, <1>5, <1>6
    DEF Next, HttpStep, WorkerStep, TaskStep, vars, CheckCaller,
        GetAvailableAddress, ReserveAddress, RefusePaymentRequest,
        UndoReservation, HttpFails, CheckAddress, ReadRequest, ReleaseAddress,
        SendCallback, AddBalance, WorkerFails, GrowOld, HourlyChecking,
        GetExpired, ReleaseExpired, Restart, Return

\* A processed deposit shows the amount of a transfer that was stored for it
\* and paid to its address, whatever was overwritten on the way.
THEOREM DepositsShowTransfers == Spec => []DepositShowsATransfer
  <1>1. Init => DepositShowsATransfer
    BY DEF Init, DepositShowsATransfer
  <1> QED
    BY <1>1, DepositStep, CreditInvariant, RowInvariant, TypeInvariant, PTL
    DEF Spec

-----------------------------------------------------------------------------
(* Refinement.  Only four steps change a fate: the insert, the credit, a   *)
(* callback that stops early, and a restart.                               *)

\* A callback that returns without crediting abandons its transfer, if it
\* had stored it.
LEMMA EarlyReturnAbandons ==
    ASSUME TypeInv, CreditInv, NEW w \in Workers, wpc[w] # "idle",
           Return(w), UNCHANGED <<txnOf, credits>>
    PROVE  [Ledger!Next]_Fate
  <1> PICK q : q = wpay[w]
    OBVIOUS
  <1>1. \A v \in Workers \ {w} : /\ wpc'[v] = wpc[v]
                                /\ wpay'[v] = wpay[v]
    BY DEF Return, TypeInv, TypeOK
  <1>2. wpc'[w] = "idle"
    BY DEF Return, TypeInv, TypeOK
  <1>3. Recorded' = Recorded
    BY DEF Recorded
  <1>4. \A p \in Payments : p # q => InHand(p)' = InHand(p)
    BY <1>1, <1>2 DEF InHand, PastStages
  <1>5. CASE wpc[w] \notin PastStages
    <2>1. \A p \in Payments : InHand(p)' = InHand(p)
      BY <1>1, <1>2, <1>5 DEF InHand, PastStages
    <2>2. Fate' = Fate
      BY <1>3, <2>1 DEF Fate
    <2> QED
      BY <2>2
  <1>6. CASE wpc[w] \in PastStages
    <2>1. q \in Recorded /\ credits[q] = 0 /\ InHand(q)
      BY <1>6, NullAssumption
      DEF CreditInv, StoredOK, Recorded, InHand, TypeInv, LocalsOK, PastStages
    <2>2. ~ InHand(q)'
      BY <1>1, <1>2, <1>6 DEF InHand, CreditInv, OneCallback, PastStages
    <2>3. Fate[q] = "stored" /\ Fate' = [p \in Payments |->
                                IF p \in {q} THEN "lost" ELSE Fate[p]]
      BY <1>3, <1>4, <2>1, <2>2 DEF Fate, Recorded
    <2>4. Ledger!Abandon({q})
      BY <2>3 DEF Ledger!Abandon
    <2> QED
      BY <2>1, <2>4 DEF Ledger!Next, Recorded
  <1> QED
    BY <1>5, <1>6

\* Every step of the payment core is a step of the ledger or changes no fate.
LEMMA LedgerStep ==
    TypeInv /\ CreditInv /\ CreditInv' /\ [Next]_vars => [Ledger!Next]_Fate
  <1> SUFFICES ASSUME TypeInv, CreditInv, CreditInv', [Next]_vars
               PROVE  [Ledger!Next]_Fate
    OBVIOUS
  <1> USE DEF httpVars, rowVars, workVars, bookVars, taskVars
  <1>1. ASSUME NEW w \in Workers, RecordTransaction(w)
        PROVE  [Ledger!Next]_Fate
    <2>1. CASE wpay[w] \in Recorded
      BY <1>1, <2>1, EarlyReturnAbandons DEF RecordTransaction, DuplicateLogId
    <2>2. CASE wpay[w] \notin Recorded
      <3> DEFINE q == wpay[w]
      <3>1. q \in Payments /\ wreq[w] \in Requests
        BY <1>1 DEF RecordTransaction, DuplicateLogId, TypeInv, LocalsOK
      <3>2. /\ txnOf' = [txnOf EXCEPT ![q] = wreq[w]]
            /\ wpc' = [wpc EXCEPT ![w] = "read"]
            /\ UNCHANGED <<wpay, credits>>
        BY <1>1, <2>2 DEF RecordTransaction, DuplicateLogId
      <3>3. Recorded' = Recorded \cup {q}
        BY <3>1, <3>2, NullAssumption DEF Recorded, TypeInv, TypeOK
      <3>4. InHand(q)'
        BY <3>2 DEF InHand, PastStages, TypeInv, TypeOK
      <3>5. \A p \in Payments : p # q => InHand(p)' = InHand(p)
        BY <1>1, <3>2
        DEF InHand, PastStages, TypeInv, TypeOK, RecordTransaction,
            DuplicateLogId
      <3>6. credits[q] = 0
        <4> HIDE DEF q
        <4>1. credits[q] \in Nat /\ credits'[q] = credits[q]
          BY <3>1, <3>2 DEF TypeInv, TypeOK
        <4>2. q \notin Recorded
          BY <2>2 DEF q
        <4>3. credits[q] <= 1 /\ (credits[q] = 1 => q \in Recorded)
          BY <3>1 DEF CreditInv, CreditedOnce
        <4> QED
          BY <4>1, <4>2, <4>3
      <3>7. Fate[q] = "unseen" /\ Fate' = [Fate EXCEPT ![q] = "stored"]
        BY <2>2, <3>1, <3>2, <3>3, <3>4, <3>5, <3>6 DEF Fate
      <3>8. Ledger!Store(q)
        BY <3>7 DEF Ledger!Store
      <3> QED
        BY <3>1, <3>8 DEF Ledger!Next
    <2> QED
      BY <2>1, <2>2
  <1>2. ASSUME NEW w \in Workers, AddBalance(w) PROVE [Ledger!Next]_Fate
    <2> DEFINE q == wpay[w]
    <2>1. /\ q \in Payments /\ q \in Recorded
          /\ credits[q] = 0
          /\ InHand(q)
      BY <1>2, NullAssumption
      DEF AddBalance, TypeInv, LocalsOK, CreditInv, StoredOK, Recorded, InHand,
          PastStages
    <2>2. credits' = [credits EXCEPT ![q] = credits[q] + 1]
      BY <1>2 DEF AddBalance
    <2>3. Recorded' = Recorded
      BY <1>2 DEF AddBalance, Recorded
    <2>4. \A p \in Payments : p # q => InHand(p)' = InHand(p)
      BY <1>2 DEF AddBalance, Return, InHand, PastStages, TypeInv, TypeOK
    <2>5. credits'[q] = 1 /\ \A p \in Payments \ {q} : credits'[p] = credits[p]
      BY <2>1, <2>2 DEF TypeInv, TypeOK
    <2>6. Fate[q] = "stored" /\ Fate' = [Fate EXCEPT ![q] = "credited"]
      BY <2>1, <2>3, <2>4, <2>5 DEF Fate
    <2>7. Ledger!Credit(q)
      BY <2>6 DEF Ledger!Credit
    <2> QED
      BY <2>1, <2>7 DEF Ledger!Next
  <1>3. ASSUME NEW w \in Workers, SendCallback(w) PROVE [Ledger!Next]_Fate
    <2>1. CASE SettingLoaded
      BY <1>3, <2>1
      DEF SendCallback, ReportedStatus, Fate, Recorded, InHand, PastStages,
          TypeInv, TypeOK
    <2>2. CASE ~ SettingLoaded
      BY <1>3, <2>2, EarlyReturnAbandons DEF SendCallback
    <2> QED
      BY <2>1, <2>2
  <1>4. ASSUME NEW w \in Workers, WorkerFails(w) PROVE [Ledger!Next]_Fate
    BY <1>4, EarlyReturnAbandons DEF WorkerFails
  <1>5. CASE Restart
    <2> DEFINE S == {p \in Payments : Fate[p] = "stored"}
    <2>1. \A p \in Payments : ~ InHand(p)'
      BY <1>5 DEF Restart, InHand, PastStages
    <2>2. Recorded' = Recorded /\ credits' = credits
      BY <1>5 DEF Restart, Recorded
    <2>3. Fate' = [p \in Payments |-> IF p \in S THEN "lost" ELSE Fate[p]]
      BY <2>1, <2>2 DEF Fate
    <2>4. Ledger!Abandon(S)
      BY <2>3 DEF Ledger!Abandon
    <2> QED
      BY <2>4 DEF Ledger!Next
  <1>6. ASSUME NEW w \in Workers,
               \/ \E p \in Payments : CheckAddress(w, p)
               \/ ReadRequest(w) \/ UpdateRequest(w) \/ ReleaseAddress(w)
        PROVE  Fate' = Fate
    <2>1. \A p \in Payments : InHand(p)' = InHand(p)
      BY <1>6
      DEF CheckAddress, Matches, ReadRequest, UpdateRequest, Finishes,
          NewStatus, ReleaseAddress, InHand, PastStages, TypeInv, TypeOK
    <2>2. Recorded' = Recorded /\ credits' = credits
      BY <1>6
      DEF CheckAddress, Matches, ReadRequest, UpdateRequest, Finishes,
          NewStatus, ReleaseAddress, Recorded
    <2> QED
      BY <2>1, <2>2 DEF Fate
  <1>7. CASE UNCHANGED <<wpc, wpay, txnOf, credits>>
    BY <1>7 DEF Fate, Recorded, InHand
  <1> QED
    BY <1>1, <1>2, <1>3, <1>4, <1>5, <1>6, <1>7
    DEF Next, HttpStep, WorkerStep, TaskStep, vars, CheckCaller,
        GetAvailableAddress, ReserveAddress, CreatePaymentRequest,
        RefusePaymentRequest, UndoReservation, HttpFails, Pay, GrowOld,
        HourlyChecking, GetExpired, ReleaseExpired, ExpireFlag

\* The payment core implements the transfer ledger.
THEOREM LedgerImplemented == Spec => ImplementsLedger
  <1>1. Init => Ledger!Init
    BY NullAssumption DEF Init, Ledger!Init, Fate, Recorded
  <1> QED
    BY <1>1, LedgerStep, TypeInvariant, CreditInvariant, PTL
    DEF Spec, ImplementsLedger, Ledger!Spec

-----------------------------------------------------------------------------
(* What holds while handlers keep out of each other's way.  The hypotheses *)
(* below are states of the system, not bounds on it: they say which steps  *)
(* would have to exclude one another, and nothing about how many calls,    *)
(* callbacks or faults there are.                                          *)

\* Two callbacks have not read the same request before either writes it.
NoSharedRead ==
    \A v, w \in Workers :
        /\ wpc[v] = "update"
        /\ wpc[w] = "update"
        /\ wreq[v] = wreq[w]
        => v = w

\* What a callback has read is then still in the column when it writes.
ReadFresh ==
    \A w \in Workers : wpc[w] = "update" => wread[w] = received[wreq[w]]

PriceInv == ReadFresh /\ ProcessedShowsPrice

\* Every action keeps PriceInv.
LEMMA PriceStep ==
    ASSUME TypeInv, RowOK, NoSharedRead, PriceInv, [Next]_vars
    PROVE  PriceInv'
<1> USE DEF rowVars, workVars, TypeInv, TypeOK, LocalsOK, PriceInv, ReadFresh,
            ProcessedShowsPrice
<1>1. ASSUME NEW r \in Requests, CreatePaymentRequest(r) PROVE PriceInv'
  BY <1>1 DEF CreatePaymentRequest
<1>2. ASSUME NEW w \in Workers, NEW p \in Payments, CheckAddress(w, p)
      PROVE  PriceInv'
  BY <1>2 DEF CheckAddress
<1>3. ASSUME NEW w \in Workers, RecordTransaction(w) PROVE PriceInv'
  BY <1>3 DEF RecordTransaction, DuplicateLogId, Return
<1>4. ASSUME NEW w \in Workers, ReadRequest(w) PROVE PriceInv'
  BY <1>4 DEF ReadRequest
<1>5. ASSUME NEW w \in Workers, UpdateRequest(w) PROVE PriceInv'
  <2>1. wreq[w] \in Requests /\ wread[w] = received[wreq[w]]
    BY <1>5 DEF UpdateRequest
  <2>2. ReadFresh'
    <3> SUFFICES ASSUME NEW v \in Workers, wpc'[v] = "update"
                 PROVE  wread'[v] = received'[wreq'[v]]
      OBVIOUS
    <3>1. v # w /\ wpc[v] = "update"
      BY <1>5 DEF UpdateRequest
    <3>2. wreq[v] # wreq[w] /\ wreq[v] \in Requests
      BY <1>5, <3>1 DEF UpdateRequest, NoSharedRead
    <3> QED
      BY <1>5, <3>1, <3>2 DEF UpdateRequest
  <2>3. ProcessedShowsPrice'
    <3> SUFFICES ASSUME NEW r \in Requests, Kind[r] = "checkout",
                        status'[r] = "processed"
                 PROVE  CheckoutAmount[r] < received'[r]
      OBVIOUS
    <3>1. CASE r # wreq[w]
      BY <1>5, <2>1, <3>1 DEF UpdateRequest
    <3>2. CASE r = wreq[w]
      <4>1. received'[r] = received[r] + Amount[wpay[w]]
        BY <1>5, <2>1, <3>2 DEF UpdateRequest, NewReceived
      <4>2. /\ received[r] \in Nat /\ Amount[wpay[w]] \in Nat
            /\ CheckoutAmount[r] \in Nat
        BY <1>5, AmountAssumption DEF UpdateRequest
      <4>3. \/ CheckoutAmount[r] < received[r] + Amount[wpay[w]]
            \/ status[r] = "processed"
        BY <1>5, <2>1, <3>2 DEF UpdateRequest, NewStatus, Finishes
      <4> QED
        BY <4>1, <4>2, <4>3
    <3> QED
      BY <3>1, <3>2
  <2> QED
    BY <2>2, <2>3
<1>6. ASSUME NEW w \in Workers, ReleaseAddress(w) PROVE PriceInv'
  BY <1>6 DEF ReleaseAddress
<1>7. ASSUME NEW w \in Workers, SendCallback(w) PROVE PriceInv'
  BY <1>7 DEF SendCallback, Return
<1>8. ASSUME NEW w \in Workers, AddBalance(w) \/ WorkerFails(w)
      PROVE  PriceInv'
  BY <1>8 DEF AddBalance, WorkerFails, Return
<1>9. CASE ExpireFlag
  BY <1>9 DEF ExpireFlag
<1>10. CASE Restart
  BY <1>10 DEF Restart
<1>11. CASE UNCHANGED <<status, received, wpc, wreq, wread>>
  BY <1>11
<1> QED
  BY <1>1, <1>2, <1>3, <1>4, <1>5, <1>6, <1>7, <1>8, <1>9, <1>10, <1>11
  DEF Next, HttpStep, WorkerStep, TaskStep, vars, CheckCaller,
      GetAvailableAddress, ReserveAddress, RefusePaymentRequest,
      UndoReservation, HttpFails, Pay, GrowOld, HourlyChecking, GetExpired,
      ReleaseExpired

\* "checkout finished": a processed checkout shows more than its price as
\* long as no two callbacks read the same request before either writes it.
THEOREM PriceShownUnlessReadsOverlap ==
    Spec /\ []NoSharedRead => []ProcessedShowsPrice
<1>1. Init => PriceInv
  BY DEF Init, PriceInv, ReadFresh, ProcessedShowsPrice
<1>2. TypeInv /\ RowOK /\ NoSharedRead /\ PriceInv /\ [Next]_vars => PriceInv'
  BY PriceStep
<1>3. PriceInv => ProcessedShowsPrice
  BY DEF PriceInv
<1> QED
  BY <1>1, <1>2, <1>3, TypeInvariant, RowInvariant, PTL DEF Spec

-----------------------------------------------------------------------------
(* Addresses.  Between the lookup of an address and the row that holds it, *)
(* between the match of a request and the release of its address, and      *)
(* between the expiry task's two statements, an address can change hands.  *)

\* One call at a time has looked up an address it has no row for yet.
OneHolder ==
    \A r, s \in Requests :
        haddr[r] # NoAddress /\ haddr[s] # NoAddress => r = s

\* One callback at a time settles a request.
Settling == {"record", "read", "update", "release"}

OneSettling ==
    \A v, w \in Workers :
        /\ wpc[v] \in Settling
        /\ wpc[w] \in Settling
        /\ wreq[v] = wreq[w]
        => v = w

\* A request is settled before it is eight hours old.
SettledInTime == \A r \in old : status[r] # "pending"

Serial == OneHolder /\ OneSettling /\ SettledInTime

\* The calls that have looked up an address and have no row for it yet.
Looking == {"reserve", "create", "undo"}

\* An address is in use by a pending request, by a callback about to release
\* it, or by a call that has no row yet, and no two of them share one.
PendingHolds ==
    \A r \in Requests : status[r] = "pending" => holds[r] \in Addresses

MatchedPending ==
    \A w \in Workers :
        wpc[w] \in {"record", "read", "update"} =>
            status[wreq[w]] = "pending"

ReleasesOwn ==
    \A w \in Workers :
        wpc[w] = "release" =>
            /\ addr[holds[wreq[w]]] = "reserved"
            /\ \A r \in Requests :
                  /\ hpc[r] \in Looking => haddr[r] # holds[wreq[w]]
                  /\ status[r] = "pending" => holds[r] # holds[wreq[w]]
            /\ \A v \in Workers \ {w} :
                  wpc[v] = "release" => holds[wreq[v]] # holds[wreq[w]]

LooksUpFree ==
    \A r \in Requests :
        hpc[r] \in Looking =>
            /\ haddr[r] \in Addresses
            /\ hpc[r] = "create" => addr[haddr[r]] = "reserved"
            /\ \A s \in Requests :
                  status[s] = "pending" => holds[s] # haddr[r]

NothingOverdue == trel = {} /\ tcut \subseteq old

AddressInv ==
    /\ OwnAddress
    /\ PendingHolds
    /\ PendingIsReserved
    /\ MatchedPending
    /\ ReleasesOwn
    /\ LooksUpFree
    /\ NothingOverdue

\* Every action keeps AddressInv.
LEMMA AddressStep ==
    ASSUME TypeInv, RowOK, WorkOK, Serial, Serial', AddressInv, [Next]_vars
    PROVE  AddressInv'
<1> USE NullAssumption
    DEF httpVars, rowVars, workVars, bookVars, taskVars, TypeInv, TypeOK,
        LocalsOK, RowOK, WorkOK, Serial, OneHolder, SettledInTime,
        AddressInv, OwnAddress, PendingHolds, PendingIsReserved,
        MatchedPending, ReleasesOwn, Looking, LooksUpFree, NothingOverdue
<1>1. ASSUME NEW r \in Requests, CheckCaller(r) PROVE AddressInv'
  BY <1>1 DEF CheckCaller
<1>2. ASSUME NEW r \in Requests, GetAvailableAddress(r) PROVE AddressInv'
  <2> PICK a \in Addresses :
          /\ haddr' = [haddr EXCEPT ![r] = a]
          /\ \/ a \in Available /\ UNCHANGED addr
             \/ a \in Generated /\ addr' = [addr EXCEPT ![a] = "available"]
    BY <1>2 DEF GetAvailableAddress
  <2>1. /\ addr[a] # "reserved"
        /\ \A b \in Addresses :
              addr[b] = "reserved" => addr'[b] = "reserved"
    BY DEF Available, Generated
  <2>2. /\ UNCHANGED <<rowVars, old, workVars, taskVars>>
        /\ hpc' = [hpc EXCEPT ![r] = "reserve"]
    BY <1>2 DEF GetAvailableAddress
  <2>3. \A s \in Requests :
            status[s] = "pending" => holds[s] \in Addresses /\ holds[s] # a
    BY <2>1
  <2>4. \A w \in Workers :
            wpc[w] = "release" => /\ holds[wreq[w]] \in Addresses
                                  /\ holds[wreq[w]] # a
    BY <2>1
  <2>5. OwnAddress' /\ PendingHolds' /\ MatchedPending' /\ NothingOverdue'
    BY <2>2
  <2>6. PendingIsReserved'
    BY <2>1, <2>2, <2>3
  <2>7. ReleasesOwn'
    BY <2>1, <2>2, <2>4
  <2>8. LooksUpFree'
    BY <2>1, <2>2, <2>3
  <2> QED
    BY <2>5, <2>6, <2>7, <2>8
<1>3. ASSUME NEW r \in Requests, ReserveAddress(r) PROVE AddressInv'
  BY <1>3 DEF ReserveAddress
<1>4. ASSUME NEW r \in Requests, CreatePaymentRequest(r) PROVE AddressInv'
  BY <1>4 DEF CreatePaymentRequest
<1>5. ASSUME NEW r \in Requests, RefusePaymentRequest(r) PROVE AddressInv'
  BY <1>5 DEF RefusePaymentRequest
<1>6. ASSUME NEW r \in Requests, UndoReservation(r) PROVE AddressInv'
  BY <1>6 DEF UndoReservation
<1>7. ASSUME NEW r \in Requests, HttpFails(r) PROVE AddressInv'
  BY <1>7 DEF HttpFails
<1>8. ASSUME NEW w \in Workers, NEW p \in Payments, CheckAddress(w, p)
      PROVE  AddressInv'
  BY <1>8 DEF CheckAddress, Matches
<1>9. ASSUME NEW w \in Workers, RecordTransaction(w) PROVE AddressInv'
  BY <1>9 DEF RecordTransaction, DuplicateLogId, Return
<1>10. ASSUME NEW w \in Workers, ReadRequest(w) PROVE AddressInv'
  BY <1>10 DEF ReadRequest
<1>11. ASSUME NEW w \in Workers, UpdateRequest(w) PROVE AddressInv'
  <2>1. PICK q \in Requests :
            /\ q = wreq[w]
            /\ status[q] = "pending"
            /\ status' = [status EXCEPT ![q] = NewStatus(w)]
    BY <1>11 DEF UpdateRequest
  <2>2. /\ NewStatus(w) \in {"processed", "pending"}
        /\ Finishes(w) => NewStatus(w) = "processed"
        /\ wpc' = [wpc EXCEPT ![w] = IF Finishes(w) THEN "release"
                                                    ELSE "callback"]
        /\ UNCHANGED <<addr, holds, old, httpVars, wreq, taskVars>>
    BY <1>11, <2>1 DEF UpdateRequest, NewStatus
  <2>3. \A v \in Workers \ {w} :
            wpc[v] \in {"record", "read", "update"} => wreq[v] # q
    BY <1>11, <2>1 DEF UpdateRequest, OneSettling, Settling
  <2>4. \A s \in Requests : status'[s] = "pending" => status[s] = "pending"
    BY <2>1
  <2>5. /\ OwnAddress' /\ PendingHolds' /\ PendingIsReserved'
        /\ LooksUpFree' /\ NothingOverdue'
    BY <2>2, <2>4
  <2>6. MatchedPending'
    BY <2>1, <2>2, <2>3
  <2>7. /\ addr[holds[q]] = "reserved"
        /\ \A s \in Requests \ {q} :
              status[s] = "pending" => holds[s] # holds[q]
        /\ \A s \in Requests : hpc[s] \in Looking => haddr[s] # holds[q]
        /\ \A v \in Workers :
              wpc[v] = "release" => holds[wreq[v]] # holds[q]
    BY <2>1
  <2>8. ReleasesOwn'
    BY <2>1, <2>2, <2>4, <2>7
  <2> QED
    BY <2>5, <2>6, <2>8
<1>12. ASSUME NEW w \in Workers, ReleaseAddress(w) PROVE AddressInv'
  BY <1>12 DEF ReleaseAddress
<1>13. ASSUME NEW w \in Workers, SendCallback(w) PROVE AddressInv'
  BY <1>13 DEF SendCallback, Return
<1>14. ASSUME NEW w \in Workers, AddBalance(w) PROVE AddressInv'
  BY <1>14 DEF AddBalance, Return
<1>15. ASSUME NEW w \in Workers, WorkerFails(w) PROVE AddressInv'
  BY <1>15 DEF WorkerFails, Return
<1>16. ASSUME NEW r \in Requests, GrowOld(r) PROVE AddressInv'
  BY <1>16 DEF GrowOld
<1>17. CASE HourlyChecking
  BY <1>17 DEF HourlyChecking
<1>18. CASE GetExpired
  BY <1>18 DEF GetExpired
<1>19. ASSUME NEW r \in Requests, ReleaseExpired(r) PROVE AddressInv'
  BY <1>19 DEF ReleaseExpired
<1>20. CASE ExpireFlag
  BY <1>20 DEF ExpireFlag, Overdue
<1>21. CASE Restart
  BY <1>21 DEF Restart
<1>22. ASSUME NEW p \in Payments, Pay(p) PROVE AddressInv'
  BY <1>22 DEF Pay
<1>23. CASE UNCHANGED vars
  BY <1>23 DEF vars
<1> HIDE DEF httpVars, rowVars, workVars, bookVars, taskVars, TypeInv, TypeOK,
             LocalsOK, RowOK, WorkOK, Serial, OneHolder, SettledInTime,
             AddressInv
<1> QED
  BY <1>1, <1>2, <1>3, <1>4, <1>5, <1>6, <1>7, <1>8, <1>9, <1>10, <1>11,
     <1>12, <1>13, <1>14, <1>16, <1>17, <1>18, <1>19, <1>20, <1>21, <1>22,
     <1>23, <1>15
  DEF Next, HttpStep, WorkerStep, TaskStep

\* It holds in every state as long as the steps stay serial.
LEMMA AddressInvariant == Spec /\ []Serial => []AddressInv
<1>1. Init => AddressInv
  BY DEF Init, AddressInv, OwnAddress, PendingHolds, PendingIsReserved,
         MatchedPending, ReleasesOwn, LooksUpFree, Looking, NothingOverdue
<1>2. TypeInv /\ RowOK /\ WorkOK /\ Serial /\ Serial' /\ AddressInv
          /\ [Next]_vars => AddressInv'
  BY AddressStep
<1> QED
  BY <1>1, <1>2, TypeInvariant, RowInvariant, PTL DEF Spec

\* No two pending requests hold the same address, as long as calls do not
\* overlap between lookup and row, callbacks do not settle the same request
\* twice, and no request is still pending when it is eight hours old.
THEOREM AddressIsOwnWhenSerial == Spec /\ []Serial => []OwnAddress
<1>1. AddressInv => OwnAddress
  BY DEF AddressInv
<1> QED
  BY <1>1, AddressInvariant, PTL

\* Under the same conditions the address of a pending request is reserved.
THEOREM PendingIsReservedWhenSerial ==
    Spec /\ []Serial => []PendingIsReserved
<1>1. AddressInv => PendingIsReserved
  BY DEF AddressInv
<1> QED
  BY <1>1, AddressInvariant, PTL

-----------------------------------------------------------------------------
(* What the received column and the finished callbacks of the payment core *)
(* claim is covered by the transfers stored for the request, for any       *)
(* number of overlapping callbacks, redeliveries, faults and restarts.     *)
(*                                                                         *)
(* The argument: a callback adds its transfer to what it read, and what it *)
(* read counted no transfer whose callback has yet to write; since the     *)
(* callback is the only one for its transfer, it adds a transfer that was  *)
(* not counted.  A stale read therefore only loses transfers.              *)

\* The transfers stored for a request, those whose callback has yet to write
\* the request, and the others.
StoredFor(r) == {p \in Payments : txnOf[p] = r}

Unwritten(p) ==
    \E w \in Workers : wpc[w] \in {"read", "update"} /\ wpay[w] = p

Applied(r) == {p \in StoredFor(r) : ~ Unwritten(p)}

Total(S) == FunSum(Amount, S)

-----------------------------------------------------------------------------
(* Every step grows both sets by at most one transfer.                     *)

\* Only finitely many transfers are ever stored: a step stores one.
StoredFinite == IsFiniteSet(Recorded)

\* A step stores one transfer at most.
LEMMA FiniteStep ==
    ASSUME TypeInv, StoredFinite, [Next]_vars
    PROVE  StoredFinite'
<1> USE DEF bookVars, StoredFinite
<1>1. ASSUME NEW w \in Workers, RecordTransaction(w)
      PROVE  StoredFinite'
  <2>1. Recorded' \subseteq Recorded \cup {wpay[w]}
    BY <1>1 DEF RecordTransaction, Recorded, TypeInv, TypeOK
  <2> QED
    BY <2>1, FS_AddElement, FS_Subset
<1>2. CASE UNCHANGED txnOf
  <2>1. Recorded' = Recorded
    BY <1>2 DEF Recorded
  <2> QED
    BY <2>1
<1> QED
  BY <1>1, <1>2
  DEF Next, HttpStep, WorkerStep, TaskStep, vars, CheckCaller,
      GetAvailableAddress, ReserveAddress, CreatePaymentRequest,
      RefusePaymentRequest, UndoReservation, HttpFails, Pay, CheckAddress,
      ReadRequest, UpdateRequest, ReleaseAddress, SendCallback, AddBalance,
      WorkerFails, GrowOld, HourlyChecking, GetExpired, ReleaseExpired,
      ExpireFlag, Restart

\* So finitely many are stored in every state.
LEMMA FiniteInvariant == Spec => []StoredFinite
<1>1. Init => StoredFinite
  <2>1. Init => Recorded = {}
    BY DEF Init, Recorded
  <2> QED
    BY <2>1, FS_EmptySet DEF StoredFinite
<1>2. TypeInv /\ StoredFinite /\ [Next]_vars
          => StoredFinite'
  BY FiniteStep
<1> QED
  BY <1>1, <1>2, TypeInvariant, PTL DEF Spec

\* A stored transfer stays stored for its request.
LEMMA StoredGrows ==
    ASSUME TypeInv, [Next]_vars, NEW r \in Requests
    PROVE  StoredFor(r) \subseteq StoredFor(r)'
<1> USE DEF bookVars
<1>1. ASSUME NEW w \in Workers, RecordTransaction(w)
      PROVE  StoredFor(r) \subseteq StoredFor(r)'
  BY <1>1, NullAssumption
  DEF RecordTransaction, DuplicateLogId, Recorded, StoredFor, TypeInv,
      TypeOK
<1>2. CASE UNCHANGED txnOf
  BY <1>2 DEF StoredFor
<1> QED
  BY <1>1, <1>2
  DEF Next, HttpStep, WorkerStep, TaskStep, vars, CheckCaller,
      GetAvailableAddress, ReserveAddress, CreatePaymentRequest,
      RefusePaymentRequest, UndoReservation, HttpFails, Pay, CheckAddress,
      ReadRequest, UpdateRequest, ReleaseAddress, SendCallback, AddBalance,
      WorkerFails, GrowOld, HourlyChecking, GetExpired, ReleaseExpired,
      ExpireFlag, Restart

\* Once its callback has written or given up, a transfer stays so: no other
\* callback gets past the insert for it.
LEMMA WrittenStays ==
    ASSUME TypeInv, [Next]_vars, NEW p \in Recorded, ~ Unwritten(p)
    PROVE  ~ Unwritten(p)'
<1> USE DEF workVars, Unwritten, TypeInv, TypeOK
<1>1. ASSUME NEW w \in Workers, NEW q \in Payments, CheckAddress(w, q)
      PROVE  ~ Unwritten(p)'
  BY <1>1 DEF CheckAddress
<1>2. ASSUME NEW w \in Workers, RecordTransaction(w)
      PROVE  ~ Unwritten(p)'
  BY <1>2 DEF RecordTransaction, DuplicateLogId, Return
<1>3. ASSUME NEW w \in Workers, ReadRequest(w)
      PROVE  ~ Unwritten(p)'
  BY <1>3 DEF ReadRequest
<1>4. ASSUME NEW w \in Workers, UpdateRequest(w)
      PROVE  ~ Unwritten(p)'
  BY <1>4 DEF UpdateRequest
<1>5. ASSUME NEW w \in Workers, ReleaseAddress(w)
      PROVE  ~ Unwritten(p)'
  BY <1>5 DEF ReleaseAddress
<1>6. ASSUME NEW w \in Workers, SendCallback(w)
      PROVE  ~ Unwritten(p)'
  BY <1>6 DEF SendCallback, Return
<1>7. ASSUME NEW w \in Workers, AddBalance(w) \/ WorkerFails(w)
      PROVE  ~ Unwritten(p)'
  BY <1>7 DEF AddBalance, WorkerFails, Return
<1>8. CASE Restart
  BY <1>8 DEF Restart
<1>9. CASE UNCHANGED <<wpc, wpay>>
  BY <1>9
<1> QED
  BY <1>1, <1>2, <1>3, <1>4, <1>5, <1>6, <1>7, <1>8, <1>9
  DEF Next, HttpStep, WorkerStep, TaskStep, vars, CheckCaller,
      GetAvailableAddress, ReserveAddress, CreatePaymentRequest,
      RefusePaymentRequest, UndoReservation, HttpFails, Pay, GrowOld,
      HourlyChecking, GetExpired, ReleaseExpired, ExpireFlag

\* A transfer whose callback has written the request stays written.
LEMMA AppliedGrows ==
    ASSUME TypeInv, [Next]_vars, NEW r \in Requests
    PROVE  Applied(r) \subseteq Applied(r)'
<1>1. Applied(r) \subseteq Recorded
  BY NullAssumption DEF Applied, StoredFor, Recorded
<1> QED
  BY <1>1, StoredGrows, WrittenStays DEF Applied

\* Totals of finite sets of transfers are naturals, and no subset totals
\* more than its set.
LEMMA TotalMonotonic ==
    ASSUME NEW S \in SUBSET Payments, IsFiniteSet(S), NEW R \in SUBSET S
    PROVE  /\ Total(R) \in Nat /\ Total(S) \in Nat
           /\ Total(R) <= Total(S)
<1>1. IsFiniteSet(R)
  BY FS_Subset
<1>2. \A p \in S : Amount[p] \in Nat
  BY AmountAssumption
<1> QED
  BY <1>1, <1>2, SumNat, SumMonotonic DEF Total

\* Another transfer adds its amount.
LEMMA TotalAdd ==
    ASSUME NEW S \in SUBSET Payments, IsFiniteSet(S),
           NEW p \in Payments, p \notin S
    PROVE  Total(S \cup {p}) = Total(S) + Amount[p]
<1>1. \A q \in S \cup {p} : Amount[q] \in Nat
  BY AmountAssumption
<1> QED
  BY <1>1, SumAdd DEF Total

\* What both totals of a request are worth at every step.
Totals(r) ==
    /\ Total(Applied(r)) \in Nat /\ Total(StoredFor(r)) \in Nat
    /\ Total(Applied(r)) <= Total(StoredFor(r))

\* Neither total ever falls.
LEMMA TotalsGrow ==
    ASSUME TypeInv, StoredFinite, StoredFinite',
           [Next]_vars, NEW r \in Requests
    PROVE  /\ Totals(r) /\ Totals(r)'
           /\ Total(Applied(r)) <= Total(Applied(r)')
           /\ Total(StoredFor(r)) <= Total(StoredFor(r)')
<1>1. /\ StoredFor(r) \subseteq Recorded
      /\ StoredFor(r)' \subseteq Recorded'
  BY NullAssumption DEF StoredFor, Recorded
<1>2. IsFiniteSet(StoredFor(r)) /\ IsFiniteSet(StoredFor(r)')
  BY <1>1, FS_Subset DEF StoredFinite
<1>3. /\ StoredFor(r) \in SUBSET Payments
      /\ StoredFor(r)' \in SUBSET Payments
      /\ Applied(r) \in SUBSET StoredFor(r)
      /\ Applied(r)' \in SUBSET (StoredFor(r)')
  BY DEF StoredFor, Applied
<1>4. IsFiniteSet(Applied(r)') /\ Applied(r)' \in SUBSET Payments
  BY <1>2, <1>3, FS_Subset
<1>5. Total(Applied(r)) <= Total(Applied(r)')
  BY <1>4, AppliedGrows, TotalMonotonic
<1>6. Total(StoredFor(r)) <= Total(StoredFor(r)')
  BY <1>2, <1>3, StoredGrows, TotalMonotonic
<1>7. Totals(r)
  BY <1>2, <1>3, TotalMonotonic DEF Totals
<1>8. Totals(r)'
  BY <1>2, <1>3, TotalMonotonic DEF Totals, Total
<1> QED
  BY <1>5, <1>6, <1>7, <1>8

-----------------------------------------------------------------------------
(* The column, and what a callback read and will report, are covered.      *)

ColumnBacked ==
    \A r \in Requests : received[r] <= Total(Applied(r))

ReadBacked ==
    \A w \in Workers :
        wpc[w] = "update" => wread[w] <= Total(Applied(wreq[w]))

ReportBacked ==
    \A w \in Workers :
        wpc[w] \in {"release", "callback"} =>
            wread[w] + Amount[wpay[w]] <= Total(StoredFor(wreq[w]))

FinishedBacked ==
    \A r \in Requests :
        Kind[r] = "checkout" /\ <<r, 2>> \in told =>
            CheckoutAmount[r] < Total(StoredFor(r))

Backed == ColumnBacked /\ ReadBacked /\ ReportBacked /\ FinishedBacked

\* The callback that writes a request adds its transfer to what it read, and
\* what it read did not count that transfer.
LEMMA UpdateAdds ==
    ASSUME TypeInv, CreditInv, StoredFinite,
           StoredFinite', [Next]_vars, ReadBacked,
           NEW w \in Workers, UpdateRequest(w),
           NEW r \in Requests, r = wreq[w]
    PROVE  wread[w] + Amount[wpay[w]] <= Total(Applied(r)')
<1> PICK p : p = wpay[w]
  OBVIOUS
<1>1. p \in Payments /\ wread[w] \in Nat
  BY DEF UpdateRequest, TypeInv, TypeOK, LocalsOK
<1>2. Amount[p] \in Nat
  BY <1>1, AmountAssumption
<1>3. p \in StoredFor(r)
  BY <1>1 DEF UpdateRequest, CreditInv, StoredOK, PastStages, StoredFor
<1>4. p \notin Applied(r)
  BY DEF UpdateRequest, Applied, Unwritten
<1>5. ~ Unwritten(p)'
  BY DEF UpdateRequest, Unwritten, CreditInv, OneCallback, PastStages,
         TypeInv, TypeOK
<1>6. p \in Applied(r)'
  BY <1>3, <1>5 DEF UpdateRequest, StoredFor, Applied, bookVars
<1>7. wread[w] <= Total(Applied(r))
  BY DEF ReadBacked, UpdateRequest
<1>8. /\ Applied(r) \cup {p} \subseteq Applied(r)'
      /\ Applied(r)' \in SUBSET Payments
  BY <1>1, <1>6, AppliedGrows DEF Applied, StoredFor
<1>9. IsFiniteSet(Applied(r)') /\ IsFiniteSet(Applied(r))
  <2>1. Applied(r)' \subseteq Recorded'
    BY <1>1, NullAssumption DEF Applied, StoredFor, Recorded
  <2> QED
    BY <1>8, <2>1, FS_Subset DEF StoredFinite
<1>10. Total(Applied(r) \cup {p}) = Total(Applied(r)) + Amount[p]
  BY <1>1, <1>4, <1>8, <1>9, TotalAdd
<1>11. Total(Applied(r) \cup {p}) <= Total(Applied(r)')
  BY <1>8, <1>9, TotalMonotonic
<1>12. /\ Total(Applied(r)) \in Nat
       /\ Total(Applied(r)') \in Nat
  BY <1>8, <1>9, TotalMonotonic
<1> QED
  BY <1>1, <1>2, <1>7, <1>10, <1>11, <1>12

\* The locals of a callback change only by its own steps.
LEMMA LocalsKept ==
    ASSUME TypeInv, [Next]_vars, NEW v \in Workers,
           wpc'[v] \in {"update", "release", "callback"}
    PROVE  /\ wreq[v] \in Requests /\ wpay[v] \in Payments
           /\ wreq'[v] = wreq[v] /\ wpay'[v] = wpay[v]
           /\ \/ ReadRequest(v)
              \/ UpdateRequest(v)
              \/ wread'[v] = wread[v] /\ ReleaseAddress(v)
              \/ wread'[v] = wread[v] /\ wpc'[v] = wpc[v]
<1> USE DEF workVars, TypeInv, TypeOK, LocalsOK
<1> DEFINE Kept == /\ wreq[v] \in Requests /\ wpay[v] \in Payments
                   /\ wreq'[v] = wreq[v] /\ wpay'[v] = wpay[v]
                   /\ \/ ReadRequest(v)
                      \/ UpdateRequest(v)
                      \/ wread'[v] = wread[v] /\ ReleaseAddress(v)
                      \/ wread'[v] = wread[v] /\ wpc'[v] = wpc[v]
<1>1. ASSUME NEW w \in Workers, NEW p \in Payments, CheckAddress(w, p)
      PROVE  Kept
  BY <1>1 DEF CheckAddress
<1>2. ASSUME NEW w \in Workers, RecordTransaction(w) PROVE Kept
  BY <1>2 DEF RecordTransaction, DuplicateLogId, Return
<1>3. ASSUME NEW w \in Workers, ReadRequest(w) PROVE Kept
  <2>1. CASE v = w
    BY <1>3, <2>1 DEF ReadRequest
  <2>2. CASE v # w
    BY <1>3, <2>2 DEF ReadRequest
  <2> QED
    BY <2>1, <2>2
<1>4. ASSUME NEW w \in Workers, UpdateRequest(w) PROVE Kept
  <2>1. CASE v = w
    BY <1>4, <2>1 DEF UpdateRequest
  <2>2. CASE v # w
    BY <1>4, <2>2 DEF UpdateRequest
  <2> QED
    BY <2>1, <2>2
<1>5. ASSUME NEW w \in Workers, ReleaseAddress(w) PROVE Kept
  <2>1. CASE v = w
    BY <1>5, <2>1 DEF ReleaseAddress
  <2>2. CASE v # w
    BY <1>5, <2>2 DEF ReleaseAddress
  <2> QED
    BY <2>1, <2>2
<1>6. ASSUME NEW w \in Workers, SendCallback(w) PROVE Kept
  BY <1>6 DEF SendCallback, Return
<1>7. ASSUME NEW w \in Workers, AddBalance(w) \/ WorkerFails(w) PROVE Kept
  BY <1>7 DEF AddBalance, WorkerFails, Return
<1>8. CASE Restart
  BY <1>8 DEF Restart
<1>9. CASE UNCHANGED workVars
  BY <1>9
<1> QED
  BY <1>1, <1>2, <1>3, <1>4, <1>5, <1>6, <1>7, <1>8, <1>9
  DEF Next, HttpStep, WorkerStep, TaskStep, vars, CheckCaller,
      GetAvailableAddress, ReserveAddress, CreatePaymentRequest,
      RefusePaymentRequest, UndoReservation, HttpFails, Pay, GrowOld,
      HourlyChecking, GetExpired, ReleaseExpired, ExpireFlag

\* The column: only UpdateRequest writes it.
LEMMA ColumnStep ==
    ASSUME TypeInv, CreditInv, StoredFinite,
           StoredFinite', Backed, [Next]_vars
    PROVE  ColumnBacked'
<1> SUFFICES ASSUME NEW r \in Requests
             PROVE  received'[r] <= Total(Applied(r)')
  BY DEF ColumnBacked
<1>1. received[r] <= Total(Applied(r)) /\ received[r] \in Nat
  BY DEF Backed, ColumnBacked, TypeInv, TypeOK
<1>2. /\ Total(Applied(r)) \in Nat /\ Total(Applied(r)') \in Nat
      /\ Total(Applied(r)) <= Total(Applied(r)')
  BY TotalsGrow DEF Totals
<1>3. received[r] <= Total(Applied(r)')
  BY <1>1, <1>2
<1>4. ASSUME NEW w \in Workers, UpdateRequest(w)
      PROVE  received'[r] <= Total(Applied(r)')
  <2>1. CASE r # wreq[w]
    BY <1>3, <1>4, <2>1 DEF UpdateRequest, TypeInv, TypeOK
  <2>2. CASE r = wreq[w]
    <3>1. wread[w] + Amount[wpay[w]] <= Total(Applied(r)')
      BY <1>4, <2>2, UpdateAdds DEF Backed
    <3>2. wread[w] \in Nat /\ Amount[wpay[w]] \in Nat
      BY <1>4, AmountAssumption
      DEF UpdateRequest, TypeInv, TypeOK, LocalsOK
    <3>3. received'[r] = NewReceived(w)
      BY <1>4, <2>2 DEF UpdateRequest, TypeInv, TypeOK
    <3>4. \/ received'[r] = Amount[wpay[w]]
          \/ received'[r] = wread[w] + Amount[wpay[w]]
      BY <3>3 DEF NewReceived
    <3> QED
      BY <1>2, <3>1, <3>2, <3>4
  <2> QED
    BY <2>1, <2>2
<1>5. CASE UNCHANGED received
  BY <1>3, <1>5
<1> QED
  BY <1>4, <1>5
  DEF Next, HttpStep, WorkerStep, TaskStep, vars, rowVars, CheckCaller,
      GetAvailableAddress, ReserveAddress, CreatePaymentRequest,
      RefusePaymentRequest, UndoReservation, HttpFails, Pay, CheckAddress,
      RecordTransaction, ReadRequest, ReleaseAddress, SendCallback,
      AddBalance, WorkerFails, GrowOld, HourlyChecking, GetExpired,
      ReleaseExpired, ExpireFlag, Restart

\* What was read: a read takes the column, and the totals only grow.
LEMMA ReadStep ==
    ASSUME TypeInv, CreditInv, StoredFinite,
           StoredFinite', Backed, [Next]_vars
    PROVE  ReadBacked'
<1> SUFFICES ASSUME NEW v \in Workers, wpc'[v] = "update"
             PROVE  wread'[v] <= Total(Applied(wreq[v])')
  BY DEF ReadBacked
<1>1. PICK r \in Requests : r = wreq[v] /\ r = wreq'[v]
  BY LocalsKept
<1>2. Applied(r)' = Applied(wreq[v])'
  BY <1>1
<1>3. /\ Total(Applied(r)) \in Nat /\ Total(Applied(r)') \in Nat
      /\ Total(Applied(r)) <= Total(Applied(r)')
  BY TotalsGrow DEF Totals
<1>4. wread'[v] <= Total(Applied(r)) /\ wread'[v] \in Nat
  <2>1. CASE ReadRequest(v)
    BY <1>1, <2>1
    DEF ReadRequest, Backed, ColumnBacked, TypeInv, TypeOK
  <2>2. CASE wread'[v] = wread[v] /\ wpc'[v] = wpc[v]
    BY <1>1, <2>2 DEF Backed, ReadBacked, TypeInv, TypeOK
  <2>3. ~ UpdateRequest(v) /\ ~ ReleaseAddress(v)
    BY DEF UpdateRequest, ReleaseAddress, TypeInv, TypeOK
  <2> QED
    BY <2>1, <2>2, <2>3, LocalsKept
<1> QED
  BY <1>2, <1>3, <1>4

\* What will be reported: an update left its transfer written.
LEMMA ReportStep ==
    ASSUME TypeInv, CreditInv, StoredFinite,
           StoredFinite', Backed, [Next]_vars
    PROVE  ReportBacked'
<1> SUFFICES ASSUME NEW v \in Workers, wpc'[v] \in {"release", "callback"}
             PROVE  wread'[v] + Amount[wpay'[v]]
                        <= Total(StoredFor(wreq[v])')
  BY DEF ReportBacked
<1>1. PICK r \in Requests : r = wreq[v] /\ r = wreq'[v]
  BY LocalsKept
<1>2. StoredFor(r)' = StoredFor(wreq[v])'
  BY <1>1
<1>3. /\ Total(StoredFor(r)) \in Nat /\ Total(StoredFor(r)') \in Nat
      /\ Total(StoredFor(r)) <= Total(StoredFor(r)')
      /\ Total(Applied(r)') \in Nat
      /\ Total(Applied(r)') <= Total(StoredFor(r)')
  BY TotalsGrow DEF Totals
<1>4. /\ wpay'[v] = wpay[v]
      /\ wread[v] \in Nat /\ Amount[wpay[v]] \in Nat
  BY LocalsKept, AmountAssumption DEF TypeInv, TypeOK
<1>5. CASE UpdateRequest(v)
  <2>1. wread[v] + Amount[wpay[v]] <= Total(Applied(r)')
    BY <1>1, <1>5, UpdateAdds DEF Backed
  <2>2. wread'[v] = wread[v]
    BY <1>5 DEF UpdateRequest
  <2> QED
    BY <1>2, <1>3, <1>4, <2>1, <2>2
<1>6. CASE wread'[v] = wread[v] /\ wpc[v] \in {"release", "callback"}
  <2>1. wread[v] + Amount[wpay[v]] <= Total(StoredFor(r))
    BY <1>1, <1>6 DEF Backed, ReportBacked
  <2> QED
    BY <1>2, <1>3, <1>4, <1>6, <2>1
<1>7. ~ ReadRequest(v) /\ (ReleaseAddress(v) => wpc[v] = "release")
  BY DEF ReadRequest, ReleaseAddress, TypeInv, TypeOK
<1> QED
  BY <1>5, <1>6, <1>7, LocalsKept

\* What was reported: a callback compares the price with what it reports.
LEMMA FinishedStep ==
    ASSUME TypeInv, StoredFinite, StoredFinite', Backed,
           [Next]_vars
    PROVE  FinishedBacked'
<1> SUFFICES ASSUME NEW r \in Requests, Kind[r] = "checkout",
                    <<r, 2>> \in told'
             PROVE  CheckoutAmount[r] < Total(StoredFor(r)')
  BY DEF FinishedBacked
<1>1. /\ Total(StoredFor(r)) \in Nat /\ Total(StoredFor(r)') \in Nat
      /\ Total(StoredFor(r)) <= Total(StoredFor(r)')
      /\ CheckoutAmount[r] \in Nat
  BY TotalsGrow, AmountAssumption DEF Totals
<1>2. CASE <<r, 2>> \in told
  <2>1. CheckoutAmount[r] < Total(StoredFor(r))
    BY <1>2 DEF Backed, FinishedBacked
  <2> QED
    BY <1>1, <2>1
<1>3. ASSUME NEW w \in Workers, SendCallback(w), <<r, 2>> \notin told
      PROVE  CheckoutAmount[r] < Total(StoredFor(r)')
  <2>1. wreq[w] = r /\ ReportedStatus(w) = 2 /\ wpc[w] = "callback"
    BY <1>3 DEF SendCallback
  <2>2. CheckoutAmount[r] < wread[w] + Amount[wpay[w]]
    BY <2>1 DEF ReportedStatus, Finishes
  <2>3. wread[w] + Amount[wpay[w]] <= Total(StoredFor(r))
    BY <2>1 DEF Backed, ReportBacked
  <2>4. wread[w] \in Nat /\ Amount[wpay[w]] \in Nat
    BY <2>1, AmountAssumption DEF TypeInv, TypeOK, LocalsOK
  <2> QED
    BY <1>1, <2>2, <2>3, <2>4
<1>4. CASE UNCHANGED told
  BY <1>2, <1>4
<1> QED
  BY <1>2, <1>3, <1>4
  DEF Next, HttpStep, WorkerStep, TaskStep, vars, bookVars, CheckCaller,
      GetAvailableAddress, ReserveAddress, CreatePaymentRequest,
      RefusePaymentRequest, UndoReservation, HttpFails, Pay, CheckAddress,
      RecordTransaction, ReadRequest, UpdateRequest, ReleaseAddress,
      AddBalance, WorkerFails, GrowOld, HourlyChecking, GetExpired,
      ReleaseExpired, ExpireFlag, Restart

\* All four hold in every state.
LEMMA BackedInvariant == Spec => []Backed
<1>1. Init => Backed
  <2> SUFFICES ASSUME Init PROVE Backed
    OBVIOUS
  <2>1. /\ \A r \in Requests : received[r] = 0
        /\ \A w \in Workers : wpc[w] = "idle"
        /\ told = {}
    BY DEF Init
  <2>2. ColumnBacked
    <3>1. \A r \in Requests : Applied(r) = {}
      BY NullAssumption DEF Init, Applied, StoredFor
    <3> QED
      BY <2>1, <3>1, SumEmpty DEF ColumnBacked, Total
  <2> QED
    BY <2>1, <2>2 DEF Backed, ReadBacked, ReportBacked, FinishedBacked
<1>2. TypeInv /\ CreditInv /\ StoredFinite /\ StoredFinite' /\ Backed
          /\ [Next]_vars => Backed'
  <2> SUFFICES ASSUME TypeInv, CreditInv, StoredFinite,
                      StoredFinite', Backed, [Next]_vars
               PROVE  Backed'
    OBVIOUS
  <2>1. ColumnBacked'
    BY ColumnStep
  <2>2. ReadBacked'
    BY ReadStep
  <2>3. ReportBacked'
    BY ReportStep
  <2>4. FinishedBacked'
    BY FinishedStep
  <2> QED
    BY <2>1, <2>2, <2>3, <2>4 DEF Backed
<1> QED
  BY <1>1, <1>2, TypeInvariant, CreditInvariant, FiniteInvariant, PTL
  DEF Spec

\* The received column never claims more than the transfers stored for the
\* request, whatever callbacks overlap, fail or are cut off by a restart.
THEOREM ReceivedNeverInvented == Spec => []ReceivedIsBacked
<1>1. TypeInv /\ StoredFinite /\ Backed => ReceivedIsBacked
  <2> SUFFICES ASSUME TypeInv, StoredFinite, Backed,
                      NEW r \in Requests
               PROVE  received[r] <= Total(StoredFor(r))
    BY DEF ReceivedIsBacked, Total, FunSum, StoredFor
  <2>1. StoredFor(r) \subseteq Recorded
    BY NullAssumption DEF StoredFor, Recorded
  <2>2. IsFiniteSet(StoredFor(r))
    BY <2>1, FS_Subset DEF StoredFinite
  <2>3. /\ Total(Applied(r)) \in Nat /\ Total(StoredFor(r)) \in Nat
        /\ Total(Applied(r)) <= Total(StoredFor(r))
    BY <2>2, TotalMonotonic DEF StoredFor, Applied
  <2> QED
    BY <2>3 DEF Backed, ColumnBacked, TypeInv, TypeOK
<1> QED
  BY <1>1, TypeInvariant, FiniteInvariant, BackedInvariant, PTL

\* A merchant is told that a checkout is finished only when the transfers
\* stored for it exceed its price.
THEOREM FinishedIsPaid == Spec => []FinishedMeansPaid
<1>1. Backed => FinishedMeansPaid
  BY DEF Backed, FinishedBacked, FinishedMeansPaid, Total, FunSum, StoredFor
<1> QED
  BY <1>1, BackedInvariant, PTL

=============================================================================
