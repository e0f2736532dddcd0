--------------------------- MODULE PaymentRequests ---------------------------
(***************************************************************************)
(* The payment-request core of the gateway: the handlers of                *)
(* POST /payment/deposit and POST /payment/checkout, the address pool they *)
(* draw from, the processing of a payment a chain listener has seen, and   *)
(* the hourly expiry task.                                                 *)
(*                                                                         *)
(* Every `await` of the code is a point where another handler may run, so  *)
(* a handler is a small state machine with one action per awaited          *)
(* statement.  One SQL statement is atomic; nothing larger is, because the *)
(* code opens no transaction.                                              *)
(***************************************************************************)
EXTENDS Naturals, FiniteSetsExt

CONSTANTS
    Requests,        \* HTTP calls; the row a call creates has the same name
    Addresses,       \* addresses the wallet generator may produce
    Payments,        \* on-chain transfers, by the log id the listener stores
    Workers,         \* invocations of a listener's per-transfer callback
    Kind,            \* which endpoint a call uses
    CheckoutAmount,  \* checkoutAmount of a checkout call
    Amount,          \* value of a transfer
    CallerLoaded,    \* settingsService.findOne({pubKey}) carries its user
    SettingLoaded,   \* userService.findOne({id}) carries its setting
    MaxCalls,        \* bound: HTTP calls in flight at once
    MaxOld,          \* bound: rows that live to be eight hours old
    MaxFaults,       \* bound: failing awaits and process restarts
    NoAddress, NoRequest, NoPayment

ASSUME KindAssumption == Kind \in [Requests -> {"deposit", "checkout"}]
ASSUME AmountAssumption == /\ CheckoutAmount \in [Requests -> Nat]
                           /\ Amount \in [Payments -> Nat]
ASSUME LoadedAssumption == /\ CallerLoaded \in BOOLEAN
                           /\ SettingLoaded \in BOOLEAN
ASSUME BoundsAssumption == /\ MaxCalls \in Nat
                           /\ MaxOld \in Nat
                           /\ MaxFaults \in Nat
ASSUME NullAssumption == /\ NoAddress \notin Addresses
                         /\ NoRequest \notin Requests
                         /\ NoPayment \notin Payments

VARIABLES
    addr,      \* address table: no row yet, row available, row not available
    status,    \* payment_request.status, "none" while there is no row
    received,  \* payment_request.received
    holds,     \* payment_request.address_id
    old,       \* rows created more than eight hours ago
    hpc,       \* where each HTTP call is
    haddr,     \* the `address` local of each HTTP call
    paid,      \* the chain: where a transfer went, NoAddress if not sent yet
    txnOf,     \* transaction table: the stored transfers, each with the
               \* request it was stored for (which its row does not keep)
    wpc,       \* where each listener callback is
    wpay,      \* its transfer
    wreq,      \* its request
    wread,     \* received, as read by updatePaymentStatus
    told,      \* callback_status rows: <<request, reported status>>
    credits,   \* how many times a transfer was added to a balance
    tpc,       \* where the hourly task is
    tcut,      \* the rows older than its latest cut-off date
    trel,      \* requests whose address it is still releasing
    faults     \* faults so far

httpVars == <<hpc, haddr>>
rowVars  == <<status, received, holds>>
workVars == <<wpc, wpay, wreq, wread>>
bookVars == <<txnOf, told, credits>>
taskVars == <<tpc, tcut, trel>>
vars == <<addr, rowVars, old, httpVars, paid, workVars, bookVars, taskVars,
          faults>>

Recorded == {p \in Payments : txnOf[p] # NoRequest}
Created  == {r \in Requests : status[r] # "none"}

Init ==
    /\ addr = [a \in Addresses |-> "absent"]
    /\ status = [r \in Requests |-> "none"]
    /\ received = [r \in Requests |-> 0]
    /\ holds = [r \in Requests |-> NoAddress]
    /\ old = {}
    /\ hpc = [r \in Requests |-> "idle"]
    /\ haddr = [r \in Requests |-> NoAddress]
    /\ paid = [p \in Payments |-> NoAddress]
    /\ txnOf = [p \in Payments |-> NoRequest]
    /\ wpc = [w \in Workers |-> "idle"]
    /\ wpay = [w \in Workers |-> NoPayment]
    /\ wreq = [w \in Workers |-> NoRequest]
    /\ wread = [w \in Workers |-> 0]
    /\ told = {}
    /\ credits = [p \in Payments |-> 0]
    /\ tpc = "idle"
    /\ tcut = {}
    /\ trel = {}
    /\ faults = 0

-----------------------------------------------------------------------------
(* Slips that the properties below must catch.  Each is the mistaken form  *)
(* of a definition further down; no specification uses them.               *)

\* the available filter of the lookup is dropped
SlipAnyAddress == {a \in Addresses : addr[a] # "absent"}

\* a refused row is answered without the catch block
SlipNoUndo(r) ==
    /\ hpc[r] = "create"
    /\ hpc' = [hpc EXCEPT ![r] = "failed"]
    /\ haddr' = [haddr EXCEPT ![r] = NoAddress]
    /\ UNCHANGED <<addr, rowVars, old, paid, workVars, bookVars, taskVars,
                   faults>>

\* checkAddress matches requests of any status
SlipAnyStatus(r, a) == addr[a] = "reserved" /\ holds[r] = a

\* the log id is random, so no insert is refused
SlipRandomLogId(w) == FALSE

\* every request accumulates, or none does
SlipAccumulate(w) == wread[w] + Amount[wpay[w]]
SlipOverwrite(w) == Amount[wpay[w]]

\* received is added to a column that already contains it
SlipAddTwice(w) == wread[w] + 2 * Amount[wpay[w]]

\* the price itself is enough
SlipAtPrice(w) ==
    \/ Kind[wreq[w]] = "deposit"
    \/ CheckoutAmount[wreq[w]] <= wread[w] + Amount[wpay[w]]

\* a transfer that does not finish the request writes its status back
SlipWritePending(w) ==
    IF CheckoutAmount[wreq[w]] < wread[w] + Amount[wpay[w]]
    THEN "processed" ELSE "pending"

\* an unfinished request is reported with the status of an unpaid one
SlipReportZero(w) ==
    IF CheckoutAmount[wreq[w]] < wread[w] + Amount[wpay[w]] THEN 2 ELSE 0

\* the handler ends after the callback of an unfinished request
SlipReturnUnfinished(w) ==
    /\ wpc[w] = "callback"
    /\ told' = told \cup {<<wreq[w], 1>>}
    /\ wpc' = [wpc EXCEPT ![w] = "idle"]
    /\ UNCHANGED <<addr, rowVars, old, httpVars, paid, wpay, wreq, wread,
                   txnOf, credits, taskVars, faults>>

\* partly paid requests are left alone by the expiry task
SlipKeepPartlyPaid(r) == r \in tcut /\ received[r] = 0

-----------------------------------------------------------------------------
(* The HTTP calls.  checkServerRequest and checkToken only read, so a call *)
(* that passes them starts at the address lookup; one whose setting comes  *)
(* without a user throws at setting.user.id and never takes an address.    *)

CheckCaller(r) ==
    /\ hpc[r] = "idle"
    /\ Cardinality({s \in Requests :
                      hpc[s] \notin {"idle", "served", "failed"}}) < MaxCalls
    /\ hpc' = [hpc EXCEPT ![r] = IF CallerLoaded THEN "find" ELSE "failed"]
    /\ UNCHANGED <<addr, rowVars, old, haddr, paid, workVars, bookVars,
                   taskVars, faults>>

Available == {a \in Addresses : addr[a] = "available"}

\* generateNewWallet returns an address of which there is no row.
Generated == {a \in Addresses : addr[a] = "absent"}

\* An address whose row is available, or a newly generated one when none is.
GetAvailableAddress(r) ==
    /\ hpc[r] = "find"
    /\ \E a \in Addresses :
          /\ haddr' = [haddr EXCEPT ![r] = a]
          /\ \/ a \in Available /\ UNCHANGED addr
             \/ /\ Available = {}
                /\ a \in Generated
                /\ addr' = [addr EXCEPT ![a] = "available"]
    /\ hpc' = [hpc EXCEPT ![r] = "reserve"]
    /\ UNCHANGED <<rowVars, old, paid, workVars, bookVars, taskVars, faults>>

ReserveAddress(r) ==
    /\ hpc[r] = "reserve"
    /\ addr' = [addr EXCEPT ![haddr[r]] = "reserved"]
    /\ hpc' = [hpc EXCEPT ![r] = "create"]
    /\ UNCHANGED <<rowVars, old, haddr, paid, workVars, bookVars, taskVars,
                   faults>>

CreatePaymentRequest(r) ==
    /\ hpc[r] = "create"
    /\ status' = [status EXCEPT ![r] = "pending"]
    /\ holds' = [holds EXCEPT ![r] = haddr[r]]
    /\ hpc' = [hpc EXCEPT ![r] = "served"]
    /\ haddr' = [haddr EXCEPT ![r] = NoAddress]
    /\ UNCHANGED <<addr, received, old, paid, workVars, bookVars,
                   taskVars, faults>>

\* The row is refused (a body without a callback violates NOT NULL).
RefusePaymentRequest(r) ==
    /\ hpc[r] = "create"
    /\ hpc' = [hpc EXCEPT ![r] = "undo"]
    /\ UNCHANGED <<addr, rowVars, old, haddr, paid, workVars, bookVars,
                   taskVars, faults>>

\* The catch block gives the address back and rethrows.
UndoReservation(r) ==
    /\ hpc[r] = "undo"
    /\ addr' = [addr EXCEPT ![haddr[r]] = "available"]
    /\ hpc' = [hpc EXCEPT ![r] = "failed"]
    /\ haddr' = [haddr EXCEPT ![r] = NoAddress]
    /\ UNCHANGED <<rowVars, old, paid, workVars, bookVars, taskVars, faults>>

HttpStep(r) ==
    \/ GetAvailableAddress(r)
    \/ ReserveAddress(r)
    \/ CreatePaymentRequest(r)
    \/ RefusePaymentRequest(r)
    \/ UndoReservation(r)

-----------------------------------------------------------------------------
(* The chain: a customer sends a transfer to an address the gateway gave   *)
(* out, at any time after it did.                                          *)

Pay(p) ==
    /\ paid[p] = NoAddress
    /\ \E r \in Created : paid' = [paid EXCEPT ![p] = holds[r]]
    /\ UNCHANGED <<addr, rowVars, old, httpVars, workVars, bookVars, taskVars,
                   faults>>

-----------------------------------------------------------------------------
(* A listener's callback for one transfer, then updatePaymentStatus.  The  *)
(* same transfer may be delivered again at any time (a rescanned block).   *)

\* The callback of w has returned: its locals are gone.
Return(w) ==
    /\ wpc' = [wpc EXCEPT ![w] = "idle"]
    /\ wpay' = [wpay EXCEPT ![w] = NoPayment]
    /\ wreq' = [wreq EXCEPT ![w] = NoRequest]
    /\ wread' = [wread EXCEPT ![w] = 0]

\* checkAddress joins the pending requests of a reserved address and the
\* listener takes paymentRequests[0] of a result with no ORDER BY.
Matches(r, a) ==
    /\ addr[a] = "reserved"
    /\ holds[r] = a
    /\ status[r] = "pending"

CheckAddress(w, p) ==
    /\ wpc[w] = "idle"
    /\ paid[p] # NoAddress
    /\ \E r \in Requests : /\ Matches(r, paid[p])
                          /\ wreq' = [wreq EXCEPT ![w] = r]
    /\ wpay' = [wpay EXCEPT ![w] = p]
    /\ wpc' = [wpc EXCEPT ![w] = "record"]
    /\ UNCHANGED <<addr, rowVars, old, httpVars, paid, wread, bookVars,
                   taskVars, faults>>

\* The unique index on logId refuses a transfer that is already stored.
DuplicateLogId(w) == wpay[w] \in Recorded

RecordTransaction(w) ==
    /\ wpc[w] = "record"
    /\ IF DuplicateLogId(w)
       THEN Return(w) /\ UNCHANGED txnOf
       ELSE /\ wpc' = [wpc EXCEPT ![w] = "read"]
            /\ txnOf' = [txnOf EXCEPT ![wpay[w]] = wreq[w]]
            /\ UNCHANGED <<wpay, wreq, wread>>
    /\ UNCHANGED <<addr, rowVars, old, httpVars, paid, told, credits,
                   taskVars, faults>>

ReadRequest(w) ==
    /\ wpc[w] = "read"
    /\ wread' = [wread EXCEPT ![w] = received[wreq[w]]]
    /\ wpc' = [wpc EXCEPT ![w] = "update"]
    /\ UNCHANGED <<addr, rowVars, old, httpVars, paid, wpay, wreq, bookVars,
                   taskVars, faults>>

\* received after this transfer, and whether the request is then finished
NewReceived(w) ==
    IF Kind[wreq[w]] = "deposit" THEN Amount[wpay[w]]
                                 ELSE wread[w] + Amount[wpay[w]]

Finishes(w) ==
    \/ Kind[wreq[w]] = "deposit"
    \/ CheckoutAmount[wreq[w]] < wread[w] + Amount[wpay[w]]

\* A transfer that does not finish the request leaves the status column out.
NewStatus(w) == IF Finishes(w) THEN "processed" ELSE status[wreq[w]]

UpdateRequest(w) ==
    /\ wpc[w] = "update"
    /\ received' = [received EXCEPT ![wreq[w]] = NewReceived(w)]
    /\ status' = [status EXCEPT ![wreq[w]] = NewStatus(w)]
    /\ wpc' = [wpc EXCEPT ![w] = IF Finishes(w) THEN "release"
                                               ELSE "callback"]
    /\ UNCHANGED <<addr, holds, old, httpVars, paid, wpay, wreq, wread,
                   bookVars, taskVars, faults>>

ReleaseAddress(w) ==
    /\ wpc[w] = "release"
    /\ addr' = [addr EXCEPT ![holds[wreq[w]]] = "available"]
    /\ wpc' = [wpc EXCEPT ![w] = "callback"]
    /\ UNCHANGED <<rowVars, old, httpVars, paid, wpay, wreq, wread, bookVars,
                   taskVars, faults>>

ReportedStatus(w) == IF Finishes(w) THEN 2 ELSE 1

\* sendCallback dereferences the setting first; a failed POST is stored too.
SendCallback(w) ==
    /\ wpc[w] = "callback"
    /\ IF SettingLoaded
       THEN /\ told' = told \cup {<<wreq[w], ReportedStatus(w)>>}
            /\ wpc' = [wpc EXCEPT ![w] = "credit"]
            /\ UNCHANGED <<wpay, wreq, wread>>
       ELSE Return(w) /\ UNCHANGED told
    /\ UNCHANGED <<addr, rowVars, old, httpVars, paid, txnOf, credits,
                   taskVars, faults>>

AddBalance(w) ==
    /\ wpc[w] = "credit"
    /\ credits' = [credits EXCEPT ![wpay[w]] = @ + 1]
    /\ Return(w)
    /\ UNCHANGED <<addr, rowVars, old, httpVars, paid, txnOf, told, taskVars,
                   faults>>

WorkerStep(w) ==
    \/ RecordTransaction(w)
    \/ ReadRequest(w)
    \/ UpdateRequest(w)
    \/ ReleaseAddress(w)
    \/ SendCallback(w)
    \/ AddBalance(w)

-----------------------------------------------------------------------------
(* The hourly task.  getExpired and expireFlag each compute their own      *)
(* cut-off from Date.now(); the releases are started in a forEach and not  *)
(* awaited, so they race with expireFlag's UPDATE.                         *)

GrowOld(r) ==
    /\ r \in Created \ old
    /\ Cardinality(old) < MaxOld
    /\ old' = old \cup {r}
    /\ UNCHANGED <<addr, rowVars, httpVars, paid, workVars, bookVars, taskVars,
                   faults>>

HourlyChecking ==
    /\ tpc = "idle"
    /\ trel = {}
    /\ tcut' = old
    /\ tpc' = "query"
    /\ UNCHANGED <<addr, rowVars, old, httpVars, paid, workVars, bookVars,
                   trel, faults>>

GetExpired ==
    /\ tpc = "query"
    /\ trel' = {r \in tcut : status[r] = "pending"}
    /\ tcut' = old
    /\ tpc' = "flag"
    /\ UNCHANGED <<addr, rowVars, old, httpVars, paid, workVars, bookVars,
                   faults>>

ReleaseExpired(r) ==
    /\ r \in trel
    /\ addr' = [addr EXCEPT ![holds[r]] = "available"]
    /\ trel' = trel \ {r}
    /\ UNCHANGED <<rowVars, old, httpVars, paid, workVars, bookVars, tpc, tcut,
                   faults>>

Overdue(r) == r \in tcut

ExpireFlag ==
    /\ tpc = "flag"
    /\ status' = [r \in Requests |-> IF Overdue(r) THEN "expired"
                                                  ELSE status[r]]
    /\ tpc' = "idle"
    /\ tcut' = {}
    /\ UNCHANGED <<addr, received, holds, old, httpVars, paid, workVars,
                   bookVars, trel, faults>>

TaskStep ==
    \/ HourlyChecking
    \/ GetExpired
    \/ \E r \in Requests : ReleaseExpired(r)
    \/ ExpireFlag

-----------------------------------------------------------------------------
(* Faults.  A rejected await in updatePaymentStatus or in the callback is  *)
(* caught and logged: the rest of the handler is skipped; so is what       *)
(* addBalance throws when the coin of the request is no token any more.    *)
(* In an HTTP call it leads to the catch block, and there it ends the      *)
(* call.  A restart forgets every handler in flight and keeps the tables.  *)

WorkerFails(w) ==
    /\ wpc[w] # "idle"
    /\ faults < MaxFaults
    /\ faults' = faults + 1
    /\ Return(w)
    /\ UNCHANGED <<addr, rowVars, old, httpVars, paid, bookVars, taskVars>>

HttpFails(r) ==
    /\ faults < MaxFaults
    /\ faults' = faults + 1
    /\ \/ /\ hpc[r] = "reserve"
          /\ hpc' = [hpc EXCEPT ![r] = "undo"]
          /\ UNCHANGED haddr
       \/ /\ hpc[r] \in {"find", "undo"}
          /\ hpc' = [hpc EXCEPT ![r] = "failed"]
          /\ haddr' = [haddr EXCEPT ![r] = NoAddress]
    /\ UNCHANGED <<addr, rowVars, old, paid, workVars, bookVars, taskVars>>

Restart ==
    /\ faults < MaxFaults
    /\ faults' = faults + 1
    /\ hpc' = [r \in Requests |->
                 IF hpc[r] \in {"idle", "served"} THEN hpc[r] ELSE "failed"]
    /\ haddr' = [r \in Requests |-> NoAddress]
    /\ wpc' = [w \in Workers |-> "idle"]
    /\ wpay' = [w \in Workers |-> NoPayment]
    /\ wreq' = [w \in Workers |-> NoRequest]
    /\ wread' = [w \in Workers |-> 0]
    /\ tpc' = "idle"
    /\ tcut' = {}
    /\ trel' = {}
    /\ UNCHANGED <<addr, rowVars, old, paid, bookVars>>

-----------------------------------------------------------------------------
Next ==
    \/ \E r \in Requests : CheckCaller(r) \/ HttpStep(r) \/ HttpFails(r)
    \/ \E p \in Payments : Pay(p)
    \/ \E w \in Workers, p \in Payments : CheckAddress(w, p)
    \/ \E w \in Workers : WorkerStep(w) \/ WorkerFails(w)
    \/ \E r \in Requests : GrowOld(r)
    \/ TaskStep
    \/ Restart

Spec == Init /\ [][Next]_vars

\* A handler that has started runs on (the event loop), and the cron fires.
\* sendCallback waits for the merchant's server without a timeout, so nothing
\* promises that it comes back.
Fairness ==
    /\ \A r \in Requests : WF_vars(HttpStep(r))
    /\ \A w \in Workers : WF_vars(WorkerStep(w) /\ wpc[w] # "callback")
    /\ WF_vars(HourlyChecking)
    /\ WF_vars(GetExpired)
    /\ \A r \in Requests : WF_vars(ReleaseExpired(r))
    /\ WF_vars(ExpireFlag)

FairSpec == Spec /\ Fairness

-----------------------------------------------------------------------------
(* Properties.                                                             *)

WorkStages == {"idle", "record", "read", "update", "release", "callback",
               "credit"}
HttpStages == {"idle", "find", "reserve", "create", "undo", "served", "failed"}

\* The tables and the locals of the handlers have their types.
TypeOK ==
    /\ addr \in [Addresses -> {"absent", "available", "reserved"}]
    /\ status \in [Requests -> {"none", "pending", "processed", "expired"}]
    /\ received \in [Requests -> Nat]
    /\ holds \in [Requests -> Addresses \cup {NoAddress}]
    /\ old \in SUBSET Requests
    /\ hpc \in [Requests -> HttpStages]
    /\ haddr \in [Requests -> Addresses \cup {NoAddress}]
    /\ paid \in [Payments -> Addresses \cup {NoAddress}]
    /\ txnOf \in [Payments -> Requests \cup {NoRequest}]
    /\ wpc \in [Workers -> WorkStages]
    /\ wpay \in [Workers -> Payments \cup {NoPayment}]
    /\ wreq \in [Workers -> Requests \cup {NoRequest}]
    /\ wread \in [Workers -> Nat]
    /\ told \in SUBSET (Requests \X {1, 2})
    /\ credits \in [Payments -> Nat]
    /\ tpc \in {"idle", "query", "flag"}
    /\ tcut \in SUBSET Requests
    /\ trel \in SUBSET Requests
    /\ faults \in 0 .. MaxFaults

\* A transfer reaches a balance at most once, and only if it is stored: the
\* unique logId makes redelivery, concurrent callbacks and restarts harmless.
CreditedOnce ==
    \A p \in Payments :
        /\ credits[p] <= 1
        /\ credits[p] = 1 => p \in Recorded

\* The received column never claims more than the transfers stored for the
\* request: a stale read in updatePaymentStatus can lose one, never add one.
ReceivedIsBacked ==
    \A r \in Requests :
        received[r] <= MapThenSumSet(LAMBDA p : Amount[p],
                                     {p \in Payments : txnOf[p] = r})

\* A processed deposit shows the amount of one transfer stored for it and
\* paid to its address, although later transfers overwrite the column.
DepositShowsATransfer ==
    \A r \in Requests :
        Kind[r] = "deposit" /\ status[r] = "processed" =>
            \E p \in Recorded : /\ txnOf[p] = r
                                /\ paid[p] = holds[r]
                                /\ received[r] = Amount[p]

\* A merchant is told that a request is finished (status 2) only when the
\* transfers stored for it really exceed its price, even if the column the
\* same callbacks write has meanwhile been overwritten by a stale value.
FinishedMeansPaid ==
    \A r \in Requests :
        Kind[r] = "checkout" /\ <<r, 2>> \in told =>
            CheckoutAmount[r] <
                MapThenSumSet(LAMBDA p : Amount[p],
                              {p \in Payments : txnOf[p] = r})

\* A request that was settled, whichever way, is never pending again, so no
\* listener matches it again; late updates of received must not reopen it.
NeverReopened ==
    [][\A r \in Requests : status[r] \in {"processed", "expired"} =>
                              status'[r] \in {"processed", "expired"}]_vars

\* A request past eight hours does not stay pending, whatever fails.
OverdueIsSettled ==
    \A r \in Requests : (r \in old) ~> (status[r] # "pending")

\* No callback waits for a merchant's server for good.
MerchantsAnswer == \A w \in Workers : []<>(wpc[w] # "callback")

\* If the servers of the merchants answer or reject, and unless a fault hits,
\* every stored transfer reaches the merchant's balance, and the merchant hears
\* of its request first.
StoredIsCredited ==
    MerchantsAnswer =>
       \A p \in Payments :
          (p \in Recorded) ~>
             \/ faults > 0
             \/ credits[p] = 1 /\ \E s \in {1, 2} : <<txnOf[p], s>> \in told

\* Every call ends, served or failed; and unless a fault hits, an address it
\* took does not stay taken without a row: its request holds it, or it is
\* available again.
CallsEnd ==
    \A r \in Requests :
       /\ (hpc[r] # "idle") ~> (hpc[r] \in {"served", "failed"})
       /\ \A a \in Addresses :
             (haddr[r] = a) ~>
                (faults > 0 \/ holds[r] = a \/ addr[a] = "available")

-----------------------------------------------------------------------------
(* What comments and tests of the code say and the code does not keep, all *)
(* of it or once handlers overlap.                                         *)

\* "found available address" (address.service.ts:124): the address a call is
\* given is its own, so a transfer to it has one pending request to go to.
OwnAddress ==
    \A r, s \in Requests :
        status[r] = "pending" /\ status[s] = "pending" /\ holds[r] = holds[s]
            => r = s

\* "expect(updatedAddress.available).toBe(false)" after a successful call
\* (request.controller.spec.ts:81): a pending request's address is reserved.
PendingIsReserved ==
    \A r \in Requests : status[r] = "pending" => addr[holds[r]] = "reserved"

\* "checkout finished" (request.service.ts:57): a processed checkout row shows
\* more than its price.
ProcessedShowsPrice ==
    \A r \in Requests :
        Kind[r] = "checkout" /\ status[r] = "processed" =>
            CheckoutAmount[r] < received[r]

=============================================================================
