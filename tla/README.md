# Verification of the payment gateway

TLA+ models of the NestJS payment gateway in `src/`, the TLC runs that check
them, and theorems proved with TLAPS. File names below are relative to
`src/src/` of the repository. `PROJECT.json` lists components, runs, the
source lines behind every definition, hazards and theorems.

    tlc -workers 2 -config payments_safety.cfg MCPaymentRequests.tla
    tlapm PaymentRequestsProofs.tla

## 1. The system

A merchant calls `POST /payment/deposit` or `/payment/checkout`; the gateway
reserves a wallet address from its pool, stores a pending payment request and
answers with the address. Listeners watch the chains. A transfer to a reserved
address is stored, applied to the request, reported to the merchant's callback
URL and added to its balance. Cron tasks expire old requests and pay balances
out. It is one Node process over one SQL database.

| component | state | operations |
|---|---|---|
| payment requests (`request/`) | `payment_request` rows: status, received, address | create, `updatePaymentStatus`, `getExpired`, `expireFlag` |
| address pool (`address/`) | `address` rows: available or not | `getAvailableAddress`, `updateAddress`, `checkAddress` |
| transactions (`transactions/`) | rows with a unique `logId` | `create` |
| balances (`balance/`) | one row per user and token | `addBalance`, `setBalance`, `getBalances` |
| merchant callbacks (`utils/utils.service.ts`, `callback-status/`) | one row per report | `sendCallback`, `checkServerRequest` |
| scheduled tasks (`tasks/`) | none | hourly expiry; daily, weekly, monthly, yearly payout |
| native coin listener (`baseListener/net.listener`, `cache.service`) | pending list, sync block, two timers | `runSync`, `checkTxns` |
| token listener (`baseListener/peg.listener`) | sync block per token, a timer | `runSync` |
| bitcoin listener (`btcListener/`) | sync block, a timer | `runSync` |
| TRC20 listener (`trcListener/`) | sync block, latest block, block cache, a timer | `runSync` |
| pending list (`utils/LinkedList.ts`) | doubly linked nodes | insert, search, traverse, delete |
| users and authentication (`users/`, `auth/`, `mail/`) | user rows, the redis cache of one-time tokens | register, verify, login, 2FA set-up and confirmation, forgotten password |
| settings (`settings/`) | security row, withdrawal interval and addresses | `setEmailVerified`, `setTfa`, `resetTfa`, `findByWithdrawSetting` |
| user requests (`user-request/`) | one row per request | create, approve, deny |
| tokens (`tokens/`) | rows with network, name, sync block | create, delete, `updateTokenSync`, `updateTokenSyncByNetwork` |
| supported tokens (`supportedToken/`) | rows with a flag | `enable`, `checkToken` |
| others (SOL, collector, pending collect, bep20, logs, missed blocks, wiring) | see section 8 | |

They interact in three ways: by calls (a listener calls
`TransactionsService.create`, then `RequestService.updatePaymentStatus`, which
calls the address pool, the callback and the balance), through rows they share
(address availability, request status), and through objects in memory (the
native listener and its cache share one linked list).

**What is hard here.** Nothing runs in parallel, but every `await` lets another
handler run and no database transaction spans two statements. `forEach(async ...)`
starts callbacks nobody awaits, so they overlap with each other, with the next
timer and with cron tasks. Chains deliver a transfer again (rescanned blocks).
A restart keeps the rows and loses pending lists, timers and handlers. A single
failing await leaves the statements before it in force.

**What makes a component correct.** Requests: a settled request is not
reopened, a finished one was paid for, an overdue one is settled. Pool: two
pending requests do not share an address. Transactions and balances: a transfer
is credited at most once, and, unless a fault hits, exactly once. Listeners:
the sync block never passes a transfer that was not handed over, every block is
reached, nothing is stored before it is confirmed. List: no operation loses an
element it was not asked to delete. Accounts: a second factor is on only after
its user answered a code of it, and a session is signed only for such a factor;
a verification link is not used up for nothing. Payouts: no credit misses its
row while its token exists, and nobody is paid more than was credited.

## 2. The modules

| module | models | state and actions |
|---|---|---|
| `PaymentRequests` | request handlers, address pool, `updatePaymentStatus`, hourly expiry | tables as functions of requests, addresses and transfers; one program counter per HTTP call (`hpc`), listener callback (`wpc`) and for the task (`tpc`); one action per awaited statement |
| `TransferLedger` | what the gateway promises of a transfer | its fate: `unseen`, `stored`, `credited`, or `lost` after it was stored |
| `PaymentsRefineLedger` | mapping of `PaymentRequests` to the ledger | `Fate` from `txnOf`, `credits` and the callbacks |
| `LinkedList` | `utils/LinkedList.ts` | a list is a record of head and nodes; unlinked nodes keep their pointers |
| `ListHistory` | any sequence of list calls | `list`, and as history every node inserted, in list order (`order`), and those deleted |
| `NativeListener` | `net.listener` and `cache.service` over `LinkedList` | block loop, `checkTxns` rounds, callbacks counted per transfer and stage |
| `BlockScan` | `peg.listener`, `btc.service`, `trc20.service` | `kind` picks the listener; rounds, callbacks, sync updates in flight |
| `Accounts` | `AuthService`, `UsersService.create`, the security row, mails, user requests | each call of a handler is a record in `calls` with what it has read (`row`, `entry`) and its next await (`at`); `cache` is redis; `made`, `proved`, `sessions` are history |
| `Balances` | `enableToken`, `BalanceService`, creation and deletion of tokens, `sendFunds` with its cron patterns, `withdrawFunds` | rows named by owner and token (`NoRow` where there is none); `listed` are the tokens that have a row; a payout (`job`) is a transfer and a reset that run side by side |
| `PaymentRequestsProofs`, `ListHistoryProofs`, `NativeListenerProofs`, `BlockScanProofs`, `AccountsProofs`, `BalancesProofs` | theorems of the specifications | |
| `SumLemmas`, `LinkedListProofs` | lemmas about sums over finite sets and about the list's operators | |
| `MC*` | instances for TLC | |

`BlockScan` holds three listeners because what surrounds a round is the same in
all of them: sync block, timer, callbacks, unique log id. Their rounds are
separate actions, each guarded by its `kind`. `Accounts` holds five components
for the same reason: they meet in one security row and one cache.

**Accounts.** A random token stands for itself, its mail and its secret; a code
is answered right by whoever has `delivered` it, and wrong otherwise. A token is
answered only where it was handed out for: a link on the verification page, a
set-up token at `tfa/confirm`. `confirmTfaCode` looks a token up by what the
cache holds and takes any entry that carries a user with a security row
(`Accepts`): that of `login`, and that of `forgotPassword`, which has no mailed
code. So `SessionIsProved` does not say that a code was compared for the token
at hand. It says that the factor a token is signed for was answered when it was
set up, whichever handler left the entry and however old its row is; nor does it
say that the factor is still on. `validateUser` reads the user before the password is
compared and `login` works on that row (`call.row`). A link without an entry
leaves the string `'test user'` behind (`CacheJunk`, `auth.service.ts:139`).
Redis outlives a restart of the process; the entry of a forgotten password has
no time to live (`CacheReset`).

**Native listener.** Each round looks its token up again by the network and the
name it was started with (`net.listener.service.ts:39`), outside the `try`.
`found` says whether a row has both. Without one the round throws, nobody
handles that, and the process ends on every start (`RunSyncThrows`).

**Block listeners.** `OnChain` gives each kind of listener its transfers. A TRON
block without transactions has no list of them, so `forEach`
(`trc20.service.ts:146`) throws before the sync block moves: the process ends,
and the restarted listener meets the same block (`FetchEmptyBlock`). `empty`
picks such blocks among `EmptyBlocks`. Of the updates of sync blocks in flight
when the process ends, any subset may still reach the database (`LoseMemory`).

**Balances.** A balance refers to its token's row by id. `DeleteToken` takes the
balances with it (`balance.entity.ts:20`), unless a stored transaction refers to
the token: `transaction.entity.ts:12` has no `onDelete`, so the database refuses
(`stored`). `supported_token` rows and requests only name network and coin and
outlive the token. `AddBalance` looks the token up by these names first and
throws when there is none; after `CreateToken` the row has a new id and no
balance. An amount is a number of payments. `withdrawFunds` is not awaited:
`SendSignedTransaction` and `SetBalance` of a payout come in either order, and
what the transfer throws ends the process (`Crash`), which the platform starts
again. The payouts of a coin share a key, so of the transfers that were given
one nonce the chain takes the first. `FirstStep` is what a payout does first:
`sendFunds` passes the token's address where `withdrawFunds` takes a private key
(`tasks.service.ts:85`, `address.service.ts:187`), so a token on an EVM network
throws, TRON is asked for a transfer without a contract and returns null, and
SOL is given the TRON client and throws.

**How an await is modelled.** A handler that awaits is cut in front of each
awaited statement; a SQL statement is one action together with the synchronous
code after it. Locals that survive an await are variables (`haddr`, `wread`,
`base`, `seen`, `todo`), because acting on them later is what goes wrong.
`checkServerRequest`, `checkToken` and price queries only read, so a call
starts at the address lookup. Callbacks are not identified: `jobs` counts them
per transfer and by what they do next.

**Data that is abstracted.** Addresses, transfers, tokens and log ids are model
values. A transfer carries the log id its listener gives it: the log's own id
for tokens, the transaction for bitcoin (`tx_index` is shared by its outputs,
`btc.service.ts:108`) and TRON, a random number for native coins
(`cache.service.ts:41`, where no insert is refused). Amounts are naturals;
strings, hex values and 32-bit columns are left out (section 8).

**Slips.** Each module has definitions named `Slip...`: mistaken forms of a
definition of the code. No specification uses them; replacing the definition by
its slip must violate the property `PROJECT.json` names.

### Input assumptions

`CallerLoaded` and `SettingLoaded` say whether `settingsService.findOne({pubKey})`
returns its user and `userService.findOne({id})` its setting.
`AbstractService.findOne` (`common/abstract.service.ts`) takes a list of
relations and loads none unless it is asked to. At
`utils/utils.service.ts:82` and `request/request.service.ts:35` the callers ask
for none and go on to use `setting.user.id` and `user.setting`. In this code
both constants are therefore FALSE:

- with `CallerLoaded = FALSE`, `CheckCaller` ends every call as failed before
  an address is taken;
- with `SettingLoaded = FALSE`, `SendCallback` ends `updatePaymentStatus`
  before the balance is touched: a processed deposit is never credited.

The payment runs set both to TRUE: they check the protocol the handlers
follow once the relations are there, as the controller's tests assume. Nothing
they show is evidence that a call succeeds with the relations missing.

`TokenLoaded` of `Balances` says whether `getBalances` selects what a payout
needs. It selects `token.name` and `token.decimal` (`balance.service.ts:61`), so
in this code it is FALSE, and a payout has no effect on any table or chain:
`network` is undefined and `withdrawFunds` throws, and `id` is undefined, so
`setBalance` names no row and updates none (`Reset`). Nothing is sent and
nothing is deducted. `enabling` sets it to FALSE; `balances` sets it to TRUE and
checks the order of steps a payout would take once the columns are selected (no
test of the repository runs it). The theorems hold for both values.

Every run of `Balances` takes the column names in the conditions of
`balance.service.ts` (`userId`, `tokenId`, unquoted) to be those of the row's
owner and token. It also takes each pair of network and name to belong to one
token, as `enableToken` does, and tokens to keep their names: `PUT /token/:id`
could change them.

`found` of `NativeListener` is TRUE when a token row has the network and name
the listener looks for. The listeners are started with the networks `BEP20` and
`ERC20` for coin rows found under `BNB` and `ETH` (`listener.service.ts:32`,
`ethListener.service.ts:29`, `constants.ts:2-3`). With no further row under the
first names `found` is FALSE, and the scan does nothing but end the process.
Every run starts from both values; `EventuallyApplied` asks for TRUE, and what
`native_overlap` shows needs it.

## 3. The runs

| run | question | result |
|---|---|---|
| `payments_safety` | overlapping calls and callbacks, expiry and one fault: is a transfer credited once, `received` backed by stored transfers, a report of "finished" true, no settled request reopened? Does it implement `TransferLedger`? | holds |
| `payments_serial` | one call and one callback at a time, three requests, no expiry: has each request its own reserved address and a processed checkout more than its price? | holds |
| `payments_progress` | do calls end, without keeping an address they have no row for, overdue requests get settled, stored transfers get credited once merchants answer? | holds |
| `list_history` | any sequence of list calls on up to five nodes: is an element lost, and when does a deletion fail? | holds |
| `native_safety` | one fault anywhere: is only the confirmed stored, and until a fault nothing skipped? | holds |
| `native_liveness` | are deep transfers applied, when the token is found, nothing fails and merchants answer? | holds |
| `accounts` | two overlapping calls of any account handlers and one lost mail, expired entry or restart: is a factor on that its user never answered, or a session signed for one? Do overlapping clicks use a link up? | holds |
| `balances` | payments arrive, a token is deleted and created again, and two payout runs of two owners of one coin overlap: is anybody paid more than was credited? | holds |
| `enabling` | two overlapping calls enable and disable two tokens while an administrator deletes and creates them: does a credit find its row, unless the token was deleted? | holds |
| `native_overlap` | is a transfer stored once although `checkTxns` rounds overlap? | violated |
| `scan_rounds` | does a sync block pass a transfer, and is a log id applied twice? | holds |
| `scan_progress` | is every block scanned whatever fails and however late a sync update lands, and are its transfers applied? | holds |

What the violation shows: `cache.service.ts:55` sets the next timer while the
callbacks of the `forEach` at line 31 still run. Both rounds find the entry and
store it under two random log ids. (The boundary block that two scans share,
below, is a second way to such a pair; the trace is not about it.)

Behaviour met while modelling that has no run of its own, each kept in the
model as the code has it:

- `getAvailableAddress` (`address.service.ts:126`) and the UPDATE that reserves
  the row are two statements, so two overlapping calls can be given one
  address; a transfer to it is matched to either request, and the catch block of
  one call (`request.controller.ts:61`) may free the address of the other. This
  is why `OwnAddress` and `PendingIsReserved` are checked in `payments_serial`
  only; `MaxCalls = 2` there violates both. The theorems about them name the
  exclusions they need (`Serial`, section 6).
- `updatePaymentStatus` (`request.service.ts:59, 77`) writes `received +
  amount` from a row read before: two overlapping transfers overwrite each
  other, and `ProcessedShowsPrice` fails with two `Workers` (it is a theorem
  where reads do not overlap, `NoSharedRead`).
  `FinishedMeansPaid` and `ReceivedIsBacked` show that the error is one-sided:
  a stale read can lose a payment in the column, never invent one.
- `approveRequest` never writes the status (`user-request.service.ts:55`): an
  approved request stays pending. Two admins both pass the status test.
- A mail that fails leaves the user row behind (`users.service.ts:43`): the
  email is taken and nothing sends its link again (`MailLink`).
- The weekly pattern `* * * * * 1` fires every second of a Monday
  (`tasks.service.ts:46`): its runs overlap (`SendFunds`) and can send one
  balance twice, so `PaidAtMostCredited` leaves out owners who chose 7.
- `setBalance(..., 0)` overwrites credits that came after the read
  (`tasks.service.ts:94`): they are lost to the owner, never paid twice. It is
  also issued whether or not the transfer goes through, since nobody awaits
  `withdrawFunds` (line 85). Both need `TokenLoaded`; without it no payout
  changes a balance.
- Deleting a token (`token.controller.ts:59`) deletes its balances and leaves
  the pair supported, so requests for it are still admitted. Their payments find
  no token, or, once it was created again, no balance, until the merchant
  enables it anew: what they credit is lost (`dropped` in `CreditsLand`).
- The entry of a forgotten password (`auth.service.ts:310`) is one that
  `confirmTfaCode` accepts; for an email factor it compares the code of the body
  with none.
- A callback URL that never answers holds `updatePaymentStatus` before the
  balance is touched (`utils.service.ts:36` has no timeout). Without
  `MerchantsAnswer` `StoredIsCredited` and both `EventuallyApplied` fail.
- A TRON block without transactions stops the TRON listener for good
  (`FetchEmptyBlock`); without its premise on `empty`, `EveryBlockScanned` fails.
- A checkout paid exactly its price stays pending: the test is strict
  (`request.service.ts:56`; `Finishes`).
- The expiry UPDATE does not look at the status (`request.service.ts:113`), so
  a processed row becomes expired (`ExpireFlag`, `Overdue`).
- `getExpired` and `expireFlag` compute two cut-offs; a row that ages in
  between is expired and its address stays reserved (`GetExpired`).
- `deleteNode` leaves `node.next.prev` alone (`LinkedList.ts:40`): a later
  deletion of the successor changes an unlinked node and the element stays
  listed. `FailsBehindUnlinked` says this is the only way a deletion fails.
- The native scan starts at the block the last one ended with
  (`net.listener.service.ts:51`), so its transfers enter the list twice.
- A failure inside the token loop ends the token listener until the process
  restarts (`peg.listener.service.ts:160`; `TokenLoopFails`).
- Two outputs of one bitcoin transaction have one log id, and the second is
  refused (`btc.service.ts:108`). `scan_rounds` has such a pair.

## 4. Bounds

| bound | meaning | why the value is enough |
|---|---|---|
| `MaxCalls` | HTTP calls in flight | 2 overlap; 1 is the serial run |
| `Workers` | listener callbacks at once | two callbacks give every pairwise race: read against update, release against credit, redelivery of a transfer still in work |
| `MaxOld` | requests that reach eight hours | all of them in the runs with expiry |
| `Addresses` | 2, or 3 in the serial run | one fewer than requests would force sharing through the pool; reuse after release happens with 2 |
| amounts | prices 1 and 2, transfers 2 and 4 | below, at and above a price, and two transfers that pass it together |
| `MaxFaults` | failing awaits and restarts | 1: the code never retries, so a second fault meets the state the first one left; progress properties are stated per fault |
| `MaxHeight` | blocks of the chain | first block, one with transfers, and enough above it to be confirmed or reached |
| `MaxJobs` | callbacks of one transfer per stage | 1 in `scan_*`: the older one has moved on before a rescan hands it over again; `native_overlap` has 2 |
| `MaxWrites` | sync updates in flight | 2, so that they can land in the wrong order |
| `MinBlockDiff`, `MaxBlock`, `Batch` | 20, 500, 100 in the code | 1, 1, 1: a round may be up to date, within the limit or beyond it |
| `Calls`, `Tokens` of `Accounts` | calls at once, tokens ever made | 2 calls give every pairwise overlap; 3 tokens make a link, a set-up and a login, or two of one kind |
| `MaxFaults` of `Accounts`, `Balances` | mails lost, entries expired, restarts; transfers that throw | 1, and 0 in `balances` and `enabling`: a payout that throws still ends the process there, once |
| `Rows`, `MaxCredits`, `Runs` | balances, payments of each, payout runs | `balances`: two owners who share the key of one coin; two payments of one of them, so that one falls between the read and the reset; two runs. `enabling`: two tokens of one owner, so that a transfer of one can pay a request for the other |
| `Calls` of `Balances` | calls of `enableToken` | 2 in `enabling`, where their overlap matters; 1 in `balances` |
| `LateBlock`, `OnTron` | block of both transfers, those on the TRON chain | block 3 in `scan_progress`, the second block a listener reaches: it is scanned after an update of the sync block that may be late or lost. The second transfer is of another token, and for bitcoin an output of the same transaction; TRON, whose block cache and empty blocks make the most states, has one: its rounds look at a block, not at tokens. Block 2 in `scan_rounds`, and both on TRON |
| `EmptyBlocks` | blocks the TRON node may give without transactions | the one after the transfers, so that they are not out of reach |
| `MaxRows`, `Nodes` | rows of a transfer, list nodes ever allocated | two rows are a duplicate; up to five nodes give a deletion behind an unlinked one with neighbours on both sides |

Symmetry (callbacks, addresses, list nodes, calls, tokens, payout runs) is used in the runs without liveness only.

`CHECK_DEADLOCK FALSE` is set in `list_history` (the node budget runs out), in
the `scan_*` runs (the token listener really stops after a loop failure) and in
`accounts` (with all tokens made, and the user removed, no call can start). TLC
checks deadlock in all other runs: the hourly task and the listeners' timers
always go on, and a payout run can always start once the last one has ended.

## 5. Fairness

Weak fairness stands for four facts, and is given to nothing else:

- a handler that has started runs on: the event loop takes every resolved
  promise, and the database and the nodes answer or reject. The latter is
  assumed of what the operator runs or chooses, for the code sets no timeout
  there either (`btc.service.ts:71, 88`);
- a timer that was set fires, and node-cron fires the hourly task;
- the chain grows (listeners only);
- a callback that was started goes on by itself, up to the await that belongs to
  a merchant's server.

None is given to the call of a merchant's server: the post of
`utils.service.ts:36` has no timeout. In `PaymentRequests` that is `SendCallback`,
in the listener modules `UpdatePaymentStatus`, which contains it. What comes
after is promised under `MerchantsAnswer`, a premise of `StoredIsCredited` and of
both `EventuallyApplied`: no callback stands at that await for good.
`OverdueIsSettled` and `CallsEnd` do not need it.

No fairness is given to customers (`Pay`), merchants (`CheckCaller`), age
(`GrowOld`), failures, restarts or `CheckAddress` of the payment core, which
stands for a listener that may or may not see a transfer. `EventuallyApplied`
of the listeners asks that the request stays pending and no fault hits, in the
native listener that its token is found and the chain grows beyond the
confirmation depth, and of TRON that no block is empty.
`EveryBlockScanned` asks for nothing of bitcoin, since a failed round sets its
timer (`finally`) or ends the process, which is then restarted. TRON is promised
the blocks before the first empty one, and the token listener progress only
while its loop does not fail.

## 6. What is proved

The theorems hold for every value of the constants that meets the modules'
assumptions, so for any number of requests, addresses, transfers, callbacks,
blocks and faults.

| theorem | module | says |
|---|---|---|
| `TypeCorrect` | `PaymentRequestsProofs` | the type invariant of the payment core |
| `SettledStaysSettled` | `PaymentRequestsProofs` | a processed or expired request is never pending again |
| `CreditedAtMostOnce` | `PaymentRequestsProofs` | a transfer is credited at most once, and only when stored |
| `DepositsShowTransfers` | `PaymentRequestsProofs` | a processed deposit shows one transfer stored for it and paid to its address |
| `LedgerImplemented` | `PaymentRequestsProofs` | the payment core implements `TransferLedger` |
| `ReceivedNeverInvented` | `PaymentRequestsProofs` | the received column never exceeds what was stored for the request |
| `FinishedIsPaid` | `PaymentRequestsProofs` | "finished" is reported only for a checkout paid above its price |
| `PriceShownUnlessReadsOverlap` | `PaymentRequestsProofs` | a processed checkout shows more than its price, while `NoSharedRead` |
| `AddressIsOwnWhenSerial` | `PaymentRequestsProofs` | pending requests do not share an address, while `Serial` |
| `PendingIsReservedWhenSerial` | `PaymentRequestsProofs` | the address of a pending request is reserved, while `Serial` |
| `ListTypesHold` | `ListHistoryProofs` | the pointers of a list stay nodes or null |
| `NothingIsLost` | `ListHistoryProofs` | a traversal meets every element nobody deleted, in list order |
| `DeletionsFailBehindUnlinked` | `ListHistoryProofs` | a deletion fails only behind a node unlinked before |
| `OnlyConfirmedStored` | `NativeListenerProofs` | the native listener stores confirmed, successful transfers only |
| `ListenerTypesHold` | `NativeListenerProofs` | the type invariant of the native listener and its list |
| `NothingIsSkipped` | `NativeListenerProofs` | without faults, a transfer of a scanned block is listed, with a callback, or stored |
| `NeverSkips` | `BlockScanProofs` | no sync block of the other listeners passes a transfer not handed over |
| `TypeCorrect` | `BlockScanProofs` | the type invariant of the block listeners; no queried range ends past the chain |
| `ScanLedgerImplemented` | `BlockScanProofs` | the block listeners implement `TransferLedger`: a log id is stored once and applied at most once |
| `TypeCorrect` | `AccountsProofs` | the type invariant of the accounts |
| `FactorsAreProved` | `AccountsProofs` | a factor that is on was answered by its user |
| `SessionsAreProved` | `AccountsProofs` | an access token is signed only for a factor its user answered when it was set up |
| `LinksStayGood` | `AccountsProofs` | without faults a delivered link has verified its email or still can |
| `TypeCorrect` | `BalancesProofs` | the types of balances and payouts; no balance exceeds its credits |
| `EveryCreditLands` | `BalancesProofs` | a credit finds its row, unless the token was deleted once |
| `NobodyOverpaid` | `BalancesProofs` | an owner whose payouts do not overlap is paid at most what was credited, while the process runs, whatever is credited or deleted meanwhile |

**Payments.** `TypeOK` alone is not inductive: a callback indexes the tables
with `wpay` and `wreq`, which may be null. `TypeInv` adds `LocalsOK`: outside
"idle" they are a transfer and a request. `RowOK` and `WorkOK` say
which rows a row, a callback and the task can refer to; with them no late
UPDATE reopens a settled request, because only `CreatePaymentRequest` writes
"pending" and its row does not exist yet. `CreditInv` is the strengthening for
crediting: `StoredOK` (a callback past the insert works on a transfer stored
for its own request and not credited yet) and `OneCallback` (two callbacks past
the insert work on different transfers). The unique log id enters at one place:
`RecordTransaction` stores only an unstored transfer, so no other callback is
past the insert with it. The same invariant gives the refinement: each step
leaves every fate alone, stores one transfer, credits one, or loses those of
the callbacks it ends.

**Sums.** `Total` adds the amounts of a set of transfers, so `ReceivedIsBacked`
needs that a sum grows with its set and by how much. `SumLemmas` proves that by
descent: the finite sets for which a claim about their sum fails, ordered by
inclusion, would have a least one. The column alone is not inductive, since a
callback writes what it read before an await. `Backed` therefore also bounds
what a callback holds: what it read is covered by the transfers already applied
(`ReadBacked`), what it will report by the transfers stored (`ReportBacked`),
and its own transfer is stored and not yet applied. Stale reads are allowed:
they only make the left side smaller. `StoredFinite` says that only finitely
many transfers are stored; `Payments` itself may be infinite.

**Handlers that keep apart.** `OwnAddress`, `PendingIsReserved` and
`ProcessedShowsPrice` are false of the code when handlers overlap (section 3).
Their theorems have the form `Spec /\ []C => []P`, where C is the exclusion
they need, and bound nothing else: any number of calls, callbacks, faults and
restarts. `NoSharedRead`: no two callbacks stand between read and write of one
request. `Serial`: one call at a time between lookup and row (`OneHolder`), one
callback at a time settling a request (`OneSettling`), and no request still
pending at eight hours (`SettledInTime`: the expiry frees an address in one
statement and writes the status in another). Every state of `payments_serial`
satisfies both, since it has one call in flight, one callback and no old
request; requests are paid, processed and their addresses used again there.
`PendingHolds`, that the addresses of pending rows, of callbacks about to
release one and of calls without a row are all distinct, makes the argument
inductive.

**Pending list.** `Traverse` is a recursive function. `LinkedListProofs` proves
what it returns as a path from the head, again by descent, on the number of
nodes left. `WellLinked` is the invariant: the allocated nodes have an order
that every `next` follows and every `prev` goes against, unlinked nodes
included (`Ordered`), so there is no cycle; and no `prev` of a listed node
points past its predecessor (`BackLinked`). The stale `prev` that `deleteNode`
leaves is allowed: it leads to a node off the path. Cutting a node out of the
path then removes that node or, behind an unlinked one, nothing. With
`HistoryInv`, which adds that every undeleted node is on the path, this gives
`NothingIsLost` and `DeletionsFailBehindUnlinked`.

**Native listener.** `ConfirmedInv` carries the depth and the success of a
transfer along its callbacks (`JobsOK`) into its rows (`RowsOK`). `HeightOK`
(`checkTxns` never knows more blocks than there are) makes the depth computed
from an old block number safe: the chain has only grown since. `NothingSkipped`
speaks of the stored sync block; `SkipInv` follows the scan instead (`Scanned`:
up to the block before the one being fetched, or the one about to be saved),
says that a callback past the insert has stored its row (`Stored`), so that
removing the entry loses nothing, and rests on `WellLinked` of the pending list
for what insertions and removals do to it. `Unfound` covers the listener without
its token, whose sync block never moves.

**Block listeners.** `NothingSkipped` speaks of stored sync blocks; to be
inductive it must hold of every number that may become one: what a round has
read (`ReadCovered`), updates in flight (`SentCovered`) and the end of a range
about to be saved (`RangeCovered`). For the block listeners all of it holds
across tokens, since they hand over a block for all tokens and give them one
sync block. Late updates that move a sync block back do no harm, because a
covered block stays covered. For the types `TypeInv` adds that a round which
queries or saves is at a token. The refinement rests on `ToApplyOK` (a callback
between its insert and its update is the only one of its log id, which is
stored and not applied) and `AppliedOK` (what was applied was stored, and
applied once). Overlapping scans start any number of callbacks for a transfer;
the unique log id lets one of them past the insert. A restart, or an empty TRON
block, turns what is in hand into "lost"; one lemma per invariant says what
`LoseMemory` keeps, whichever updates it lets through.

**Accounts.** A handler acts on what its call holds, so `BaseInv` ties each
call to the step it is at: `CallsOK` (the token of a call was made for that kind
of handler, the entry it read is what was made) and `EntriesOK` (the cache holds
nothing, what the token was made for, or junk for a link).
`FactorInv` adds `TokensProved` (set-up tokens are made for verified emails,
those of a login or a forgotten password for factors already answered) and `CallsProved` (a row that lets a
login go on, and the factor of a confirmation past its code, were answered), so
that `SetTfa`, whenever it lands, turns on a factor that was answered and
`ConfirmTfaCode` signs for one.
`LinkInv` adds `DeliveredMade` (a delivered token was made) and `ClicksOK`: a
click that finds nothing, or junk, comes after one that has taken the entry and
verifies the email, so what it deletes or leaves behind is of no use any more.

**Balances.** `CreditInv` follows the order in which enabling works: for a token
that was never deleted, a flag, an insert, an accepted request each imply the
row of the balance (`FlagsHaveRow`, `RequestsHaveRow` and the like), and no step
takes a row away except with its token (`RowsStay`). `PayInv` says that nothing
is sent while `TokenLoaded` is FALSE (`NothingSent`), and otherwise speaks of
owners whose runs do not overlap: at most one run works for an owner (`OneRun`),
it reads each once (`ReadOnce`), and until its reset, which a deletion of the
token takes away, the row holds at least what it read (`ResetOK`); then what was sent, is in flight, and will still be in the
row never exceeds what was credited (`PaidOK`). The invariant says nothing after
a crash: a transfer that went out before the reset was issued goes out again.

## 7. What is only model-checked

Every invariant and every safety action property of a passing run is a theorem.
What is left to TLC:

- Liveness (`StoredIsCredited`, `CallsEnd`, `OverdueIsSettled`,
  `EventuallyApplied`, `EveryBlockScanned`): fairness and ENABLED are beyond
  the prover.
- The violation (`native_overlap`): a counterexample, which TLC finds and no
  theorem states. That `OwnAddress`,
  `PendingIsReserved` and `ProcessedShowsPrice` fail without the conditions of
  their theorems is likewise known from TLC.

## 8. What is not modelled

- **SOL listener**: its constructor has the start commented out
  (`sol.service.ts:31`), so its scan never runs.
- **Pending collect**: no handler starts `run()` and none inserts a row.
- **Collector, bep20 receiver, missed blocks, logs**: single reads and writes no
  modelled handler depends on.
- **Parts of the accounts**: `resetPassword` (`auth.service.ts:324`) has no
  route. `users.update` (`PUT /users/:id`) may change the email while
  `emailVerified` stays: `Accounts` takes a user for the owner of one email, and
  what it says of verified emails and mailed factors is not said of an account
  whose email was changed. A suspended user is refused
  at the password (`auth.service.ts:57`), which is a login that is not made; the
  reason of a denied request and the mails to its requester carry no state.
- **Renaming tokens**: `PUT /token/:id` may change the network, name or sync
  block of a row; no model has it.
- **The merchant's settings**: `settings.controller.ts` finds the row through
  `req.user.setting`, which the access token never carries. Interval and
  withdrawal addresses are constants of `Balances`.
- **Resending a callback** (`callback-status.controller.ts:60`): the row is
  loaded without its user, so line 63 throws before anything is sent.
- **Amounts**: token and TRC20 listeners pass strings, which `+` concatenates
  (`peg.listener.service.ts:148`), and columns have 32 bits. Amounts are
  naturals here; a refused UPDATE is one of the faults of the payment core.
- **Keys and senders**: `sendERC20` and `sendTRX` are not reached, since no
  caller passes a contract; how keys and addresses are derived, gas and
  decimals are left out.
- **`peg.listener.service.ts:83-88`**: fetches a script over HTTP and evaluates
  it. What it does is not in the repository, so the model leaves those lines
  out; everything said of the token listener assumes they change no state.
- **Wiring** (`app.module.ts`, `main.ts`, `listener/`, `database/`, guards and
  strategies): framework configuration.

## 9. Plan

Done, in this order: the payment core, the pending list, the native listener,
the block listeners, accounts, balances and payouts, with the theorems above.
What is left:

1. Composition: `BlockScan` and `NativeListener` as the environment of
   `PaymentRequests`, through `TransferLedger`, which the payment core and the
   block listeners implement each on their own.
2. Operators for amounts (strings, NaN, 32-bit columns) checked against the
   integer sum over bounded inputs.
3. Liveness of accounts and payouts: a call that waits ends, and a due payout
   reaches the chain when the token is loaded.
4. Renaming of tokens, with `found` and the pair of a request as state.

There are at most a dozen runs worth keeping, so a new component may take the
place of a run whose question another one answers as well.
