------------------------------- MODULE Balances -------------------------------
(***************************************************************************)
(* The balances of the merchants: the row that enabling a token creates,   *)
(* the credits of deposits, and the payouts by which TasksService sends a  *)
(* balance to its owner and sets it to 0 (SupportedTokenController,        *)
(* SupportedTokenService, TokenController, BalanceService,                 *)
(* TasksService.sendFunds, AddressService.withdrawFunds).                  *)
(*                                                                         *)
(* A balance is named by its owner and its token, and refers to the row of *)
(* the token by id; supported tokens and requests only name network and    *)
(* coin, so they outlive it.  withdrawFunds is started and not awaited: a  *)
(* payout is two processes, the transfer and the reset of the row.  What   *)
(* either of them throws ends the process.                                 *)
(***************************************************************************)
EXTENDS Integers

CONSTANTS
    Rows,        \* balances
    OwnerOf,     \* the user of each
    TokenOf,     \* its token
    Network,     \* of each token
    Contracts,   \* tokens that have an address, the others are coins
    Addressed,   \* balances whose owner has an address for the network
    Withdraw,    \* setting.withdraw of each user
    TokenLoaded, \* getBalances carries id, network and address of a token
    Calls,       \* calls of enableToken in flight
    Runs,        \* runs of sendFunds in flight
    MaxCredits,  \* bound: payments of each balance
    MaxFaults    \* bound: rejected transfers and restarts

Users == {OwnerOf[b] : b \in Rows}
Tokens == {TokenOf[b] : b \in Rows}

\* 0 is instant and -1 manual: no task looks for either.
Intervals == {1, 7, 30, 365}

ASSUME RowAssumption == /\ Rows # {}
                        /\ OwnerOf \in [Rows -> Users]
                        /\ TokenOf \in [Rows -> Tokens]
                        /\ Addressed \in SUBSET Rows
ASSUME SettingAssumption == Withdraw \in [Users -> Intervals \cup {-1, 0}]
ASSUME TokenAssumption ==
    /\ Network \in [Tokens -> {"evm", "tron", "bitcoin", "solana"}]
    /\ Contracts \in SUBSET Tokens
    /\ TokenLoaded \in BOOLEAN
ASSUME BoundAssumption == MaxCredits \in [Rows -> Nat] /\ MaxFaults \in Nat

VARIABLES
    listed,   \* tokens that have a row
    dropped,  \* tokens whose row was deleted at least once (history)
    stored,   \* tokens some row of the transaction table refers to
    balance,  \* the balance table, NoRow where there is no row
    flags,    \* flags of the supported_token rows of the pair
    calls,    \* calls of enableToken
    inserts,  \* pairs whose supported_token row is being inserted
    due,      \* accepted requests whose payment is not credited yet
    credited, \* amounts passed to addBalance (history)
    sent,     \* amounts the chain has paid out, up to one too many (history)
    reading,  \* users each run has still to read the balances of
    job,      \* the payout a run has started for a balance
    faults

NoRow == -1

Capped(n, max) == IF n > max THEN max ELSE n

Call(step, b, flag) == [at |-> step, row |-> b, flag |-> flag]
Idle == Call("idle", CHOOSE b \in Rows : TRUE, TRUE)
CallSteps == {"idle", "create", "lookup", "update"}

\* send: what withdrawFunds does next; reset: setBalance is to come
NoJob == [amount |-> 0, send |-> "none", reset |-> FALSE]

listVars == <<listed, dropped, stored>>
tokenVars == <<listVars, flags, calls, inserts, due>>
runVars == <<reading, job>>
vars == <<balance, tokenVars, credited, sent, runVars, faults>>

Init ==
    /\ listed = Tokens
    /\ dropped = {}
    /\ stored = {}
    /\ balance = [b \in Rows |-> NoRow]
    /\ flags = [b \in Rows |-> {}]
    /\ calls = [c \in Calls |-> Idle]
    /\ inserts = {}
    /\ due = [b \in Rows |-> 0]
    /\ credited = [b \in Rows |-> 0]
    /\ sent = [b \in Rows |-> 0]
    /\ reading = [r \in Runs |-> {}]
    /\ job = [r \in Runs |-> [b \in Rows |-> NoJob]]
    /\ faults = 0

-----------------------------------------------------------------------------
(* Slips that the properties below must catch.                             *)

\* enableToken does not create the balance
SlipNoBalance(c, b, flag) ==
    /\ calls[c] = Idle
    /\ TokenOf[b] \in listed
    /\ calls' = [calls EXCEPT ![c] = Call("lookup", b, flag)]
    /\ UNCHANGED <<listVars, balance, flags, inserts, due, credited, sent,
                   runVars, faults>>

\* the amount is added twice
SlipAddTwice(b) == IF balance[b] = NoRow THEN NoRow ELSE balance[b] + 2

\* the reset waits for a balance that nothing was added to
SlipResetUnchanged(r, b) == IF balance[b] = job[r][b].amount THEN 0
                                                             ELSE balance[b]

-----------------------------------------------------------------------------
(* Enabling a token that is listed.  The row of the balance comes first;   *)
(* then enable looks the supported token up, and updates its flag or       *)
(* starts an insert, which leaves the flag at its default, and answers     *)
(* without waiting.                                                        *)

EnableToken(c, b, flag) ==
    /\ calls[c] = Idle
    /\ TokenOf[b] \in listed
    /\ calls' = [calls EXCEPT ![c] = Call("create", b, flag)]
    /\ UNCHANGED <<listVars, balance, flags, inserts, due, credited, sent,
                   runVars, faults>>

CreateBalance(c) ==
    LET b == calls[c].row IN
    /\ calls[c].at = "create"
    /\ balance' = [balance EXCEPT ![b] = IF @ = NoRow THEN 0 ELSE @]
    /\ calls' = [calls EXCEPT ![c].at = "lookup"]
    /\ UNCHANGED <<listVars, flags, inserts, due, credited, sent, runVars,
                   faults>>

FindSupported(c) ==
    LET b == calls[c].row IN
    /\ calls[c].at = "lookup"
    /\ IF flags[b] # {}
       THEN calls' = [calls EXCEPT ![c].at = "update"] /\ UNCHANGED inserts
       ELSE calls' = [calls EXCEPT ![c] = Idle] /\ inserts' = inserts \cup {b}
    /\ UNCHANGED <<listVars, balance, flags, due, credited, sent, runVars,
                   faults>>

SetFlag(c) ==
    /\ calls[c].at = "update"
    /\ flags' = [flags EXCEPT ![calls[c].row] = {calls[c].flag}]
    /\ calls' = [calls EXCEPT ![c] = Idle]
    /\ UNCHANGED <<listVars, balance, inserts, due, credited, sent, runVars,
                   faults>>

InsertSupported(b) ==
    /\ b \in inserts
    /\ inserts' = inserts \ {b}
    /\ flags' = [flags EXCEPT ![b] = @ \cup {TRUE}]
    /\ UNCHANGED <<listVars, balance, calls, due, credited, sent, runVars,
                   faults>>

-----------------------------------------------------------------------------
(* Payments.                                                               *)

\* checkToken admits a request for a pair with a row that is on.
CheckToken(b) ==
    /\ TRUE \in flags[b]
    /\ due[b] + credited[b] < MaxCredits[b]
    /\ due' = [due EXCEPT ![b] = @ + 1]
    /\ UNCHANGED <<listVars, balance, flags, calls, inserts, credited, sent,
                   runVars, faults>>

\* What the UPDATE of addBalance leaves; without a row it updates none.
Added(b) == IF balance[b] = NoRow THEN NoRow ELSE balance[b] + 1

\* A transfer of token k to the address of a request is stored under k (no
\* listener compares k with the coin of the request), and updatePaymentStatus
\* credits the coin; addBalance throws if that is no token any more.
AddBalance(b, k) ==
    /\ due[b] > 0
    /\ k \in listed /\ Network[k] = Network[TokenOf[b]]
    /\ due' = [due EXCEPT ![b] = @ - 1]
    /\ stored' = stored \cup {k}
    /\ IF TokenOf[b] \in listed
       THEN /\ credited' = [credited EXCEPT ![b] = @ + 1]
            /\ balance' = [balance EXCEPT ![b] = Added(b)]
       ELSE UNCHANGED <<credited, balance>>
    /\ UNCHANGED <<listed, dropped, flags, calls, inserts, sent, runVars,
                   faults>>

-----------------------------------------------------------------------------
(* Payouts.                                                                *)

InFlight(r, u) ==
    \/ u \in reading[r]
    \/ \E b \in Rows : OwnerOf[b] = u /\ job[r][b] # NoJob

FindByWithdrawSetting(w) == {u \in Users : Withdraw[u] = w}

\* A cron pattern fires and its settings are found.  The pattern of weekly
\* settings fires every second of a Monday, so its runs overlap; the others
\* leave a run the time to end.
SendFunds(r, w) ==
    LET found == FindByWithdrawSetting(w) IN
    /\ \A u \in Users : ~InFlight(r, u)
    /\ w # 7 => \A s \in Runs, u \in found : ~InFlight(s, u)
    /\ reading' = [reading EXCEPT ![r] = found]
    /\ UNCHANGED <<balance, tokenVars, credited, sent, job, faults>>

\* sendETH asks for the nonce of its key; the task passes the address of a
\* contract where withdrawFunds expects a private key, and that throws.
SendETH(t) == IF t \in Contracts THEN "throw" ELSE "nonce"

\* sendTRC20 is given no contract: it catches what that throws and returns
\* null.
SendTRC20 == "none"

\* sendSOL throws: it hands the TRON client to the SOL library.
SendSOL == "throw"

\* The first step of withdrawFunds for a token.  Its contractAddress is never
\* given, so sendERC20 and sendTRX are not reached; nothing is sent on the
\* bitcoin network; without a network it throws.
FirstStep(t) ==
    CASE ~TokenLoaded                          -> "throw"
      [] TokenLoaded /\ Network[t] = "evm"     -> SendETH(t)
      [] TokenLoaded /\ Network[t] = "tron"    -> SendTRC20
      [] TokenLoaded /\ Network[t] = "bitcoin" -> "none"
      [] TokenLoaded /\ Network[t] = "solana"  -> SendSOL

\* getBalances answers; the transfers and the resets of a user start.
GetBalances(r, u) ==
    /\ u \in reading[r]
    /\ reading' = [reading EXCEPT ![r] = @ \ {u}]
    /\ job' = [job EXCEPT ![r] =
          [b \in Rows |->
             IF OwnerOf[b] = u /\ balance[b] # NoRow
             THEN [amount |-> balance[b], send |-> FirstStep(TokenOf[b]),
                   reset |-> TRUE]
             ELSE @[b]]]
    /\ UNCHANGED <<balance, tokenVars, credited, sent, faults>>

\* The job of a payout when its send, or its reset, has come further.
Went(j, send, reset) == IF send = "none" /\ ~reset THEN NoJob
                        ELSE [j EXCEPT !.send = send, !.reset = reset]

GetTransactionCount(r, b) ==
    /\ job[r][b].send = "nonce"
    /\ job' = [job EXCEPT ![r][b].send = "submit"]
    /\ UNCHANGED <<balance, tokenVars, credited, sent, reading, faults>>

\* The chain takes a transfer, and refuses any other that was given the same
\* nonce; the payouts of a coin share one key.
SendSignedTransaction(r, b) ==
    /\ job[r][b].send = "submit" /\ b \in Addressed
    /\ sent' = [sent EXCEPT ![b] = Capped(@ + job[r][b].amount,
                                         MaxCredits[b] + 1)]
    /\ job' = [s \in Runs |-> [d \in Rows |->
          IF s = r /\ d = b THEN Went(job[r][b], "none", job[r][b].reset)
          ELSE IF TokenOf[d] = TokenOf[b] /\ job[s][d].send = "submit"
               THEN [job[s][d] EXCEPT !.send = "throw"]
               ELSE job[s][d]]]
    /\ UNCHANGED <<balance, tokenVars, credited, reading, faults>>

\* What setBalance leaves in the row: it names the token by its id, and
\* updates no row when the payout was not given that.
Reset(r, b) == IF TokenLoaded THEN 0 ELSE balance[b]

SetBalance(r, b) ==
    /\ job[r][b].reset
    /\ balance' = [balance EXCEPT ![b] = Reset(r, b)]
    /\ job' = [job EXCEPT ![r][b] = Went(@, @.send, FALSE)]
    /\ UNCHANGED <<tokenVars, credited, sent, reading, faults>>

-----------------------------------------------------------------------------
(* The administrator's tokens.                                             *)

\* DELETE of a token.  Its balance rows go with it; a transaction that refers
\* to it makes the database refuse.  The id that a call of enableToken has
\* found, or a reset was given, is then of no row: the insert of the call is
\* refused, and the UPDATE of the reset finds nothing.
DeleteToken(k) ==
    /\ k \in listed /\ k \notin stored
    /\ listed' = listed \ {k}
    /\ dropped' = dropped \cup {k}
    /\ balance' = [b \in Rows |-> IF TokenOf[b] = k THEN NoRow ELSE balance[b]]
    /\ calls' = [c \in Calls |->
                   IF calls[c].at = "create" /\ TokenOf[calls[c].row] = k
                   THEN Idle ELSE calls[c]]
    /\ job' = [r \in Runs |-> [b \in Rows |->
                 IF TokenOf[b] = k THEN Went(job[r][b], job[r][b].send, FALSE)
                                   ELSE job[r][b]]]
    /\ UNCHANGED <<stored, flags, inserts, due, credited, sent, reading,
                   faults>>

\* POST of a token that has no row, or none any more: the row has a new id.
CreateToken(k) ==
    /\ k \in Tokens \ listed
    /\ listed' = listed \cup {k}
    /\ UNCHANGED <<dropped, stored, balance, flags, calls, inserts, due,
                   credited, sent, runVars, faults>>

-----------------------------------------------------------------------------
(* The process ends: for no reason of its own, or because withdrawFunds    *)
(* threw (a transfer that was refused, or has no recipient) and nobody     *)
(* handles that.  The platform starts it again.                            *)

Throws(r, b) ==
    \/ job[r][b].send = "throw"
    \/ job[r][b].send = "submit" /\ b \notin Addressed

Crash ==
    /\ \/ faults < MaxFaults
       \/ \E r \in Runs, b \in Rows : Throws(r, b)
    /\ faults' = Capped(faults + 1, MaxFaults + 1)
    /\ calls' = [c \in Calls |-> Idle]
    /\ inserts' = {}
    /\ reading' = [r \in Runs |-> {}]
    /\ job' = [r \in Runs |-> [b \in Rows |-> NoJob]]
    /\ UNCHANGED <<listVars, balance, flags, due, credited, sent>>

PayoutStep(r, b) ==
    \/ GetTransactionCount(r, b)
    \/ SendSignedTransaction(r, b)
    \/ SetBalance(r, b)

Next ==
    \/ \E c \in Calls :
          \/ \E b \in Rows, flag \in BOOLEAN : EnableToken(c, b, flag)
          \/ CreateBalance(c) \/ FindSupported(c) \/ SetFlag(c)
    \/ \E b \in Rows : InsertSupported(b) \/ CheckToken(b)
    \/ \E b \in Rows, k \in Tokens : AddBalance(b, k)
    \/ \E k \in Tokens : DeleteToken(k) \/ CreateToken(k)
    \/ \E r \in Runs, w \in Intervals : SendFunds(r, w)
    \/ \E r \in Runs, u \in Users : GetBalances(r, u)
    \/ \E r \in Runs, b \in Rows : PayoutStep(r, b)
    \/ Crash

Spec == Init /\ [][Next]_vars

-----------------------------------------------------------------------------
(* Properties.                                                             *)

\* The tables, the calls and the payouts have their types, and no balance is
\* more than was credited.
TypeOK ==
    /\ listed \subseteq Tokens /\ dropped \subseteq Tokens
    /\ stored \subseteq listed
    /\ balance \in [Rows -> Int]
    /\ \A b \in Rows : balance[b] \in {NoRow} \cup 0 .. credited[b]
    /\ flags \in [Rows -> SUBSET BOOLEAN]
    /\ calls \in [Calls -> [at: CallSteps, row: Rows, flag: BOOLEAN]]
    /\ inserts \subseteq Rows
    /\ due \in [Rows -> Nat] /\ credited \in [Rows -> Nat]
    /\ \A b \in Rows : due[b] + credited[b] <= MaxCredits[b]
    /\ sent \in [Rows -> Nat]
    /\ reading \in [Runs -> SUBSET Users]
    /\ job \in [Runs -> [Rows -> [amount: Nat,
                                  send: {"none", "nonce", "submit", "throw"},
                                  reset: BOOLEAN]]]
    /\ faults \in 0 .. MaxFaults + 1

\* addBalance updates a row that exists, unless the token was deleted once: a
\* request is admitted by a supported token, whose row enable writes only
\* after the balance was created, however calls that enable and disable the
\* token overlap.  After a deletion the pair stays supported without a
\* balance, until it is enabled again, and what is credited then is lost.
CreditsLand ==
    \A b \in Rows :
       TokenOf[b] \notin dropped /\ credited[b] > 0 => balance[b] # NoRow

\* The chain has paid an owner whose payouts do not overlap no more than was
\* credited, as long as the process runs: neither the credits, nor the payouts
\* of others, nor a deletion of the token, that fall between the read of a
\* balance, its transfer and its reset make an amount go out twice.
PaidAtMostCredited ==
    \A b \in Rows : faults = 0 /\ Withdraw[OwnerOf[b]] # 7
                    => sent[b] <= credited[b]

=============================================================================
