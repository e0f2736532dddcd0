---------------------------- MODULE BalancesProofs ----------------------------
(***************************************************************************)
(* For any number of balances, calls and payout runs: the types, that a    *)
(* credit finds its row, and that no owner is paid more than was credited. *)
(***************************************************************************)
EXTENDS Balances, TLAPS

\* The constants of Balances.
LEMMA ConstantsOK ==
    /\ \A b \in Rows : OwnerOf[b] \in Users
    /\ \A b \in Rows : MaxCredits[b] \in Nat
    /\ MaxFaults \in Nat
  BY RowAssumption, BoundAssumption DEF Users

Sends == {"none", "nonce", "submit", "throw"}
Jobs == [amount: Nat, send: Sends, reset: BOOLEAN]

\* What a job becomes is a job.
LEMMA WentType ==
    ASSUME NEW j \in Jobs, NEW send \in Sends, NEW reset \in BOOLEAN
    PROVE  Went(j, send, reset) \in Jobs
  BY DEF Jobs, Sends, Went, NoJob

\* The first step of a transfer is one of its steps.
LEMMA FirstStepType == ASSUME NEW t \in Tokens PROVE FirstStep(t) \in Sends
  BY TokenAssumption DEF FirstStep, SendETH, SendTRC20, SendSOL, Sends

\* A capped number is within its bound.
LEMMA CappedType ==
    ASSUME NEW n \in Nat, NEW max \in Nat
    PROVE  /\ Capped(n, max) \in Nat
           /\ Capped(n, max) <= n /\ Capped(n, max) <= max
  BY DEF Capped

-----------------------------------------------------------------------------
(* Types.                                                                  *)

\* Initially everything has its type.
LEMMA TypeInit == Init => TypeOK
<1> SUFFICES ASSUME Init PROVE TypeOK OBVIOUS
<1>1. Idle \in [at: CallSteps, row: Rows, flag: BOOLEAN]
  BY RowAssumption DEF Idle, Call, CallSteps
<1>2. NoJob \in [amount: Nat, send: {"none", "nonce", "submit", "throw"},
                 reset: BOOLEAN]
  BY DEF NoJob
<1> QED BY <1>1, <1>2, ConstantsOK DEF Init, TypeOK, NoRow

\* Every step keeps the types.
LEMMA TypeStep == TypeOK /\ [Next]_vars => TypeOK'
<1> SUFFICES ASSUME TypeOK, [Next]_vars PROVE TypeOK' OBVIOUS
<1> USE ConstantsOK DEF listVars
<1> DEFINE CallRecords == [at: CallSteps, row: Rows, flag: BOOLEAN]
<1>t. /\ calls \in [Calls -> CallRecords] /\ job \in [Runs -> [Rows -> Jobs]]
      /\ \A b \in Rows : credited[b] \in Nat /\ due[b] \in Nat
  BY DEF TypeOK, Jobs, Sends
<1>i. Idle \in CallRecords /\ NoJob \in Jobs
  BY RowAssumption DEF Idle, Call, CallSteps, NoJob, Jobs, Sends
<1>1. ASSUME NEW c \in Calls, NEW b \in Rows, NEW flag \in BOOLEAN,
             EnableToken(c, b, flag)
      PROVE  TypeOK'
  <2>1. Call("create", b, flag) \in CallRecords
    BY DEF Call, CallSteps
  <2>2. calls' \in [Calls -> CallRecords]
    BY <1>1, <1>t, <2>1 DEF EnableToken
  <2> QED BY <1>1, <2>2 DEF EnableToken, TypeOK, runVars
<1>2. ASSUME NEW c \in Calls, CreateBalance(c) PROVE TypeOK'
  <2>1. calls' \in [Calls -> CallRecords] /\ calls[c].row \in Rows
    BY <1>2, <1>t DEF CreateBalance, CallSteps
  <2>2. /\ balance' \in [Rows -> Int]
        /\ \A b \in Rows : balance'[b] \in {NoRow} \cup 0 .. credited[b]
    BY <1>2, <2>1, <1>t DEF CreateBalance, TypeOK, NoRow
  <2> QED BY <1>2, <2>1, <2>2 DEF CreateBalance, TypeOK, runVars
<1>3. ASSUME NEW c \in Calls, FindSupported(c) PROVE TypeOK'
  <2>1. calls' \in [Calls -> CallRecords] /\ calls[c].row \in Rows
    BY <1>3, <1>t, <1>i DEF FindSupported, CallSteps
  <2> QED BY <1>3, <2>1 DEF FindSupported, TypeOK, runVars
<1>4. ASSUME NEW c \in Calls, SetFlag(c) PROVE TypeOK'
  <2>1. calls' \in [Calls -> CallRecords] /\ calls[c].flag \in BOOLEAN
    BY <1>4, <1>t, <1>i DEF SetFlag
  <2> QED BY <1>4, <2>1 DEF SetFlag, TypeOK, runVars
<1>5. ASSUME NEW b \in Rows, InsertSupported(b) PROVE TypeOK'
  BY <1>5 DEF InsertSupported, TypeOK, runVars
<1>6. ASSUME NEW b \in Rows, CheckToken(b) PROVE TypeOK'
  BY <1>6 DEF CheckToken, TypeOK, runVars
<1>7. ASSUME NEW b \in Rows, NEW k \in Tokens, AddBalance(b, k) PROVE TypeOK'
  <2>1. /\ balance' \in [Rows -> Int]
        /\ \A d \in Rows : balance'[d] \in {NoRow} \cup 0 .. credited'[d]
        /\ credited' \in [Rows -> Nat] /\ due' \in [Rows -> Nat]
        /\ \A d \in Rows : due'[d] + credited'[d] <= MaxCredits[d]
    <3>1. CASE TokenOf[b] \in listed
      <4>1. Added(b) \in {NoRow} \cup 0 .. credited[b] + 1 /\ Added(b) \in Int
        BY <1>t DEF Added, TypeOK, NoRow
      <4> QED BY <3>1, <4>1, <1>7, <1>t DEF AddBalance, TypeOK, NoRow
    <3>2. CASE TokenOf[b] \notin listed
      BY <3>2, <1>7, <1>t DEF AddBalance, TypeOK
    <3> QED BY <3>1, <3>2
  <2>2. /\ stored' \subseteq listed' /\ listed' \subseteq Tokens
        /\ dropped' \subseteq Tokens
    BY <1>7 DEF AddBalance, TypeOK
  <2> QED BY <1>7, <2>1, <2>2 DEF AddBalance, TypeOK, runVars
<1>8. ASSUME NEW r \in Runs, NEW w \in Intervals, SendFunds(r, w) PROVE TypeOK'
  BY <1>8 DEF SendFunds, FindByWithdrawSetting, TypeOK, tokenVars
<1>9. ASSUME NEW r \in Runs, NEW u \in Users, GetBalances(r, u) PROVE TypeOK'
  <2>1. ASSUME NEW b \in Rows, balance[b] # NoRow
        PROVE  [amount |-> balance[b], send |-> FirstStep(TokenOf[b]),
                reset |-> TRUE] \in Jobs
    <3>1. TokenOf[b] \in Tokens
      BY DEF Tokens
    <3>2. FirstStep(TokenOf[b]) \in Sends
      BY <3>1, FirstStepType
    <3> QED BY <2>1, <1>t, <3>2 DEF TypeOK, Jobs
  <2>2. job' \in [Runs -> [Rows -> Jobs]]
    BY <1>9, <1>t, <2>1 DEF GetBalances
  <2> QED BY <1>9, <2>2 DEF GetBalances, TypeOK, tokenVars, Jobs, Sends
<1>10. ASSUME NEW r \in Runs, NEW b \in Rows, GetTransactionCount(r, b)
       PROVE  TypeOK'
  <2>1. job' \in [Runs -> [Rows -> Jobs]]
    BY <1>10, <1>t DEF GetTransactionCount, Jobs, Sends
  <2> QED BY <1>10, <2>1 DEF GetTransactionCount, TypeOK, tokenVars, Jobs, Sends
<1>11. ASSUME NEW r \in Runs, NEW b \in Rows, SendSignedTransaction(r, b)
       PROVE  TypeOK'
  <2>1. Went(job[r][b], "none", job[r][b].reset) \in Jobs
    <3>1. job[r][b] \in Jobs /\ job[r][b].reset \in BOOLEAN
      BY <1>t DEF Jobs
    <3> QED BY <3>1, WentType DEF Sends
  <2>2. ASSUME NEW s \in Runs, NEW d \in Rows
        PROVE  [job[s][d] EXCEPT !.send = "throw"] \in Jobs
    <3>1. job[s][d] \in Jobs
      BY <1>t
    <3> QED BY <3>1 DEF Jobs, Sends
  <2>3. job' \in [Runs -> [Rows -> Jobs]]
    BY <1>11, <1>t, <2>1, <2>2 DEF SendSignedTransaction
  <2>4. sent' \in [Rows -> Nat]
    <3>1. sent[b] + job[r][b].amount \in Nat
      BY <1>t DEF TypeOK, Jobs
    <3>2. Capped(sent[b] + job[r][b].amount, MaxCredits[b] + 1) \in Nat
      BY <3>1, CappedType
    <3> QED BY <1>11, <3>2 DEF SendSignedTransaction, TypeOK
  <2> QED BY <1>11, <2>3, <2>4
          DEF SendSignedTransaction, TypeOK, tokenVars, Jobs, Sends
<1>12. ASSUME NEW r \in Runs, NEW b \in Rows, SetBalance(r, b) PROVE TypeOK'
  <2>1. Went(job[r][b], job[r][b].send, FALSE) \in Jobs
    <3>1. job[r][b] \in Jobs /\ job[r][b].send \in Sends
      BY <1>t DEF Jobs
    <3> QED BY <3>1, WentType
  <2>2. job' \in [Runs -> [Rows -> Jobs]]
    BY <1>12, <1>t, <2>1 DEF SetBalance
  <2>3. /\ balance' \in [Rows -> Int]
        /\ \A d \in Rows : balance'[d] \in {NoRow} \cup 0 .. credited[d]
    BY <1>12, <1>t DEF SetBalance, Reset, TypeOK
  <2> QED BY <1>12, <2>2, <2>3 DEF SetBalance, TypeOK, tokenVars, Jobs, Sends
<1>15. ASSUME NEW k \in Tokens, DeleteToken(k) PROVE TypeOK'
  <2>1. ASSUME NEW r \in Runs, NEW b \in Rows
        PROVE  Went(job[r][b], job[r][b].send, FALSE) \in Jobs
    <3>1. job[r][b] \in Jobs /\ job[r][b].send \in Sends
      BY <1>t DEF Jobs
    <3> QED BY <3>1, WentType
  <2>2. job' \in [Runs -> [Rows -> Jobs]]
    BY <1>15, <1>t, <2>1 DEF DeleteToken
  <2>3. calls' \in [Calls -> CallRecords]
    BY <1>15, <1>t, <1>i DEF DeleteToken
  <2>4. /\ balance' \in [Rows -> Int]
        /\ \A d \in Rows : balance'[d] \in {NoRow} \cup 0 .. credited[d]
    BY <1>15, <1>t DEF DeleteToken, TypeOK, NoRow
  <2> QED BY <1>15, <2>2, <2>3, <2>4 DEF DeleteToken, TypeOK, Jobs, Sends
<1>16. ASSUME NEW k \in Tokens, CreateToken(k) PROVE TypeOK'
  BY <1>16 DEF CreateToken, TypeOK, runVars
<1>13. CASE Crash
  <2>1. faults' \in 0 .. MaxFaults + 1
    BY <1>13 DEF Crash, Capped, TypeOK
  <2> QED BY <1>13, <2>1, <1>i DEF Crash, TypeOK, Jobs, Sends
<1>14. CASE UNCHANGED vars
  BY <1>14 DEF vars, tokenVars, runVars, TypeOK
<1> QED BY <1>1, <1>2, <1>3, <1>4, <1>5, <1>6, <1>7, <1>8, <1>9, <1>10, <1>11,
           <1>12, <1>13, <1>14, <1>15, <1>16 DEF Next, PayoutStep

\* The type invariant: no balance is ever more than was credited.
THEOREM TypeCorrect == Spec => []TypeOK
BY TypeInit, TypeStep, PTL DEF Spec

-----------------------------------------------------------------------------
(* Credits find their row.                                                 *)

HasRow(b) == balance[b] # NoRow

\* The row of a token that was never deleted is there from CreateBalance on:
\* behind it come the lookup, the flag or its insert, a request, the credit.
Landed(b) == TokenOf[b] \notin dropped => HasRow(b)
CallsHaveRow ==
    \A c \in Calls :
       calls[c].at \in {"lookup", "update"} => Landed(calls[c].row)
InsertsHaveRow == \A b \in inserts : Landed(b)
FlagsHaveRow == \A b \in Rows : flags[b] # {} => Landed(b)
RequestsHaveRow == \A b \in Rows : due[b] > 0 => Landed(b)

CreditInv ==
    TypeOK /\ CallsHaveRow /\ InsertsHaveRow /\ FlagsHaveRow /\ RequestsHaveRow
           /\ CreditsLand

\* No step takes a row away, except with its token.
LEMMA RowsStay ==
    ASSUME TypeOK, [Next]_vars, NEW b \in Rows, Landed(b)
    PROVE  Landed(b)'
<1> USE DEF listVars, Landed
<1>1. CASE \E c \in Calls : CreateBalance(c)
  BY <1>1 DEF CreateBalance, HasRow, TypeOK, NoRow
<1>2. CASE \E d \in Rows, k \in Tokens : AddBalance(d, k)
  BY <1>2 DEF AddBalance, Added, HasRow, TypeOK, NoRow
<1>3. CASE \E r \in Runs, d \in Rows : SetBalance(r, d)
  BY <1>3 DEF SetBalance, Reset, HasRow, TypeOK, NoRow, tokenVars
<1>5. CASE \E k \in Tokens : DeleteToken(k)
  BY <1>5 DEF DeleteToken, HasRow
<1>4. CASE UNCHANGED <<balance, dropped>>
  BY <1>4 DEF HasRow
<1> QED BY <1>1, <1>2, <1>3, <1>4, <1>5
        DEF Next, PayoutStep, vars, tokenVars, EnableToken, FindSupported,
            SetFlag, InsertSupported, CheckToken, SendFunds, GetBalances,
            GetTransactionCount, SendSignedTransaction, CreateToken, Crash

\* No credit is without a row at first.
LEMMA CreditInit == Init => CreditInv
<1> SUFFICES ASSUME Init PROVE CreditInv OBVIOUS
<1>1. Idle.at = "idle"
  BY DEF Idle, Call
<1> QED BY <1>1, TypeInit
        DEF Init, CreditInv, CallsHaveRow, InsertsHaveRow, FlagsHaveRow,
            RequestsHaveRow, CreditsLand

\* Every step keeps the credits' invariant.
LEMMA CreditStep == CreditInv /\ [Next]_vars => CreditInv'
<1> SUFFICES ASSUME CreditInv, [Next]_vars PROVE CreditInv' OBVIOUS
<1>t. TypeOK /\ TypeOK'
  BY TypeStep DEF CreditInv
<1>r. \A b \in Rows : Landed(b) => Landed(b)'
  BY <1>t, RowsStay
<1>i. Idle.at = "idle"
  BY DEF Idle, Call
<1>c. \A c \in Calls : calls[c].row \in Rows
  BY <1>t DEF TypeOK
<1> USE DEF CreditInv
<1>1. CallsHaveRow'
  <2>1. CASE \E c \in Calls, b \in Rows, f \in BOOLEAN : EnableToken(c, b, f)
    <3>1. \A b, f : Call("create", b, f).at = "create"
      BY DEF Call
    <3> QED BY <2>1, <3>1, <1>r, <1>c, <1>t
            DEF EnableToken, CallsHaveRow, TypeOK
  <2>2. CASE \E c \in Calls : CreateBalance(c)
    <3>1. PICK c \in Calls : CreateBalance(c)
      BY <2>2
    <3>2. HasRow(calls[c].row)'
      BY <3>1, <1>c, <1>t DEF CreateBalance, HasRow, TypeOK, NoRow
    <3>5. Landed(calls[c].row)'
      BY <3>2 DEF Landed
    <3>3. \A d \in Calls : calls'[d].row = calls[d].row
      BY <3>1, <1>t DEF CreateBalance, TypeOK
    <3>4. \A d \in Calls : d # c => calls'[d] = calls[d]
      BY <3>1, <1>t DEF CreateBalance, TypeOK
    <3> QED BY <3>5, <3>3, <3>4, <1>r, <1>c DEF CallsHaveRow, Landed, HasRow
  <2>3. CASE \E c \in Calls : FindSupported(c)
    <3>1. PICK c \in Calls : FindSupported(c)
      BY <2>3
    <3>2. \A d \in Calls : calls'[d] = Idle \/ calls'[d] = calls[d]
                           \/ /\ d = c /\ calls'[d].row = calls[d].row
                              /\ calls[d].at = "lookup"
      BY <3>1, <1>t DEF FindSupported, TypeOK
    <3> QED BY <3>2, <1>r, <1>c, <1>i DEF CallsHaveRow, Landed, HasRow
  <2>4. CASE \E c \in Calls : SetFlag(c)
    BY <2>4, <1>r, <1>c, <1>t, <1>i
       DEF SetFlag, CallsHaveRow, Landed, HasRow, TypeOK
  <2>7. CASE \E k \in Tokens : DeleteToken(k)
    <3>1. \A c \in Calls : calls'[c] = Idle \/ calls'[c] = calls[c]
      BY <2>7 DEF DeleteToken
    <3> QED BY <3>1, <1>r, <1>c, <1>i DEF CallsHaveRow, Landed, HasRow
  <2>5. CASE Crash
    BY <2>5, <1>i DEF Crash, CallsHaveRow
  <2>6. CASE UNCHANGED calls
    BY <2>6, <1>r, <1>c DEF CallsHaveRow, Landed, HasRow
  <2> QED BY <2>1, <2>2, <2>3, <2>4, <2>5, <2>6, <2>7
          DEF Next, PayoutStep, vars, tokenVars, InsertSupported, CheckToken,
              AddBalance, SendFunds, GetBalances, GetTransactionCount,
              SendSignedTransaction, SetBalance, CreateToken
<1>2. InsertsHaveRow'
  <2>1. inserts' \subseteq inserts \/ \E c \in Calls : FindSupported(c)
    BY DEF Next, PayoutStep, vars, tokenVars, EnableToken, CreateBalance,
           SetFlag, InsertSupported, CheckToken, AddBalance, SendFunds,
           GetBalances, GetTransactionCount, SendSignedTransaction, SetBalance,
           DeleteToken, CreateToken, Crash
  <2>2. \A c \in Calls : FindSupported(c) =>
           \A b \in inserts' : b \in inserts \/ Landed(b)
    BY DEF FindSupported, CallsHaveRow
  <2>3. inserts \subseteq Rows /\ inserts' \subseteq Rows
    BY <1>t DEF TypeOK
  <2> QED BY <2>1, <2>2, <2>3, <1>r DEF InsertsHaveRow
<1>3. FlagsHaveRow'
  <2>1. ASSUME NEW b \in Rows, flags'[b] # {} PROVE Landed(b)
    <3>1. CASE flags[b] # {}
      BY <3>1 DEF FlagsHaveRow
    <3>2. CASE \E c \in Calls : SetFlag(c)
      <4>1. PICK c \in Calls : SetFlag(c)
        BY <3>2
      <4>2. b # calls[c].row => flags'[b] = flags[b]
        BY <4>1, <1>t DEF SetFlag, TypeOK
      <4>3. Landed(calls[c].row)
        BY <4>1 DEF SetFlag, CallsHaveRow
      <4> QED BY <2>1, <4>2, <4>3 DEF FlagsHaveRow
    <3>3. CASE \E d \in Rows : InsertSupported(d)
      <4>1. PICK d \in Rows : InsertSupported(d)
        BY <3>3
      <4>2. b # d => flags'[b] = flags[b]
        BY <4>1, <1>t DEF InsertSupported, TypeOK
      <4>3. Landed(d)
        BY <4>1 DEF InsertSupported, InsertsHaveRow
      <4> QED BY <2>1, <4>2, <4>3 DEF FlagsHaveRow
    <3>4. CASE UNCHANGED flags
      BY <2>1, <3>4 DEF FlagsHaveRow
    <3> QED BY <3>2, <3>3, <3>4
            DEF Next, PayoutStep, vars, tokenVars, EnableToken, CreateBalance,
                FindSupported, CheckToken, AddBalance, SendFunds, GetBalances,
                GetTransactionCount, SendSignedTransaction, SetBalance,
                DeleteToken, CreateToken, Crash
  <2> QED BY <2>1, <1>r DEF FlagsHaveRow
<1>4. /\ \A b \in Rows : due'[b] > 0 => Landed(b)
      /\ \A b \in Rows : credited'[b] > 0 => Landed(b)
  <2>1. CASE \E b \in Rows : CheckToken(b)
    BY <2>1, <1>t
       DEF CheckToken, FlagsHaveRow, RequestsHaveRow, CreditsLand, Landed,
           HasRow, TypeOK
  <2>2. CASE \E b \in Rows, k \in Tokens : AddBalance(b, k)
    <3>1. PICK b \in Rows, k \in Tokens : AddBalance(b, k)
      BY <2>2
    <3>t. due \in [Rows -> Nat] /\ credited \in [Rows -> Nat]
      BY <1>t DEF TypeOK
    <3>2. /\ due[b] > 0
          /\ \A d \in Rows : due'[d] > 0 => due[d] > 0
          /\ \A d \in Rows : credited'[d] > 0 => credited[d] > 0 \/ d = b
      BY <3>1, <3>t DEF AddBalance
    <3> QED BY <3>2 DEF RequestsHaveRow, CreditsLand, Landed, HasRow
  <2>3. CASE UNCHANGED <<due, credited>>
    BY <2>3 DEF RequestsHaveRow, CreditsLand, Landed, HasRow
  <2> QED BY <2>1, <2>2, <2>3
          DEF Next, PayoutStep, vars, tokenVars, EnableToken, CreateBalance,
              FindSupported, SetFlag, InsertSupported, SendFunds, GetBalances,
              GetTransactionCount, SendSignedTransaction, SetBalance,
              DeleteToken, CreateToken, Crash
<1> QED BY <1>t, <1>1, <1>2, <1>3, <1>4, <1>r
        DEF RequestsHaveRow, CreditsLand, Landed, HasRow

\* Every credit finds the row of its balance, unless the token was deleted.
THEOREM EveryCreditLands == Spec => []CreditsLand
<1>1. CreditInv => CreditsLand
  BY DEF CreditInv
<1> QED BY <1>1, CreditInit, CreditStep, PTL DEF Spec

-----------------------------------------------------------------------------
(* Payouts.                                                                *)

\* What a job may still send, and what its reset will take from the row.
Sending(j) == IF j.send = "none" THEN 0 ELSE j.amount
Resetting(j) == IF j.reset THEN j.amount ELSE 0
Stored(b) == IF HasRow(b) THEN balance[b] ELSE 0

\* Users whose runs do not overlap, and their balances.
Steady(u) == Withdraw[u] # 7
SteadyRows == {b \in Rows : Steady(OwnerOf[b])}

\* Only one run works on such a user; it has read the balances before it pays.
OneRun == \A u \in Users, r, s \in Runs :
             Steady(u) /\ InFlight(r, u) /\ InFlight(s, u) => r = s
ReadOnce == \A r \in Runs, b \in Rows :
             OwnerOf[b] \in reading[r] => job[r][b] = NoJob

\* A reset takes no more than there is.
ResetOK == \A r \in Runs, b \in SteadyRows :
             job[r][b].reset => HasRow(b) /\ job[r][b].amount <= balance[b]

\* What was paid, may be paid, and will be left does not exceed the credits.
JobOK(r, b) ==
    sent[b] + Sending(job[r][b]) + Stored(b) - Resetting(job[r][b])
       <= credited[b]
PaidOK ==
    \A b \in SteadyRows :
       /\ \A r \in Runs : job[r][b] # NoJob => JobOK(r, b)
       /\ (\A r \in Runs : job[r][b] = NoJob)
             => sent[b] + Stored(b) <= credited[b]

\* A payout that is given neither network nor id of its token sends nothing.
NothingSent ==
    \A b \in Rows :
       sent[b] = 0 /\ \A r \in Runs : job[r][b].send \in {"none", "throw"}

\* A process that died does not count.
PayInv ==
    /\ TypeOK
    /\ faults = 0 => /\ TokenLoaded => OneRun /\ ReadOnce /\ ResetOK /\ PaidOK
                     /\ ~TokenLoaded => NothingSent

\* Nothing is paid at first.
LEMMA PayInit == Init => PayInv
<1> SUFFICES ASSUME Init PROVE PayInv OBVIOUS
<1> QED BY TypeInit
        DEF Init, PayInv, OneRun, ReadOnce, ResetOK, PaidOK, NothingSent,
            InFlight, NoJob, Stored, HasRow, SteadyRows

\* The invariant says what the property says.
LEMMA PayInvPays == PayInv => PaidAtMostCredited
<1> SUFFICES ASSUME PayInv, faults = 0, NEW b \in Rows, Steady(OwnerOf[b])
             PROVE  sent[b] <= credited[b]
  BY DEF PaidAtMostCredited, Steady
<1>t. /\ sent[b] \in Nat /\ credited[b] \in Nat /\ balance[b] \in Int
      /\ HasRow(b) => balance[b] \in Nat
      /\ \A r \in Runs : job[r][b].amount \in Nat
  BY DEF PayInv, TypeOK, HasRow, NoRow
<1>b. b \in SteadyRows
  BY DEF SteadyRows
<1>0. CASE ~TokenLoaded
  BY <1>0, <1>t DEF PayInv, NothingSent
<1>1. CASE TokenLoaded /\ \A r \in Runs : job[r][b] = NoJob
  BY <1>1, <1>t, <1>b DEF PayInv, PaidOK, Stored
<1>2. ASSUME TokenLoaded, NEW r \in Runs, job[r][b] # NoJob
      PROVE  sent[b] <= credited[b]
  <2>1. JobOK(r, b)
    BY <1>2, <1>b DEF PayInv, PaidOK
  <2>2. Resetting(job[r][b]) <= Stored(b) /\ Resetting(job[r][b]) \in Nat
    BY <1>2, <1>t, <1>b DEF PayInv, ResetOK, Resetting, Stored
  <2>3. Sending(job[r][b]) \in Nat /\ Stored(b) \in Nat
    BY <1>t DEF Sending, Stored
  <2> QED BY <2>1, <2>2, <2>3, <1>t DEF JobOK
<1> QED BY <1>0, <1>1, <1>2

\* Without the token, only a reset or a deletion changes what a job is to do.
LEMMA UnloadedStep ==
    ASSUME PayInv, [Next]_vars, ~Crash, ~TokenLoaded
    PROVE  PayInv'
<1>t. /\ TypeOK /\ TypeOK' /\ job \in [Runs -> [Rows -> Jobs]]
      /\ sent \in [Rows -> Nat]
  BY TypeStep DEF PayInv, TypeOK, Jobs, Sends
<1>f. faults' = faults
  BY DEF Next, PayoutStep, vars, EnableToken, CreateBalance, FindSupported,
         SetFlag, InsertSupported, CheckToken, AddBalance, SendFunds,
         GetBalances, GetTransactionCount, SendSignedTransaction, SetBalance,
         DeleteToken, CreateToken
<1> SUFFICES ASSUME faults = 0 PROVE NothingSent'
  BY <1>t, <1>f DEF PayInv
<1>i. \A b \in Rows : /\ sent[b] = 0
                      /\ \A r \in Runs : job[r][b].send \in {"none", "throw"}
  BY DEF PayInv, NothingSent
<1>w. ASSUME NEW j \in Jobs, j.send \in {"none", "throw"}
      PROVE  Went(j, j.send, FALSE).send \in {"none", "throw"}
  BY <1>w DEF Went, NoJob, Jobs
<1>1. CASE \E r \in Runs, u \in Users : GetBalances(r, u)
  <2>1. \A b \in Rows : FirstStep(TokenOf[b]) = "throw"
    BY DEF FirstStep
  <2>2. PICK r \in Runs, u \in Users : GetBalances(r, u)
    BY <1>1
  <2>3. \A s \in Runs, b \in Rows : \/ job'[s][b] = job[s][b]
                                    \/ job'[s][b].send = "throw"
    BY <2>1, <2>2, <1>t DEF GetBalances
  <2>4. sent' = sent
    BY <2>2 DEF GetBalances
  <2> QED BY <2>3, <2>4, <1>i DEF NothingSent
<1>2. CASE \E r \in Runs, b \in Rows : PayoutStep(r, b)
  <2>1. PICK r \in Runs, b \in Rows : SetBalance(r, b)
    BY <1>2, <1>i DEF PayoutStep, GetTransactionCount, SendSignedTransaction
  <2>2. \A s \in Runs, d \in Rows :
           \/ job'[s][d] = job[s][d]
           \/ s = r /\ d = b /\ job'[s][d] = Went(job[r][b], job[r][b].send,
                                                FALSE)
    BY <2>1, <1>t DEF SetBalance
  <2>3. sent' = sent
    BY <2>1 DEF SetBalance
  <2> QED BY <2>2, <2>3, <1>i, <1>w, <1>t DEF NothingSent
<1>3. CASE \E k \in Tokens : DeleteToken(k)
  <2>1. sent' = sent /\ \A r \in Runs, b \in Rows :
           job'[r][b] \in {job[r][b], Went(job[r][b], job[r][b].send, FALSE)}
    BY <1>3 DEF DeleteToken
  <2> QED BY <2>1, <1>i, <1>w, <1>t DEF NothingSent
<1>4. CASE UNCHANGED <<job, sent>>
  BY <1>4, <1>i DEF NothingSent
<1> QED BY <1>1, <1>2, <1>3, <1>4
        DEF Next, vars, runVars, EnableToken, CreateBalance, FindSupported,
            SetFlag, InsertSupported, CheckToken, AddBalance, SendFunds,
            CreateToken

\* What a step does to the runs and the payouts: nothing, or one of these.
RunStep ==
    \/ \E r \in Runs, w \in Intervals : SendFunds(r, w)
    \/ \E r \in Runs, u \in Users : GetBalances(r, u)
    \/ \E r \in Runs, b \in Rows : PayoutStep(r, b)
    \/ \E k \in Tokens : DeleteToken(k)

\* A step that touches neither runs nor payouts adds to the balance what it
\* adds to the credits, and nothing else.
LEMMA OtherStep ==
    ASSUME TypeOK, [Next]_vars, ~RunStep, ~Crash
    PROVE  /\ UNCHANGED <<reading, job, sent>>
           /\ \A b \in Rows :
                 Stored(b)' - Stored(b) <= credited'[b] - credited[b]
           /\ \A b \in Rows : Stored(b) <= Stored(b)'
           /\ \A b \in Rows : HasRow(b) => HasRow(b)'
<1>1. CASE \E c \in Calls : CreateBalance(c)
  <2>1. PICK c \in Calls : CreateBalance(c)
    BY <1>1
  <2>2. \A b \in Rows : \/ balance'[b] = balance[b]
                        \/ balance[b] = NoRow /\ balance'[b] = 0
    BY <2>1 DEF CreateBalance, TypeOK
  <2>3. UNCHANGED <<reading, job, sent, credited>>
    BY <2>1 DEF CreateBalance, runVars
  <2> QED BY <2>2, <2>3 DEF Stored, HasRow, NoRow, TypeOK
<1>2. CASE \E d \in Rows, k \in Tokens : AddBalance(d, k)
  <2>1. PICK d \in Rows, k \in Tokens : AddBalance(d, k)
    BY <1>2
  <2>2. UNCHANGED <<reading, job, sent>>
    BY <2>1 DEF AddBalance, runVars
  <2>f. balance \in [Rows -> Int] /\ credited \in [Rows -> Nat]
    BY DEF TypeOK
  <2>3. \A b \in Rows : b # d => /\ balance'[b] = balance[b]
                                /\ credited'[b] = credited[b]
    BY <2>1, <2>f DEF AddBalance
  <2>4. \/ balance'[d] = balance[d] /\ credited'[d] = credited[d]
        \/ /\ credited'[d] = credited[d] + 1
           /\ balance[d] = NoRow => balance'[d] = NoRow
           /\ balance[d] # NoRow => balance'[d] = balance[d] + 1
    BY <2>1, <2>f DEF AddBalance, Added
  <2> QED BY <2>2, <2>3, <2>4 DEF Stored, HasRow, NoRow, TypeOK
<1>3. CASE UNCHANGED <<reading, job, sent, balance, credited>>
  BY <1>3 DEF Stored, HasRow, TypeOK
<1>4. ASSUME ~(\E c \in Calls : CreateBalance(c)),
             ~(\E d \in Rows, k \in Tokens : AddBalance(d, k))
      PROVE  UNCHANGED <<reading, job, sent, balance, credited>>
  BY <1>4 DEF Next, RunStep, vars, runVars, EnableToken, FindSupported, SetFlag,
              InsertSupported, CheckToken, CreateToken
<1> QED BY <1>1, <1>2, <1>3, <1>4

\* Such a step keeps the invariant.
LEMMA PayOtherStep ==
    ASSUME PayInv, [Next]_vars, ~RunStep, ~Crash, TokenLoaded
    PROVE  PayInv'
<1>t. TypeOK /\ TypeOK'
  BY TypeStep DEF PayInv
<1>f. faults' = faults
  BY DEF Next, RunStep, vars, EnableToken, CreateBalance, FindSupported,
         SetFlag, InsertSupported, CheckToken, AddBalance, CreateToken
<1> SUFFICES ASSUME faults = 0 PROVE (OneRun /\ ReadOnce /\ ResetOK /\ PaidOK)'
  BY <1>t, <1>f DEF PayInv
<1>i. OneRun /\ ReadOnce /\ ResetOK /\ PaidOK
  BY DEF PayInv
<1>o. /\ UNCHANGED <<reading, job, sent>>
      /\ \A b \in Rows : Stored(b)' - Stored(b) <= credited'[b] - credited[b]
      /\ \A b \in Rows : Stored(b) <= Stored(b)'
      /\ \A b \in Rows : HasRow(b) => HasRow(b)'
  BY <1>t, OtherStep
<1>1. OneRun' /\ ReadOnce'
  BY <1>i, <1>o DEF OneRun, ReadOnce, InFlight
<1>2. ResetOK'
  BY <1>i, <1>o, <1>t DEF ResetOK, Stored, HasRow, SteadyRows, TypeOK
<1>3. PaidOK'
  <2>1. ASSUME NEW b \in SteadyRows
        PROVE  /\ \A r \in Runs : job[r][b] # NoJob => JobOK(r, b)'
               /\ (\A r \in Runs : job[r][b] = NoJob) =>
                     sent[b] + Stored(b)' <= credited'[b]
    <3>1. /\ sent[b] \in Nat /\ credited[b] \in Nat /\ credited'[b] \in Nat
          /\ Stored(b) \in Int /\ Stored(b)' \in Int
      BY <1>t DEF TypeOK, SteadyRows, Stored
    <3>2. \A r \in Runs : /\ Sending(job[r][b]) \in Int
                          /\ Resetting(job[r][b]) \in Int
      BY <1>t DEF TypeOK, SteadyRows, Sending, Resetting
    <3>3. Stored(b)' - Stored(b) <= credited'[b] - credited[b]
      BY <1>o DEF SteadyRows
    <3>4. ASSUME NEW r \in Runs, job[r][b] # NoJob PROVE JobOK(r, b)'
      <4>1. JobOK(r, b)
        BY <1>i, <3>4 DEF PaidOK
      <4>2. /\ Sending(job'[r][b]) = Sending(job[r][b])
            /\ Resetting(job'[r][b]) = Resetting(job[r][b]) /\ sent' = sent
        BY <1>o
      <4> QED BY <4>1, <4>2, <3>1, <3>2, <3>3 DEF JobOK
    <3> QED BY <3>1, <3>3, <3>4, <1>i DEF PaidOK
  <2> QED BY <2>1, <1>o DEF PaidOK, SteadyRows
<1> QED BY <1>1, <1>2, <1>3

\* A run starts only when no run works on its users.
LEMMA PaySendFunds ==
    ASSUME PayInv, NEW r \in Runs, NEW w \in Intervals, SendFunds(r, w),
           TokenLoaded
    PROVE  PayInv'
<1>t. TypeOK /\ TypeOK'
  BY TypeStep DEF PayInv, Next
<1>f. UNCHANGED <<balance, credited, sent, job, faults>>
  BY DEF SendFunds
<1> SUFFICES ASSUME faults = 0 PROVE (OneRun /\ ReadOnce /\ ResetOK /\ PaidOK)'
  BY <1>t, <1>f DEF PayInv
<1>i. OneRun /\ ReadOnce /\ ResetOK /\ PaidOK
  BY DEF PayInv
<1>1. ResetOK' /\ PaidOK'
  BY <1>i, <1>f DEF ResetOK, PaidOK, JobOK, Stored, HasRow
<1>2. /\ \A u \in Users : ~InFlight(r, u)
      /\ \A s \in Runs : s # r => reading'[s] = reading[s]
      /\ reading'[r] = FindByWithdrawSetting(w)
  BY <1>t DEF SendFunds, TypeOK
<1>3. ReadOnce'
  <2>1. \A b \in Rows : job[r][b] = NoJob
    BY <1>2, ConstantsOK DEF InFlight
  <2> QED BY <2>1, <1>2, <1>i, <1>f DEF ReadOnce
<1>4. OneRun'
  <2>1. \A s \in Runs, u \in Users :
           s # r => (InFlight(s, u)' <=> InFlight(s, u))
    BY <1>2, <1>f DEF InFlight
  <2>2. \A u \in Users : InFlight(r, u)' => u \in FindByWithdrawSetting(w)
    BY <1>2, <1>f, ConstantsOK DEF InFlight
  <2>3. \A u \in Users, s \in Runs :
           Steady(u) /\ u \in FindByWithdrawSetting(w) => ~InFlight(s, u)
    BY DEF SendFunds, FindByWithdrawSetting, Steady
  <2> QED BY <2>1, <2>2, <2>3, <1>i DEF OneRun
<1> QED BY <1>1, <1>3, <1>4

\* getBalances gives each payout the whole balance, which no other run pays.
LEMMA PayGetBalances ==
    ASSUME PayInv, NEW r \in Runs, NEW u \in Users, GetBalances(r, u),
           TokenLoaded
    PROVE  PayInv'
<1>t. TypeOK /\ TypeOK'
  BY TypeStep DEF PayInv, Next
<1>f. UNCHANGED <<balance, credited, sent, faults>>
  BY DEF GetBalances
<1> SUFFICES ASSUME faults = 0 PROVE (OneRun /\ ReadOnce /\ ResetOK /\ PaidOK)'
  BY <1>t, <1>f DEF PayInv
<1>i. OneRun /\ ReadOnce /\ ResetOK /\ PaidOK
  BY DEF PayInv
<1>1. /\ \A s \in Runs : s # r => reading'[s] = reading[s] /\ job'[s] = job[s]
      /\ reading'[r] = reading[r] \ {u} /\ u \in reading[r]
  BY <1>t DEF GetBalances, TypeOK
<1>2. \A b \in Rows :
         IF OwnerOf[b] = u /\ HasRow(b)
         THEN job'[r][b] = [amount |-> balance[b],
                            send |-> FirstStep(TokenOf[b]), reset |-> TRUE]
         ELSE job'[r][b] = job[r][b]
  BY <1>t DEF GetBalances, HasRow, TypeOK
<1>r. ASSUME NEW b \in Rows, OwnerOf[b] = u, HasRow(b)
      PROVE  /\ job'[r][b].reset = TRUE /\ job'[r][b].amount = balance[b]
             /\ job'[r][b] # NoJob
  <2>1. job'[r][b] = [amount |-> balance[b], send |-> FirstStep(TokenOf[b]),
                      reset |-> TRUE]
    BY <1>2, <1>r
  <2> QED BY <2>1 DEF NoJob
<1>3. OneRun'
  <2>1. \A s \in Runs, v \in Users : InFlight(s, v)' => InFlight(s, v)
    BY <1>1, <1>2 DEF InFlight
  <2> QED BY <2>1, <1>i DEF OneRun
<1>4. ReadOnce'
  BY <1>1, <1>2, <1>i DEF ReadOnce
<1>5. ResetOK'
  <2> SUFFICES ASSUME NEW s \in Runs, NEW b \in SteadyRows, job'[s][b].reset
               PROVE  HasRow(b) /\ job'[s][b].amount <= balance[b]
    BY <1>f DEF ResetOK, HasRow
  <2>1. CASE job'[s][b] = job[s][b]
    BY <2>1, <1>i DEF ResetOK
  <2>2. CASE s = r /\ OwnerOf[b] = u /\ HasRow(b)
    <3>1. balance[b] \in Int /\ b \in Rows
      BY <1>t DEF SteadyRows, TypeOK
    <3>2. job'[s][b].amount = balance[b]
      BY <2>2, <3>1, <1>r
    <3>3. job'[s][b].amount <= balance[b]
      BY <3>1, <3>2
    <3> QED BY <2>2, <3>3
  <2>3. CASE s # r
    BY <2>3, <2>1, <1>1
  <2>4. CASE s = r /\ ~(OwnerOf[b] = u /\ HasRow(b))
    <3>1. b \in Rows /\ job'[r][b] = job[r][b]
      BY <2>4, <1>2 DEF SteadyRows
    <3> QED BY <3>1, <2>4, <2>1
  <2> QED BY <2>2, <2>3, <2>4
<1>6. PaidOK'
  <2> SUFFICES ASSUME NEW b \in SteadyRows
               PROVE  /\ \A s \in Runs : job'[s][b] # NoJob => JobOK(s, b)'
                      /\ (\A s \in Runs : job'[s][b] = NoJob) =>
                            sent'[b] + Stored(b)' <= credited'[b]
    BY DEF PaidOK
  <2>s. Stored(b)' = Stored(b) /\ sent' = sent /\ credited' = credited
    BY <1>f DEF Stored, HasRow
  <2>1. CASE OwnerOf[b] = u /\ HasRow(b)
    <3>1. \A s \in Runs : job[s][b] = NoJob
      <4>1. job[r][b] = NoJob
        BY <2>1, <1>1, <1>i DEF ReadOnce, SteadyRows
      <4>2. \A s \in Runs : job[s][b] # NoJob => s = r
        BY <2>1, <1>1, <1>i DEF OneRun, InFlight, SteadyRows
      <4> QED BY <4>1, <4>2
    <3>2. sent[b] + Stored(b) <= credited[b]
      BY <3>1, <1>i DEF PaidOK
    <3>3. /\ job'[r][b].reset = TRUE /\ job'[r][b].amount = balance[b]
          /\ job'[r][b] # NoJob
      BY <2>1, <1>r DEF SteadyRows
    <3>4. JobOK(r, b)'
      <4>1. Resetting(job'[r][b]) = Stored(b)
        BY <3>3, <2>1 DEF Resetting, Stored
      <4>2. Sending(job'[r][b]) \in {0, Stored(b)}
        BY <3>3, <2>1 DEF Sending, Stored
      <4>3. sent[b] \in Nat /\ Stored(b) \in Nat /\ credited[b] \in Nat
        BY <1>t DEF TypeOK, SteadyRows, Stored, HasRow, NoRow
      <4> QED BY <4>1, <4>2, <4>3, <3>2, <2>s DEF JobOK
    <3>5. \A s \in Runs : s # r => job'[s][b] = NoJob
      BY <3>1, <1>1
    <3> QED BY <3>3, <3>4, <3>5
  <2>2. CASE ~(OwnerOf[b] = u /\ HasRow(b))
    <3>1. \A s \in Runs : job'[s][b] = job[s][b]
      BY <2>2, <1>1, <1>2 DEF SteadyRows
    <3>2. \A s \in Runs : JobOK(s, b) => JobOK(s, b)'
      BY <3>1, <2>s DEF JobOK
    <3> QED BY <3>1, <3>2, <2>s, <1>i DEF PaidOK
  <2> QED BY <2>1, <2>2
<1> QED BY <1>3, <1>4, <1>5, <1>6

\* The step of a payout: the other jobs of its run and of other runs keep what
\* they may send and reset, and its own job loses what it did.
LEMMA PayoutEffect ==
    ASSUME TypeOK, NEW r \in Runs, NEW b \in Rows, PayoutStep(r, b)
    PROVE  /\ UNCHANGED <<credited, reading, faults>>
           /\ \A s \in Runs, d \in Rows :
                 /\ job[s][d] = NoJob => job'[s][d] = NoJob
                 /\ job'[s][d].reset => /\ job[s][d].reset
                                        /\ job'[s][d].amount = job[s][d].amount
           /\ \A d \in Rows :
                 d # b => /\ balance'[d] = balance[d] /\ sent'[d] = sent[d]
                          /\ \A s \in Runs :
                                /\ Sending(job'[s][d]) = Sending(job[s][d])
                                /\ Resetting(job'[s][d]) = Resetting(job[s][d])
                                /\ job[s][d] # NoJob => job'[s][d] # NoJob
<1>t. /\ \A s \in Runs, d \in Rows : job[s][d] \in Jobs
      /\ job \in [Runs -> [Rows -> Jobs]]
      /\ balance \in [Rows -> Int] /\ sent \in [Rows -> Nat]
  BY DEF TypeOK, Jobs, Sends
<1>n. NoJob \in Jobs /\ NoJob.send = "none" /\ NoJob.reset = FALSE
      /\ NoJob.amount = 0
  BY DEF NoJob, Jobs, Sends
<1>1. CASE GetTransactionCount(r, b)
  <2>1. /\ job'[r][b] = [job[r][b] EXCEPT !.send = "submit"]
        /\ job[r][b].send = "nonce"
        /\ \A s \in Runs, d \in Rows :
              s # r \/ d # b => job'[s][d] = job[s][d]
    BY <1>1, <1>t DEF GetTransactionCount
  <2>2. /\ job'[r][b].reset = job[r][b].reset
        /\ job'[r][b].amount = job[r][b].amount
        /\ job[r][b] # NoJob
    BY <2>1, <1>t, <1>n DEF Jobs
  <2> QED BY <1>1, <2>1, <2>2 DEF GetTransactionCount
<1>2. CASE SendSignedTransaction(r, b)
  <2>1. /\ job'[r][b] = Went(job[r][b], "none", job[r][b].reset)
        /\ \A s \in Runs, d \in Rows : s # r \/ d # b =>
              \/ job'[s][d] = job[s][d]
              \/ /\ job[s][d].send = "submit"
                 /\ job'[s][d] = [job[s][d] EXCEPT !.send = "throw"]
    BY <1>2, <1>t DEF SendSignedTransaction
  <2>2. /\ job[r][b] # NoJob
        /\ job'[r][b].reset => /\ job[r][b].reset
                               /\ job'[r][b].amount = job[r][b].amount
    BY <1>2, <2>1, <1>t, <1>n DEF SendSignedTransaction, Went, Jobs
  <2>3. ASSUME NEW s \in Runs, NEW d \in Rows, job[s][d].send = "submit",
               job'[s][d] = [job[s][d] EXCEPT !.send = "throw"]
        PROVE  /\ job[s][d] # NoJob /\ job'[s][d] # NoJob
               /\ job'[s][d].reset = job[s][d].reset
               /\ job'[s][d].amount = job[s][d].amount
               /\ job'[s][d].send = "throw"
    BY <2>3, <1>t, <1>n DEF Jobs
  <2>4. /\ UNCHANGED <<balance, credited, reading, faults>>
        /\ \A d \in Rows : d # b => sent'[d] = sent[d]
    BY <1>2, <1>t DEF SendSignedTransaction, tokenVars
  <2>5. ASSUME NEW s \in Runs, NEW d \in Rows, s # r \/ d # b
        PROVE  /\ job[s][d] = NoJob <=> job'[s][d] = NoJob
               /\ job'[s][d].reset = job[s][d].reset
               /\ job'[s][d].amount = job[s][d].amount
               /\ job'[s][d].send = "none" <=> job[s][d].send = "none"
    BY <2>1, <2>3, <2>5
  <2> QED BY <2>2, <2>4, <2>5 DEF Sending, Resetting
<1>3. CASE SetBalance(r, b)
  <2>1. /\ job[r][b].reset
        /\ job'[r][b] = Went(job[r][b], job[r][b].send, FALSE)
        /\ \A s \in Runs, d \in Rows :
              s # r \/ d # b => job'[s][d] = job[s][d]
        /\ \A d \in Rows : d # b => balance'[d] = balance[d]
    BY <1>3, <1>t DEF SetBalance
  <2>2. job'[r][b].reset = FALSE /\ job[r][b] # NoJob
    BY <2>1, <1>t, <1>n DEF Went, Jobs
  <2> QED BY <1>3, <2>1, <2>2 DEF SetBalance
<1> QED BY <1>1, <1>2, <1>3 DEF PayoutStep

\* The payout's own job: what was sent or reset leaves the sum as it is.
LEMMA PayoutOwnRow ==
    ASSUME TypeOK, NEW r \in Runs, NEW b \in Rows, PayoutStep(r, b),
           job[r][b].reset => HasRow(b) /\ job[r][b].amount <= balance[b],
           JobOK(r, b), TokenLoaded
    PROVE  /\ job[r][b] # NoJob
           /\ job'[r][b] # NoJob => JobOK(r, b)'
           /\ job'[r][b] = NoJob => sent'[b] + Stored(b)' <= credited'[b]
           /\ job'[r][b].reset => /\ HasRow(b)' /\ job[r][b].reset
                                  /\ job'[r][b].amount <= balance'[b]
<1>t. /\ job[r][b] \in Jobs /\ job \in [Runs -> [Rows -> Jobs]]
      /\ balance \in [Rows -> Int]
      /\ balance[b] \in {NoRow} \cup 0 .. credited[b]
      /\ sent \in [Rows -> Nat] /\ credited[b] \in Nat
      /\ job[r][b].amount \in Nat /\ MaxCredits[b] + 1 \in Nat
  BY ConstantsOK DEF TypeOK, Jobs, Sends
<1>n. NoJob \in Jobs /\ NoJob.send = "none" /\ NoJob.reset = FALSE
      /\ NoJob.amount = 0
  BY DEF NoJob, Jobs, Sends
<1>s. Stored(b) \in Nat /\ (HasRow(b) => Stored(b) = balance[b])
  BY <1>t DEF Stored, HasRow, NoRow
<1>1. CASE GetTransactionCount(r, b)
  <2>1. /\ job'[r][b] = [job[r][b] EXCEPT !.send = "submit"]
        /\ job[r][b].send = "nonce"
        /\ UNCHANGED <<balance, sent, credited>>
    BY <1>1, <1>t DEF GetTransactionCount
  <2>2. /\ job'[r][b].reset = job[r][b].reset
        /\ job'[r][b].amount = job[r][b].amount
        /\ job'[r][b].send = "submit"
        /\ job[r][b] # NoJob /\ job'[r][b] # NoJob
    BY <2>1, <1>t, <1>n DEF Jobs
  <2> QED BY <2>1, <2>2 DEF JobOK, Sending, Resetting, Stored, HasRow
<1>2. CASE SendSignedTransaction(r, b)
  <2>1. /\ job'[r][b] = Went(job[r][b], "none", job[r][b].reset)
        /\ job[r][b].send = "submit"
        /\ sent'[b] = Capped(sent[b] + job[r][b].amount, MaxCredits[b] + 1)
        /\ UNCHANGED <<balance, credited>>
    BY <1>2, <1>t DEF SendSignedTransaction
  <2>2. sent'[b] \in Nat /\ sent'[b] <= sent[b] + job[r][b].amount
    <3> DEFINE n == sent[b] + job[r][b].amount
    <3>1. n \in Nat /\ MaxCredits[b] + 1 \in Nat
      BY <1>t
    <3>2. sent'[b] = Capped(n, MaxCredits[b] + 1)
      BY <2>1
    <3> HIDE DEF n
    <3>3. sent'[b] \in Nat /\ sent'[b] <= n
      BY <3>1, <3>2, CappedType
    <3> QED BY <3>3 DEF n
  <2>3. Stored(b)' = Stored(b) /\ (HasRow(b) => HasRow(b)')
    BY <2>1 DEF Stored, HasRow
  <2>4. job[r][b] # NoJob /\ Sending(job[r][b]) = job[r][b].amount
    BY <2>1, <1>n DEF Sending
  <2>5. CASE job[r][b].reset
    <3>1. /\ job'[r][b].send = "none" /\ job'[r][b].reset
          /\ job'[r][b].amount = job[r][b].amount /\ job'[r][b] # NoJob
      BY <2>5, <2>1, <1>t, <1>n DEF Went, Jobs
    <3>2. /\ Sending(job'[r][b]) = 0
          /\ Resetting(job'[r][b]) = job[r][b].amount
          /\ Resetting(job[r][b]) = job[r][b].amount
      BY <3>1, <2>5 DEF Sending, Resetting
    <3>3. JobOK(r, b)'
      BY <3>2, <2>1, <2>2, <2>3, <2>4, <1>t, <1>s DEF JobOK
    <3> QED BY <3>1, <3>3, <2>1, <2>3, <2>4, <2>5
  <2>6. CASE ~job[r][b].reset
    <3>1. job'[r][b] = NoJob /\ ~job'[r][b].reset
      BY <2>6, <2>1, <1>n DEF Went
    <3>2. Resetting(job[r][b]) = 0
      BY <2>6 DEF Resetting
    <3>3. sent'[b] + Stored(b)' <= credited'[b]
      BY <3>2, <2>1, <2>2, <2>3, <2>4, <1>t, <1>s DEF JobOK
    <3> QED BY <3>1, <3>3, <2>4
  <2> QED BY <2>5, <2>6
<1>3. CASE SetBalance(r, b)
  <2>1. /\ job[r][b].reset
        /\ job'[r][b] = Went(job[r][b], job[r][b].send, FALSE)
        /\ balance'[b] = 0
        /\ UNCHANGED <<sent, credited>>
    BY <1>3, <1>t DEF SetBalance, Reset, tokenVars
  <2>2. /\ job[r][b] # NoJob /\ job'[r][b].reset = FALSE
        /\ job'[r][b] = NoJob => job[r][b].send = "none"
    BY <2>1, <1>t, <1>n DEF Went, Jobs
  <2>3. Stored(b)' = 0
    BY <2>1 DEF Stored
  <2>4. sent[b] + Sending(job[r][b]) <= credited[b]
    <3>1. Resetting(job[r][b]) = job[r][b].amount
      BY <2>1 DEF Resetting
    <3>2. Sending(job[r][b]) \in Nat
      BY <1>t DEF Sending
    <3> QED BY <3>1, <3>2, <2>1, <1>s, <1>t DEF JobOK
  <2>5. CASE job'[r][b] = NoJob
    BY <2>5, <2>1, <2>2, <2>3, <2>4, <1>t DEF Sending
  <2>6. CASE job'[r][b] # NoJob
    <3>1. Sending(job'[r][b]) = Sending(job[r][b])
      BY <2>6, <2>1, <1>t DEF Went, Sending, Jobs
    <3>2. Resetting(job'[r][b]) = 0 /\ Sending(job[r][b]) \in Nat
      BY <2>2, <1>t DEF Resetting, Sending
    <3>3. JobOK(r, b)'
      BY <3>1, <3>2, <2>1, <2>3, <2>4, <1>t DEF JobOK
    <3> QED BY <3>3, <2>2, <2>6
  <2> QED BY <2>5, <2>6
<1> QED BY <1>1, <1>2, <1>3 DEF PayoutStep

\* The step of a payout keeps the invariant.
LEMMA PayPayoutStep ==
    ASSUME PayInv, NEW r \in Runs, NEW b \in Rows, PayoutStep(r, b),
           TokenLoaded
    PROVE  PayInv'
<1>t. TypeOK /\ TypeOK'
  BY TypeStep DEF PayInv, Next
<1>e. /\ UNCHANGED <<credited, reading, faults>>
      /\ \A s \in Runs, d \in Rows :
            /\ job[s][d] = NoJob => job'[s][d] = NoJob
            /\ job'[s][d].reset => /\ job[s][d].reset
                                   /\ job'[s][d].amount = job[s][d].amount
      /\ \A d \in Rows :
            d # b => /\ balance'[d] = balance[d] /\ sent'[d] = sent[d]
                     /\ \A s \in Runs :
                           /\ Sending(job'[s][d]) = Sending(job[s][d])
                           /\ Resetting(job'[s][d]) = Resetting(job[s][d])
                           /\ job[s][d] # NoJob => job'[s][d] # NoJob
  BY <1>t, PayoutEffect
<1> SUFFICES ASSUME faults = 0 PROVE (OneRun /\ ReadOnce /\ ResetOK /\ PaidOK)'
  BY <1>t, <1>e DEF PayInv
<1>i. OneRun /\ ReadOnce /\ ResetOK /\ PaidOK
  BY DEF PayInv
<1>1. OneRun'
  <2>1. \A s \in Runs, u \in Users : InFlight(s, u)' => InFlight(s, u)
    BY <1>e DEF InFlight
  <2> QED BY <2>1, <1>i DEF OneRun
<1>2. ReadOnce'
  BY <1>e, <1>i DEF ReadOnce
<1>j. job[r][b] # NoJob
  <2>1. NoJob.send = "none" /\ NoJob.reset = FALSE
    BY DEF NoJob
  <2>2. job[r][b].send \in {"nonce", "submit"} \/ job[r][b].reset = TRUE
    BY <1>t DEF PayoutStep, GetTransactionCount, SendSignedTransaction,
                SetBalance, TypeOK
  <2> QED BY <2>1, <2>2
<1>3. ASSUME b \in SteadyRows
      PROVE  /\ \A s \in Runs : s # r => job[s][b] = NoJob /\ job'[s][b] = NoJob
             /\ JobOK(r, b)
             /\ job[r][b].reset => HasRow(b) /\ job[r][b].amount <= balance[b]
  <2>1. \A s \in Runs : job[s][b] # NoJob => s = r
    BY <1>3, <1>j, <1>i, ConstantsOK DEF OneRun, InFlight, SteadyRows
  <2> QED BY <2>1, <1>3, <1>e, <1>j, <1>i DEF PaidOK, ResetOK
<1>4. ResetOK'
  <2> SUFFICES ASSUME NEW s \in Runs, NEW d \in SteadyRows, job'[s][d].reset
               PROVE  HasRow(d)' /\ job'[s][d].amount <= balance'[d]
    BY DEF ResetOK, SteadyRows
  <2>1. CASE d # b
    <3>1. HasRow(d)' = HasRow(d) /\ balance'[d] = balance[d]
      BY <2>1, <1>e DEF HasRow, SteadyRows
    <3> QED BY <3>1, <1>e, <1>i DEF ResetOK, SteadyRows
  <2>2. CASE d = b
    <3>1. s = r
      BY <2>2, <1>3 DEF NoJob
    <3> QED BY <2>2, <3>1, <1>3, <1>t, PayoutOwnRow
  <2> QED BY <2>1, <2>2
<1>5. PaidOK'
  <2> SUFFICES ASSUME NEW d \in SteadyRows
               PROVE  /\ \A s \in Runs : job'[s][d] # NoJob => JobOK(s, d)'
                      /\ (\A s \in Runs : job'[s][d] = NoJob) =>
                            sent'[d] + Stored(d)' <= credited'[d]
    BY DEF PaidOK, SteadyRows
  <2>1. CASE d # b
    <3>1. Stored(d)' = Stored(d) /\ sent'[d] = sent[d] /\ credited' = credited
      BY <2>1, <1>e DEF Stored, HasRow, SteadyRows
    <3>2. \A s \in Runs : /\ JobOK(s, d) => JobOK(s, d)'
                          /\ job'[s][d] = NoJob <=> job[s][d] = NoJob
      BY <2>1, <3>1, <1>e DEF JobOK, SteadyRows
    <3> QED BY <3>1, <3>2, <1>i DEF PaidOK
  <2>2. CASE d = b
    BY <2>2, <1>3, <1>t, PayoutOwnRow
  <2> QED BY <2>1, <2>2
<1> QED BY <1>1, <1>2, <1>4, <1>5

\* A deletion takes the row and the resets; what was still to be sent was
\* covered by the row and is now covered by the credits alone.
LEMMA PayDeleteToken ==
    ASSUME PayInv, NEW k \in Tokens, DeleteToken(k), TokenLoaded
    PROVE  PayInv'
<1>t. TypeOK /\ TypeOK' /\ \A r \in Runs, b \in Rows : job[r][b] \in Jobs
  BY TypeStep DEF PayInv, Next, TypeOK, Jobs, Sends
<1>f. UNCHANGED <<credited, sent, reading, faults>>
  BY DEF DeleteToken
<1> SUFFICES ASSUME faults = 0 PROVE (OneRun /\ ReadOnce /\ ResetOK /\ PaidOK)'
  BY <1>t, <1>f DEF PayInv
<1>i. OneRun /\ ReadOnce /\ ResetOK /\ PaidOK
  BY DEF PayInv
<1>1. ASSUME NEW b \in Rows, TokenOf[b] # k
      PROVE  balance'[b] = balance[b] /\ \A r \in Runs : job'[r][b] = job[r][b]
  BY <1>1 DEF DeleteToken
<1>2. ASSUME NEW b \in Rows, TokenOf[b] = k
      PROVE  /\ balance'[b] = NoRow
             /\ \A r \in Runs :
                   job'[r][b] = Went(job[r][b], job[r][b].send, FALSE)
  BY <1>2 DEF DeleteToken
<1>3. ASSUME NEW r \in Runs, NEW b \in Rows, TokenOf[b] = k
      PROVE  /\ job[r][b] = NoJob => job'[r][b] = NoJob
             /\ job'[r][b].reset = FALSE
             /\ Sending(job'[r][b]) = Sending(job[r][b])
  <2>1. job'[r][b] = Went(job[r][b], job[r][b].send, FALSE)
    BY <1>3, <1>2
  <2>2. job[r][b] \in Jobs
    BY <1>t
  <2>n. NoJob.send = "none" /\ NoJob.reset = FALSE /\ NoJob.amount = 0
    BY DEF NoJob
  <2>3. CASE job[r][b].send = "none"
    <3>1. job'[r][b] = NoJob
      BY <2>1, <2>3 DEF Went
    <3> QED BY <3>1, <2>3, <2>n DEF Sending
  <2>4. CASE job[r][b].send # "none"
    <3>1. job'[r][b] = [job[r][b] EXCEPT !.send = job[r][b].send,
                                         !.reset = FALSE]
      BY <2>1, <2>4 DEF Went
    <3>2. /\ job'[r][b].send = job[r][b].send /\ job'[r][b].reset = FALSE
          /\ job'[r][b].amount = job[r][b].amount
      BY <3>1, <2>2 DEF Jobs
    <3> QED BY <3>2, <2>4, <2>n DEF Sending
  <2> QED BY <2>3, <2>4
<1>4. \A r \in Runs, b \in Rows : job[r][b] = NoJob => job'[r][b] = NoJob
  BY <1>1, <1>3
<1>5. OneRun' /\ ReadOnce'
  <2>1. \A r \in Runs, u \in Users : InFlight(r, u)' => InFlight(r, u)
    BY <1>4, <1>f DEF InFlight
  <2> QED BY <2>1, <1>4, <1>f, <1>i DEF OneRun, ReadOnce
<1>6. ResetOK'
  <2> SUFFICES ASSUME NEW r \in Runs, NEW b \in SteadyRows, job'[r][b].reset
               PROVE  HasRow(b)' /\ job'[r][b].amount <= balance'[b]
    BY DEF ResetOK, SteadyRows
  <2>b. b \in Rows
    BY DEF SteadyRows
  <2>1. TokenOf[b] # k
    BY <2>b, <1>3
  <2> QED BY <2>1, <2>b, <1>1, <1>i DEF ResetOK, HasRow
<1>7. PaidOK'
  <2> SUFFICES ASSUME NEW b \in SteadyRows
               PROVE  /\ \A r \in Runs : job'[r][b] # NoJob => JobOK(r, b)'
                      /\ (\A r \in Runs : job'[r][b] = NoJob) =>
                            sent'[b] + Stored(b)' <= credited'[b]
    BY DEF PaidOK, SteadyRows
  <2>b. b \in Rows
    BY DEF SteadyRows
  <2>1. CASE TokenOf[b] # k
    <3>1. Stored(b)' = Stored(b)
      BY <2>1, <2>b, <1>1 DEF Stored, HasRow
    <3>2. \A r \in Runs : JobOK(r, b)' = JobOK(r, b)
      BY <3>1, <2>1, <2>b, <1>1, <1>f DEF JobOK
    <3> QED BY <3>1, <3>2, <2>1, <2>b, <1>1, <1>f, <1>i DEF PaidOK
  <2>2. CASE TokenOf[b] = k
    <3>1. Stored(b)' = 0
      BY <2>2, <2>b, <1>2 DEF Stored, HasRow
    <3>n. /\ sent[b] \in Nat /\ credited[b] \in Nat /\ Stored(b) \in Nat
          /\ \A r \in Runs : /\ Sending(job[r][b]) \in Nat
                              /\ Resetting(job[r][b]) \in Nat
      BY <2>b, <1>t DEF TypeOK, Stored, HasRow, NoRow, Sending, Resetting
    <3>2. ASSUME NEW r \in Runs, job[r][b] # NoJob
          PROVE  sent[b] + Sending(job[r][b]) <= credited[b]
      <4>1. JobOK(r, b)
        BY <3>2, <1>i DEF PaidOK
      <4>2. Resetting(job[r][b]) <= Stored(b)
        BY <3>n, <1>i DEF ResetOK, Resetting, Stored
      <4> QED BY <4>1, <4>2, <3>n DEF JobOK
    <3>3. ASSUME NEW r \in Runs, job'[r][b] # NoJob PROVE JobOK(r, b)'
      <4>1. sent[b] + Sending(job[r][b]) <= credited[b]
        BY <3>2, <3>3, <2>b, <1>4
      <4>2. Resetting(job'[r][b]) = 0
        BY <2>2, <2>b, <1>3 DEF Resetting
      <4>3. Sending(job'[r][b]) = Sending(job[r][b])
        BY <2>2, <2>b, <1>3
      <4> QED BY <4>1, <4>2, <4>3, <3>1, <3>n, <1>f DEF JobOK
    <3>4. sent[b] <= credited[b]
      <4>1. CASE \A r \in Runs : job[r][b] = NoJob
        BY <4>1, <3>n, <1>i DEF PaidOK
      <4>2. CASE \E r \in Runs : job[r][b] # NoJob
        BY <4>2, <3>2, <3>n
      <4> QED BY <4>1, <4>2
    <3> QED BY <3>1, <3>3, <3>4, <3>n, <1>f
  <2> QED BY <2>1, <2>2
<1> QED BY <1>5, <1>6, <1>7

\* Every step keeps the invariant; a process that died is out of its reach.
LEMMA PayStep == PayInv /\ [Next]_vars => PayInv'
<1> SUFFICES ASSUME PayInv, [Next]_vars PROVE PayInv' OBVIOUS
<1>1. CASE Crash
  <2>1. faults' # 0
    BY <1>1, ConstantsOK DEF Crash, Capped, PayInv, TypeOK
  <2> QED BY <2>1, TypeStep DEF PayInv
<1>2. CASE RunStep /\ TokenLoaded
  BY <1>2, PaySendFunds, PayGetBalances, PayPayoutStep, PayDeleteToken
     DEF RunStep
<1>3. CASE ~RunStep /\ ~Crash /\ TokenLoaded
  BY <1>3, PayOtherStep
<1>4. CASE ~Crash /\ ~TokenLoaded
  BY <1>4, UnloadedStep
<1> QED BY <1>1, <1>2, <1>3, <1>4

\* No owner whose payouts do not overlap is paid more than was credited.
THEOREM NobodyOverpaid == Spec => []PaidAtMostCredited
BY PayInit, PayStep, PayInvPays, PTL DEF Spec

===============================================================================
