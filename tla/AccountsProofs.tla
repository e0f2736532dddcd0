---------------------------- MODULE AccountsProofs ----------------------------
(***************************************************************************)
(* Accounts: its types, and the three invariants of its runs, for every    *)
(* number of users, tokens, requests, calls and faults.                    *)
(*                                                                         *)
(* A call holds on to a token, an entry of the cache and a row it read.    *)
(* The strengthening says what it may still rely on: that the token was    *)
(* made for what the call does with it, that an entry it read is the one   *)
(* made for the token, and that a factor it goes by has been proved.       *)
(***************************************************************************)
EXTENDS Accounts, TLAPS

-----------------------------------------------------------------------------
(* The inductive invariant.                                                *)

LinkSteps == {"cacheLink", "mailLink", "cacheJunk", "dropLink", "setVerified"}
LoginSteps == {"mailLogin", "cacheLogin"}
ConfirmSteps == {"dropTfa", "checkCode", "setTfa"}
TfaSteps == {"cacheTfa", "mailTfa"} \cup ConfirmSteps
ResetSteps == {"mailReset", "cacheReset"}
UserSteps == {"login", "findUser", "saveRequest", "approve", "deny"}

\* A call holds a token of this kind.
Holds(call, k) == call.token \in Tokens /\ made[call.token].kind = k

\* What a call holds fits what it does next.
CallOK(call) ==
    /\ call.at \in LinkSteps => Holds(call, "link")
    /\ call.at \in LoginSteps => Holds(call, "login")
    /\ call.at \in TfaSteps => Holds(call, "tfa")
    /\ call.at \in ResetSteps => Holds(call, "reset")
    /\ call.at \in UserSteps => call.user \in Users
    /\ call.at = "deny" => call.req \in Requests
    /\ call.at \in ConfirmSteps \cup {"setVerified"} =>
          call.entry = made[call.token]
    /\ call.at = "dropLink" => call.entry \in {made[call.token], Junk}

CallsOK == \A c \in Calls : CallOK(calls[c])

\* The cache holds of a token the entry it was made for, or nothing; "junk"
\* only of a link.
EntryOK(t) == \/ cache[t] = NoEntry
              \/ cache[t] = made[t]
              \/ cache[t] = Junk /\ made[t].kind = "link"

EntriesOK == \A t \in Tokens : EntryOK(t)

\* Types, tokens and calls.
BaseInv == TypeOK /\ CallsOK /\ EntriesOK

\* A token of a factor was made for a verified email, one of a login or of a
\* forgotten password for a factor that was proved.
TokensProved ==
    \A t \in Tokens :
       /\ made[t].kind = "tfa" => security[made[t].factor.user].verified
       /\ made[t].kind \in {"login", "reset"} => made[t].factor \in proved

\* A login that will succeed, and a factor about to be set, were proved.
CallsProved ==
    \A c \in Calls :
       /\ calls[c].at = "login" /\ MayLogin(calls[c].row) =>
             Factor(calls[c].user, calls[c].row) \in proved
       /\ calls[c].at = "setTfa" => calls[c].entry.factor \in proved

FactorInv == BaseInv /\ FactorIsProved /\ SessionIsProved /\ TokensProved
             /\ CallsProved

\* The email of a link is verified, or will be by a call that has it.
Used(t) == \/ security[made[t].factor.user].verified
           \/ \E c \in Calls : calls[c].token = t /\ calls[c].at = "setVerified"

\* Only a link that was delivered is clicked; a click that finds nothing, or
\* junk, comes after one that verifies.
Useless(call) == \/ call.at = "cacheJunk"
                 \/ call.at = "dropLink" /\ call.entry.kind # "link"

ClicksOK ==
    \A c \in Calls :
       /\ calls[c].at \in {"cacheJunk", "dropLink", "setVerified"} =>
             calls[c].token \in delivered
       /\ faults = 0 /\ Useless(calls[c]) => Used(calls[c].token)
       /\ calls[c].at = "mailLink" /\ calls[c].token \notin delivered
          /\ faults = 0
             => cache[calls[c].token] = made[calls[c].token]

\* What was delivered was made.
DeliveredMade == \A t \in delivered : made[t].kind \in Kinds

LinkInv == BaseInv /\ LinkStaysGood /\ ClicksOK /\ DeliveredMade

-----------------------------------------------------------------------------
(* The records of the model.                                               *)

\* What the entries are: of no kind, junk, or of a kind and a factor.
LEMMA EntryFacts ==
    /\ NoEntry \in Entries /\ NoEntry.kind = "none"
    /\ Junk \in Entries /\ Junk.kind = "junk"
    /\ \A k \in Kinds, f \in Factors :
          Entry(k, f) \in Entries /\ Entry(k, f).kind = k
          /\ Entry(k, f).factor = f
    /\ \A e \in Entries : e.kind \in Kinds => e.factor \in Factors
    /\ \A e \in Entries : e.kind \in Kinds \cup {"none", "junk"}
  BY DEF Entries, NoEntry, Junk, Entry, Kinds, Factors, NoFactor

\* A factor made of a user and a security row.
LEMMA FactorFacts ==
    /\ NewSecurity \in Security
    /\ \A u \in Users, row \in Security : Factor(u, row) \in Factors
    /\ \A u \in Users, row \in Security : Factor(u, row).user = u
  BY DEF NewSecurity, Security, Factor, Factors, Types

\* The idle call does nothing and holds nothing.
LEMMA IdleFacts ==
    /\ Idle.at = "idle" /\ Idle.user = NoUser /\ Idle.token = NoToken
    /\ Idle.entry = NoEntry /\ Idle.row = NewSecurity /\ Idle.req = NoRequest
    /\ CallOK(Idle)
  BY DEF Idle, CallOK, LinkSteps, LoginSteps, TfaSteps, ConfirmSteps,
         ResetSteps, UserSteps

\* What the handlers write to a security row.
LEMMA SecurityFacts ==
    ASSUME NEW row \in Security
    PROVE  /\ [row EXCEPT !.verified = TRUE] \in Security
           /\ [row EXCEPT !.tfa = FALSE] \in Security
           /\ \A f \in Factors :
                 [row EXCEPT !.tfa = TRUE, !.type = f.type, !.secret = f.secret]
                    \in Security
  BY DEF Security, Factors

\* The records a call may be.
CallType == [at: Steps, user: Users \cup {NoUser}, token: Tokens \cup {NoToken},
             entry: Entries, row: Security, req: Requests \cup {NoRequest}]

\* The calls a handler starts or goes on to have their type.
LEMMA CallTypes ==
    /\ Idle \in CallType
    /\ \A call \in CallType, s \in Steps : [call EXCEPT !.at = s] \in CallType
    /\ \A call \in CallType, s \in Steps, t \in Tokens :
          [call EXCEPT !.at = s, !.token = t] \in CallType
    /\ \A s \in Steps, t \in Tokens, e \in Entries :
          [Idle EXCEPT !.at = s, !.token = t, !.entry = e] \in CallType
    /\ \A s \in Steps, u \in Users, row \in Security :
          [Idle EXCEPT !.at = s, !.user = u, !.row = row] \in CallType
    /\ \A s \in Steps, u \in Users :
          [Idle EXCEPT !.at = s, !.user = u] \in CallType
    /\ \A s \in Steps, u \in Users, r \in Requests :
          [Idle EXCEPT !.at = s, !.user = u, !.req = r] \in CallType
  <1>1. Idle \in CallType
    BY EntryFacts, FactorFacts DEF Idle, CallType, Steps
  <1> QED BY <1>1 DEF CallType

-----------------------------------------------------------------------------
(* Types.                                                                  *)

\* The fields of a call that a handler starts.
LEMMA StartFields ==
    /\ \A s \in Steps, t \in Tokens, e \in Entries :
          LET call == [Idle EXCEPT !.at = s, !.token = t, !.entry = e] IN
          call.at = s /\ call.token = t /\ call.entry = e
    /\ \A s \in Steps, u \in Users, row \in Security :
          LET call == [Idle EXCEPT !.at = s, !.user = u, !.row = row] IN
          call.at = s /\ call.user = u /\ call.row = row
    /\ \A s \in Steps, u \in Users :
          LET call == [Idle EXCEPT !.at = s, !.user = u] IN
          call.at = s /\ call.user = u
    /\ \A s \in Steps, u \in Users, r \in Requests :
          LET call == [Idle EXCEPT !.at = s, !.user = u, !.req = r] IN
          call.at = s /\ call.user = u /\ call.req = r
  BY DEF Idle

\* What the helpers leave in calls, and in the entries made.
LEMMA HelperTypes ==
    ASSUME TypeOK, NEW c \in Calls
    PROVE  /\ \A call \in CallType :
                 Start(c, call) => calls' \in [Calls -> CallType]
           /\ \A s \in Steps : Become(c, s) => calls' \in [Calls -> CallType]
           /\ End(c) => calls' \in [Calls -> CallType]
           /\ \A s \in Steps, t \in Tokens, k \in Kinds, f \in Factors :
                 Generate(c, s, t, k, f) =>
                    /\ calls' \in [Calls -> CallType]
                    /\ made' \in [Tokens -> Entries]
  <1>1. calls \in [Calls -> CallType] /\ made \in [Tokens -> Entries]
    BY DEF TypeOK, CallType
  <1>2. calls[c] \in CallType
    BY <1>1
  <1>3. \A call \in CallType :
           Start(c, call) => calls' \in [Calls -> CallType]
    BY <1>1 DEF Start
  <1>4. \A s \in Steps : Become(c, s) => calls' \in [Calls -> CallType]
    <2> SUFFICES ASSUME NEW s \in Steps, Become(c, s)
                 PROVE  calls' \in [Calls -> CallType]
      OBVIOUS
    <2>1. [calls[c] EXCEPT !.at = s] \in CallType
      BY <1>2, CallTypes
    <2> QED BY <2>1, <1>1 DEF Become
  <1>5. End(c) => calls' \in [Calls -> CallType]
    BY <1>1, CallTypes DEF End
  <1>6. \A s \in Steps, t \in Tokens, k \in Kinds, f \in Factors :
           Generate(c, s, t, k, f) => /\ calls' \in [Calls -> CallType]
                                      /\ made' \in [Tokens -> Entries]
    <2> SUFFICES ASSUME NEW s \in Steps, NEW t \in Tokens, NEW k \in Kinds,
                        NEW f \in Factors, Generate(c, s, t, k, f)
                 PROVE  /\ calls' \in [Calls -> CallType]
                        /\ made' \in [Tokens -> Entries]
      OBVIOUS
    <2>1. [calls[c] EXCEPT !.at = s, !.token = t] \in CallType
      BY <1>2, CallTypes
    <2>2. Entry(k, f) \in Entries
      BY EntryFacts
    <2> QED BY <2>1, <2>2, <1>1 DEF Generate
  <1> QED BY <1>3, <1>4, <1>5, <1>6

\* A step of a call that is under way keeps the types.
LEMMA ContinueTypes ==
    ASSUME BaseInv, NEW c \in Calls, Continue(c)
    PROVE  TypeOK'
<1>t. TypeOK /\ CallOK(calls[c]) /\ calls[c] \in CallType
  BY DEF BaseInv, CallsOK, TypeOK, CallType
<1>h. /\ calls[c].at \in LinkSteps \cup LoginSteps \cup TfaSteps \cup ResetSteps
            => calls[c].token \in Tokens
      /\ calls[c].at \in UserSteps => calls[c].user \in Users
      /\ calls[c].at = "deny" => calls[c].req \in Requests
      /\ calls[c].at \in {"setVerified", "setTfa"}
            => calls[c].entry.factor \in Factors
  BY <1>t, EntryFacts DEF CallOK, Holds, CallType, LinkSteps, LoginSteps,
       TfaSteps, ConfirmSteps, ResetSteps, UserSteps, Kinds
<1>1. CASE Login(c)
  <2>1. ASSUME MayLogin(calls[c].row)
        PROVE  Factor(calls[c].user, calls[c].row) \in Factors
    BY <1>1, <1>h, <1>t, FactorFacts DEF Login, CallType, UserSteps
  <2>2. calls' \in [Calls -> CallType] /\ made' \in [Tokens -> Entries]
    <3>1. CASE MayLogin(calls[c].row)
      <4>1. PICK t \in Tokens :
               Generate(c, IF calls[c].row.type = "EMAIL" THEN "mailLogin"
                                                         ELSE "cacheLogin",
                        t, "login", Factor(calls[c].user, calls[c].row))
        BY <1>1, <3>1 DEF Login
      <4> QED BY <4>1, <2>1, <3>1, <1>t, HelperTypes DEF Steps, Kinds
    <3>2. CASE ~MayLogin(calls[c].row)
      BY <1>1, <3>2, <1>t, HelperTypes DEF Login, TypeOK
    <3> QED BY <3>1, <3>2
  <2> QED BY <1>1, <2>2, <1>t DEF Login, TypeOK, CallType, histVars
<1>2. CASE RequestTfa(c)
  <2> DEFINE f(t, type) == [user |-> calls[c].user, type |-> type,
                            secret |-> IF type = "GOOGLE" THEN t ELSE NoToken]
  <2>1. \A t \in Tokens, type \in Types : f(t, type) \in Factors
    BY <1>2, <1>h DEF RequestTfa, UserSteps, Factors
  <2>2. calls' \in [Calls -> CallType] /\ made' \in [Tokens -> Entries]
    <3>1. CASE End(c) /\ UNCHANGED made
      BY <3>1, <1>t, HelperTypes DEF TypeOK
    <3>2. CASE ~(End(c) /\ UNCHANGED made)
      <4>1. PICK t \in Tokens, type \in Types :
               Generate(c, "cacheTfa", t, "tfa", f(t, type))
        BY <1>2, <3>2 DEF RequestTfa
      <4> QED BY <4>1, <2>1, <1>t, HelperTypes DEF Steps, Kinds
    <3> QED BY <3>1, <3>2
  <2> QED BY <1>2, <2>2, <1>t DEF RequestTfa, TypeOK, CallType, histVars
<1> SUFFICES ASSUME ~Login(c), ~RequestTfa(c)
             PROVE  TypeOK'
  BY <1>1, <1>2
<1>3. made' \in [Tokens -> Entries] /\ account' = account
  BY <1>t DEF Continue, CacheLink, MailLink, CacheJunk, DropLink,
       SetEmailVerified, MailLogin, CacheLogin, CacheTfa, MailTfa, DropTfa,
       CheckCode, SetTfa, MailReset, CacheReset, SaveRequest, ApproveRequest,
       DenyRequest, TypeOK, tokenVars
<1>4. calls' \in [Calls -> CallType]
  <2>1. \/ End(c)
        \/ \E s \in Steps : Become(c, s)
    BY DEF Continue, CacheLink, MailLink, CacheJunk, DropLink,
       SetEmailVerified, MailLogin, CacheLogin, CacheTfa, MailTfa, DropTfa,
       CheckCode, SetTfa, MailReset, CacheReset, SaveRequest, ApproveRequest,
       DenyRequest, Steps
  <2> QED BY <2>1, <1>t, HelperTypes
<1>5. security' \in [Users -> Security]
  <2>1. CASE SetEmailVerified(c)
    <3> DEFINE u == calls[c].entry.factor.user
    <3>1. u \in Users
      BY <2>1, <1>h DEF SetEmailVerified, Factors
    <3>2. [security[u] EXCEPT !.verified = TRUE] \in Security
      BY <3>1, <1>t, SecurityFacts DEF TypeOK
    <3> QED BY <2>1, <3>2, <1>t DEF SetEmailVerified, TypeOK
  <2>2. CASE SetTfa(c)
    <3> DEFINE f == calls[c].entry.factor
    <3>1. f \in Factors /\ f.user \in Users
      BY <2>2, <1>h DEF SetTfa, Factors
    <3>2. [security[f.user] EXCEPT !.tfa = TRUE, !.type = f.type,
                                   !.secret = f.secret] \in Security
      BY <3>1, <1>t, SecurityFacts DEF TypeOK
    <3> QED BY <2>2, <3>2, <1>t DEF SetTfa, TypeOK
  <2>3. CASE ApproveRequest(c)
    <3> DEFINE u == calls[c].user
    <3>1. u \in Users
      BY <2>3, <1>h DEF ApproveRequest, UserSteps
    <3>2. [security[u] EXCEPT !.tfa = FALSE] \in Security
      BY <3>1, <1>t, SecurityFacts DEF TypeOK
    <3> QED BY <2>3, <3>2, <1>t DEF ApproveRequest, TypeOK
  <2>4. CASE ~SetEmailVerified(c) /\ ~SetTfa(c) /\ ~ApproveRequest(c)
    BY <2>4, <1>t DEF Continue, CacheLink, MailLink, CacheJunk, DropLink,
       MailLogin, CacheLogin, CacheTfa, MailTfa, DropTfa,
       CheckCode, MailReset, CacheReset, SaveRequest, DenyRequest, TypeOK
  <2> QED BY <2>1, <2>2, <2>3, <2>4
<1>6. cache' \in [Tokens -> Entries]
  <2>1. CASE CacheLink(c) \/ CacheLogin(c) \/ CacheTfa(c) \/ CacheReset(c)
    <3>1. Put(c)
      BY <2>1 DEF CacheLink, CacheLogin, CacheTfa, CacheReset
    <3> QED BY <3>1, <1>t DEF Put, TypeOK
  <2>2. CASE CacheJunk(c) \/ DropLink(c) \/ DropTfa(c)
    BY <2>2, <1>t, EntryFacts DEF CacheJunk, DropLink, DropTfa, TypeOK
  <2>3. CASE UNCHANGED cache
    BY <2>3, <1>t DEF TypeOK
  <2> QED BY <2>1, <2>2, <2>3 DEF Continue, MailLink, SetEmailVerified,
         MailLogin, MailTfa, CheckCode, SetTfa, MailReset, SaveRequest,
         ApproveRequest, DenyRequest
<1>7. delivered' \subseteq Tokens /\ faults' \in 0 .. MaxFaults
  BY <1>t, <1>h, FaultAssumption DEF Continue, CacheLink, MailLink, CacheJunk,
       DropLink, SetEmailVerified, MailLogin, CacheLogin, CacheTfa, MailTfa,
       DropTfa, CheckCode, SetTfa, MailReset, CacheReset, SaveRequest,
       ApproveRequest, DenyRequest, TypeOK, Mail, tokenVars, LinkSteps,
       LoginSteps, TfaSteps, ResetSteps
<1>8. request' \in [Requests -> [user: Users \cup {NoUser}, status: {0, 2}]]
  <2>1. CASE SaveRequest(c)
    BY <2>1, <1>t, <1>h DEF SaveRequest, TypeOK, UserSteps
  <2>2. CASE DenyRequest(c)
    BY <2>2, <1>t, <1>h DEF DenyRequest, TypeOK
  <2>3. CASE ~SaveRequest(c) /\ ~DenyRequest(c)
    BY <2>3, <1>t DEF Continue, CacheLink, MailLink, CacheJunk, DropLink,
       SetEmailVerified, MailLogin, CacheLogin, CacheTfa, MailTfa, DropTfa,
       CheckCode, SetTfa, MailReset, CacheReset, ApproveRequest, TypeOK
  <2> QED BY <2>1, <2>2, <2>3
<1>9. proved' \subseteq Factors /\ sessions' \subseteq Factors
  <2>1. CASE CheckCode(c)
    <3>1. calls[c].entry.factor \in Factors
      BY <2>1, <1>t, EntryFacts DEF CheckCode, CallOK, Holds, ConfirmSteps,
         TfaSteps, CallType, Kinds
    <3> QED BY <2>1, <3>1, <1>t DEF CheckCode, TypeOK
  <2>2. CASE SetTfa(c)
    BY <2>2, <1>t, <1>h DEF SetTfa, TypeOK
  <2>3. CASE ~CheckCode(c) /\ ~SetTfa(c)
    BY <2>3, <1>t DEF Continue, CacheLink, MailLink, CacheJunk, DropLink,
       SetEmailVerified, MailLogin, CacheLogin, CacheTfa, MailTfa, DropTfa,
       MailReset, CacheReset, SaveRequest, ApproveRequest, DenyRequest,
       TypeOK, histVars
  <2> QED BY <2>1, <2>2, <2>3
<1> QED
  BY <1>3, <1>4, <1>5, <1>6, <1>7, <1>8, <1>9, <1>t DEF TypeOK, CallType

\* Every step keeps the types.
LEMMA TypeStep ==
    ASSUME BaseInv, Next
    PROVE  TypeOK'
<1>t. TypeOK
  BY DEF BaseInv
<1>1. CASE \E c \in Calls : Continue(c)
  BY <1>1, ContinueTypes
<1>2. ASSUME NEW c \in Calls, NEW u \in Users, Register(c, u)
      PROVE  TypeOK'
  <2>1. PICK t \in Tokens :
           Generate(c, "cacheLink", t, "link", Factor(u, NewSecurity))
    BY <1>2 DEF Register
  <2>2. calls' \in [Calls -> CallType] /\ made' \in [Tokens -> Entries]
    BY <2>1, <1>t, HelperTypes, FactorFacts DEF Steps, Kinds
  <2>3. account' \in [Users -> {"none", "live", "deleted"}]
    BY <1>2, <1>t DEF Register, TypeOK
  <2> QED BY <1>2, <2>2, <2>3, <1>t DEF Register, TypeOK, CallType, histVars
<1>3. ASSUME NEW c \in Calls, NEW u \in Users, ForgotPassword(c, u)
      PROVE  TypeOK'
  <2>1. PICK t \in Tokens :
           Generate(c, "mailReset", t, "reset", Factor(u, security[u]))
    BY <1>3 DEF ForgotPassword
  <2>2. Factor(u, security[u]) \in Factors
    BY <1>t, FactorFacts DEF TypeOK
  <2>3. calls' \in [Calls -> CallType] /\ made' \in [Tokens -> Entries]
    BY <2>1, <2>2, <1>t, HelperTypes DEF Steps, Kinds
  <2> QED BY <1>3, <2>3, <1>t DEF ForgotPassword, TypeOK, CallType, histVars
<1>4. ASSUME NEW c \in Calls, NEW call \in CallType, Start(c, call),
             UNCHANGED <<account, security, cache, made, delivered, request,
                         proved, sessions, faults>>
      PROVE  TypeOK'
  <2>1. calls' \in [Calls -> CallType]
    BY <1>4, <1>t, HelperTypes
  <2> QED BY <1>4, <2>1, <1>t DEF TypeOK, CallType
<1>5. ASSUME NEW c \in Calls, NEW u \in Users, CreateNewRequest(c, u)
      PROVE  TypeOK'
  <2>1. [Idle EXCEPT !.at = "saveRequest", !.user = u] \in CallType
    BY CallTypes DEF Steps
  <2> QED BY <2>1, <1>5, <1>4 DEF CreateNewRequest, tokenVars, histVars
<1>6. ASSUME NEW c \in Calls, NEW u \in Users, NEW s \in {"login", "findUser"},
             ValidateUser(c, u, s)
      PROVE  TypeOK'
  <2>1. [Idle EXCEPT !.at = s, !.user = u, !.row = security[u]] \in CallType
    BY <1>t, CallTypes DEF Steps, TypeOK
  <2> QED BY <2>1, <1>6, <1>4 DEF ValidateUser, tokenVars, histVars
<1>7. ASSUME NEW c \in Calls, NEW t \in Tokens, ClickLink(c, t)
      PROVE  TypeOK'
  <2> DEFINE s == IF cache[t] = NoEntry THEN "cacheJunk" ELSE "dropLink"
  <2>1. s \in Steps
    BY DEF Steps
  <2>2. [Idle EXCEPT !.at = s, !.token = t, !.entry = cache[t]] \in CallType
    BY <2>1, <1>t, CallTypes DEF TypeOK
  <2> QED BY <2>2, <1>7, <1>4 DEF ClickLink, tokenVars, histVars
<1>8. ASSUME NEW c \in Calls, NEW t \in Tokens, ConfirmTfaRequest(c, t)
      PROVE  TypeOK'
  <2>1. [Idle EXCEPT !.at = "dropTfa", !.token = t, !.entry = cache[t]]
           \in CallType
    BY <1>t, CallTypes DEF TypeOK, Steps
  <2> QED BY <2>1, <1>8, <1>4 DEF ConfirmTfaRequest, tokenVars, histVars
<1>9. ASSUME NEW c \in Calls, NEW r \in Requests, NEW d \in {"approve", "deny"},
             OpenRequest(c, r, d)
      PROVE  TypeOK'
  <2>1. request[r].user \in Users
    BY <1>9, <1>t DEF OpenRequest, TypeOK
  <2>2. [Idle EXCEPT !.at = d, !.user = request[r].user, !.req = r] \in CallType
    BY <2>1, CallTypes DEF Steps
  <2> QED BY <2>2, <1>9, <1>4 DEF OpenRequest, tokenVars, histVars
<1>10. ASSUME NEW t \in Tokens, ConfirmTfaCode(t)
       PROVE  TypeOK'
  <2>1. cache[t].factor \in Factors
    BY <1>10, <1>t, EntryFacts DEF ConfirmTfaCode, Accepts, TypeOK, Kinds
  <2> QED BY <1>10, <2>1, <1>t DEF ConfirmTfaCode, TypeOK, tokenVars
<1>11. ASSUME NEW t \in Tokens, Expire(t)
       PROVE  TypeOK'
  <2>1. cache' \in [Tokens -> Entries]
    BY <1>11, <1>t, EntryFacts DEF Expire, TypeOK
  <2> QED BY <1>11, <2>1, <1>t, FaultAssumption
          DEF Expire, TypeOK, tokenVars, histVars
<1>12. ASSUME NEW u \in Users, Remove(u)
       PROVE  TypeOK'
  BY <1>12, <1>t DEF Remove, TypeOK, tokenVars, histVars
<1>13. CASE Restart
  <2>1. calls' \in [Calls -> CallType]
    BY <1>13, CallTypes DEF Restart
  <2> QED BY <1>13, <2>1, <1>t, FaultAssumption
          DEF Restart, TypeOK, CallType, tokenVars, histVars
<1> QED
  BY <1>1, <1>2, <1>3, <1>5, <1>6, <1>7, <1>8, <1>9, <1>10, <1>11, <1>12, <1>13
     DEF Next

-----------------------------------------------------------------------------
(* What calls hold, and what the cache holds.                              *)

\* What the helpers do to the call itself and to the others.
LEMMA HelperEffects ==
    ASSUME TypeOK, NEW c \in Calls
    PROVE  /\ \A call : Start(c, call) =>
                 calls[c] = Idle /\ calls'[c] = call
                 /\ \A s \in Calls : s # c => calls'[s] = calls[s]
           /\ \A s \in Steps : Become(c, s) =>
                 /\ calls'[c].at = s
                 /\ calls'[c].user = calls[c].user
                 /\ calls'[c].token = calls[c].token
                 /\ calls'[c].entry = calls[c].entry
                 /\ calls'[c].row = calls[c].row
                 /\ calls'[c].req = calls[c].req
                 /\ \A d \in Calls : d # c => calls'[d] = calls[d]
           /\ End(c) => calls'[c] = Idle
                        /\ \A s \in Calls : s # c => calls'[s] = calls[s]
           /\ \A s \in Steps, t \in Tokens, k \in Kinds, f \in Factors :
                 Generate(c, s, t, k, f) =>
                    /\ calls'[c].at = s /\ calls'[c].token = t
                    /\ calls'[c].entry = calls[c].entry
                    /\ \A d \in Calls : d # c => calls'[d] = calls[d]
                    /\ made[t] = NoEntry /\ made'[t] = Entry(k, f)
                    /\ \A x \in Tokens : x # t => made'[x] = made[x]
  <1>1. calls \in [Calls -> CallType] /\ made \in [Tokens -> Entries]
    BY DEF TypeOK, CallType
  <1>2. \A call : Start(c, call) =>
           calls[c] = Idle /\ calls'[c] = call
           /\ \A s \in Calls : s # c => calls'[s] = calls[s]
    BY <1>1 DEF Start
  <1>3. ASSUME NEW s \in Steps, Become(c, s)
        PROVE  /\ calls'[c].at = s
               /\ calls'[c].user = calls[c].user
               /\ calls'[c].token = calls[c].token
               /\ calls'[c].entry = calls[c].entry
               /\ calls'[c].row = calls[c].row
               /\ calls'[c].req = calls[c].req
               /\ \A d \in Calls : d # c => calls'[d] = calls[d]
    BY <1>1, <1>3 DEF Become, CallType
  <1>4. End(c) => calls'[c] = Idle
                  /\ \A s \in Calls : s # c => calls'[s] = calls[s]
    BY <1>1 DEF End
  <1>5. ASSUME NEW s \in Steps, NEW t \in Tokens, NEW k \in Kinds,
               NEW f \in Factors, Generate(c, s, t, k, f)
        PROVE  /\ calls'[c].at = s /\ calls'[c].token = t
               /\ calls'[c].entry = calls[c].entry
               /\ \A d \in Calls : d # c => calls'[d] = calls[d]
               /\ made[t] = NoEntry /\ made'[t] = Entry(k, f)
               /\ \A x \in Tokens : x # t => made'[x] = made[x]
    BY <1>1, <1>5 DEF Generate, CallType
  <1> QED BY <1>2, <1>3, <1>4, <1>5

\* The step that makes an entry for a token, if the step is one.
Made(c, s, t, k, f) ==
    /\ Generate(c, s, t, k, f)
    /\ \/ s = "cacheLink" /\ k = "link"
       \/ s \in LoginSteps /\ k = "login" /\ calls[c].at = "login"
          /\ MayLogin(calls[c].row) /\ f = Factor(calls[c].user, calls[c].row)
       \/ s = "cacheTfa" /\ k = "tfa" /\ security[f.user].verified
       \/ s = "mailReset" /\ k = "reset"
          /\ \E u \in Users : security[u].tfa /\ f = Factor(u, security[u])
    /\ UNCHANGED <<security, cache, delivered, proved, sessions, faults>>

Makes(c) == \E s \in Steps, t \in Tokens, k \in Kinds, f \in Factors :
               Made(c, s, t, k, f)

\* A step makes one entry, or none; a call that does not make one ends.
LEMMA MadeStep ==
    ASSUME BaseInv, Next
    PROVE  /\ UNCHANGED made \/ \E c \in Calls : Makes(c)
           /\ \A c \in Calls : Login(c) \/ RequestTfa(c) =>
                 (End(c) /\ UNCHANGED made) \/ Makes(c)
           /\ \A c \in Calls, u \in Users :
                 Register(c, u) \/ ForgotPassword(c, u) => Makes(c)
<1>t. TypeOK /\ CallsOK
  BY DEF BaseInv
<1>1. ASSUME NEW c \in Calls, NEW u \in Users, Register(c, u)
      PROVE  Makes(c)
  <2>1. PICK t \in Tokens :
           Generate(c, "cacheLink", t, "link", Factor(u, NewSecurity))
    BY <1>1 DEF Register
  <2>2. Made(c, "cacheLink", t, "link", Factor(u, NewSecurity))
    BY <2>1, <1>1 DEF Register, Made, histVars
  <2>3. Factor(u, NewSecurity) \in Factors
    BY FactorFacts
  <2> QED BY <2>2, <2>3 DEF Makes, Steps, Kinds
<1>2. ASSUME NEW c \in Calls, NEW u \in Users, ForgotPassword(c, u)
      PROVE  Makes(c)
  <2>1. PICK t \in Tokens :
           Generate(c, "mailReset", t, "reset", Factor(u, security[u]))
    BY <1>2 DEF ForgotPassword
  <2>2. Made(c, "mailReset", t, "reset", Factor(u, security[u]))
    BY <2>1, <1>2 DEF ForgotPassword, Made, MayLogin, histVars
  <2>3. Factor(u, security[u]) \in Factors
    BY <1>t, FactorFacts DEF TypeOK
  <2> QED BY <2>2, <2>3 DEF Makes, Steps, Kinds
<1>3. ASSUME NEW c \in Calls, Login(c)
      PROVE  (End(c) /\ UNCHANGED made) \/ Makes(c)
  <2> SUFFICES ASSUME ~(End(c) /\ UNCHANGED made) PROVE Makes(c)
    OBVIOUS
  <2> DEFINE s == IF calls[c].row.type = "EMAIL" THEN "mailLogin"
                                                  ELSE "cacheLogin"
             f == Factor(calls[c].user, calls[c].row)
  <2>1. PICK t \in Tokens : Generate(c, s, t, "login", f)
    BY <1>3 DEF Login
  <2>2. MayLogin(calls[c].row) /\ calls[c].at = "login"
    BY <1>3 DEF Login
  <2>3. s \in LoginSteps /\ s \in Steps
    BY DEF LoginSteps, Steps
  <2>4. Made(c, s, t, "login", f)
    BY <2>1, <2>2, <2>3, <1>3 DEF Login, Made, histVars
  <2>5. calls[c].user \in Users /\ calls[c].row \in Security
    BY <2>2, <1>t DEF CallsOK, CallOK, UserSteps, TypeOK
  <2>6. f \in Factors
    BY <2>5, FactorFacts
  <2> QED BY <2>3, <2>4, <2>6 DEF Makes, Kinds
<1>4. ASSUME NEW c \in Calls, RequestTfa(c)
      PROVE  (End(c) /\ UNCHANGED made) \/ Makes(c)
  <2> SUFFICES ASSUME ~(End(c) /\ UNCHANGED made) PROVE Makes(c)
    OBVIOUS
  <2> DEFINE u == calls[c].user
             f(t, type) == [user |-> u, type |-> type,
                            secret |-> IF type = "GOOGLE" THEN t ELSE NoToken]
  <2>1. PICK t \in Tokens, type \in Types :
           Generate(c, "cacheTfa", t, "tfa", f(t, type))
    BY <1>4 DEF RequestTfa
  <2>2. MayRequestTfa(security[u]) /\ u \in Users
    BY <1>4, <1>t DEF RequestTfa, CallsOK, CallOK, UserSteps
  <2>3. f(t, type) \in Factors /\ f(t, type).user = u
    BY <2>2 DEF Factors
  <2>4. security[f(t, type).user].verified
    BY <2>2, <2>3 DEF MayRequestTfa
  <2> HIDE DEF f
  <2>5. Made(c, "cacheTfa", t, "tfa", f(t, type))
    BY <2>1, <2>4, <1>4 DEF RequestTfa, Made, histVars
  <2> QED BY <2>5, <2>3 DEF Makes, Steps, Kinds
<1>5. ASSUME \A c \in Calls : /\ ~Login(c) /\ ~RequestTfa(c)
                              /\ \A u \in Users : ~Register(c, u)
                                                  /\ ~ForgotPassword(c, u)
      PROVE  UNCHANGED made
  BY <1>5 DEF Next, Continue, CacheLink, MailLink, CacheJunk, DropLink,
     SetEmailVerified, MailLogin, CacheLogin, CacheTfa, MailTfa, DropTfa,
     CheckCode, SetTfa, MailReset, CacheReset, SaveRequest, ApproveRequest,
     DenyRequest, CreateNewRequest, ValidateUser, ClickLink, ConfirmTfaRequest,
     OpenRequest, ConfirmTfaCode, Expire, Remove, Restart, tokenVars
<1> QED BY <1>1, <1>2, <1>3, <1>4, <1>5

\* An entry that was made stays as it is, and so does what a call holds.
LEMMA MadeStays ==
    ASSUME BaseInv, Next
    PROVE  /\ \A t \in Tokens : made[t].kind \in Kinds => made'[t] = made[t]
           /\ \A call \in CallType : CallOK(call) => CallOK(call)'
<1>1. ASSUME NEW t \in Tokens, made[t].kind \in Kinds
      PROVE  made'[t] = made[t]
  <2>1. CASE made' = made
    BY <2>1
  <2>2. CASE made' # made
    <3>1. PICK c \in Calls, s \in Steps, x \in Tokens, k \in Kinds,
               f \in Factors : Made(c, s, x, k, f)
      BY <2>2, MadeStep DEF Makes
    <3>2. made[x] = NoEntry /\ \A y \in Tokens : y # x => made'[y] = made[y]
      BY <3>1, HelperEffects DEF Made, BaseInv
    <3>3. NoEntry.kind \notin Kinds
      BY EntryFacts DEF Kinds
    <3> QED BY <3>2, <3>3, <1>1
  <2> QED BY <2>1, <2>2
<1>2. ASSUME NEW call \in CallType, CallOK(call)
      PROVE  CallOK(call)'
  <2>1. \A k \in Kinds : Holds(call, k) =>
           Holds(call, k)' /\ made'[call.token] = made[call.token]
    BY <1>1 DEF Holds
  <2>2. /\ Holds(call, "link") => Holds(call, "link")'
        /\ Holds(call, "login") => Holds(call, "login")'
        /\ Holds(call, "tfa") => Holds(call, "tfa")'
        /\ Holds(call, "reset") => Holds(call, "reset")'
        /\ Holds(call, "link") \/ Holds(call, "tfa") =>
              made'[call.token] = made[call.token]
    BY <2>1 DEF Kinds
  <2> QED BY <2>2, <1>2 DEF CallOK, LinkSteps, TfaSteps, ConfirmSteps
<1> QED BY <1>1, <1>2

\* The steps a call goes on to, holding what it held.
Moves == {<<"cacheLink", "mailLink">>, <<"dropLink", "setVerified">>,
          <<"mailLogin", "cacheLogin">>, <<"cacheTfa", "mailTfa">>,
          <<"dropTfa", "checkCode">>, <<"checkCode", "setTfa">>,
          <<"mailReset", "cacheReset">>}

\* A handler begins.
Begins(c) ==
    \/ \E u \in Users : \/ CreateNewRequest(c, u)
                        \/ \E s \in {"login", "findUser"} :
                              ValidateUser(c, u, s)
    \/ \E t \in Tokens : ClickLink(c, t) \/ ConfirmTfaRequest(c, t)
    \/ \E r \in Requests, d \in {"approve", "deny"} : OpenRequest(c, r, d)

\* What a handler begins with.
LEMMA BeginSteps ==
    ASSUME TypeOK, NEW c \in Calls, Begins(c)
    PROVE  \/ \E t \in Tokens :
                 /\ calls'[c].token = t /\ calls'[c].entry = cache[t]
                 /\ \/ /\ calls'[c].at = "cacheJunk" /\ made[t].kind = "link"
                       /\ cache[t] = NoEntry /\ t \in delivered
                    \/ /\ calls'[c].at = "dropLink" /\ made[t].kind = "link"
                       /\ cache[t] # NoEntry /\ t \in delivered
                    \/ /\ calls'[c].at = "dropTfa" /\ made[t].kind = "tfa"
                       /\ cache[t] # NoEntry
           \/ /\ calls'[c].at \in UserSteps /\ calls'[c].user \in Users
              /\ calls'[c].at = "deny" => calls'[c].req \in Requests
              /\ calls'[c].at = "login" =>
                    calls'[c].row = security[calls'[c].user]
<1>1. ASSUME NEW t \in Tokens, ClickLink(c, t)
      PROVE  /\ calls'[c].token = t /\ calls'[c].entry = cache[t]
             /\ made[t].kind = "link" /\ t \in delivered
             /\ \/ calls'[c].at = "cacheJunk" /\ cache[t] = NoEntry
                \/ calls'[c].at = "dropLink" /\ cache[t] # NoEntry
  <2> DEFINE s == IF cache[t] = NoEntry THEN "cacheJunk" ELSE "dropLink"
             call == [Idle EXCEPT !.at = s, !.token = t, !.entry = cache[t]]
  <2>1. s \in Steps /\ cache[t] \in Entries
    BY DEF Steps, TypeOK
  <2>2. call.at = s /\ call.token = t /\ call.entry = cache[t]
    BY <2>1, StartFields
  <2>3. calls'[c] = call
    BY <1>1, HelperEffects DEF ClickLink
  <2> HIDE DEF call
  <2> QED BY <1>1, <2>2, <2>3 DEF ClickLink
<1>5. ASSUME NEW t \in Tokens, ConfirmTfaRequest(c, t)
      PROVE  /\ calls'[c].token = t /\ calls'[c].entry = cache[t]
             /\ made[t].kind = "tfa" /\ cache[t] # NoEntry
             /\ calls'[c].at = "dropTfa"
  <2> DEFINE call == [Idle EXCEPT !.at = "dropTfa", !.token = t,
                                  !.entry = cache[t]]
  <2>1. "dropTfa" \in Steps /\ cache[t] \in Entries
    BY DEF Steps, TypeOK
  <2>2. call.at = "dropTfa" /\ call.token = t /\ call.entry = cache[t]
    BY <2>1, StartFields
  <2>3. calls'[c] = call
    BY <1>5, HelperEffects DEF ConfirmTfaRequest
  <2> HIDE DEF call
  <2> QED BY <1>5, <2>2, <2>3 DEF ConfirmTfaRequest
<1>2. ASSUME NEW u \in Users, CreateNewRequest(c, u)
      PROVE  calls'[c].at = "saveRequest" /\ calls'[c].user = u
  <2>1. calls'[c] = [Idle EXCEPT !.at = "saveRequest", !.user = u]
    BY <1>2, HelperEffects DEF CreateNewRequest
  <2>2. "saveRequest" \in Steps
    BY DEF Steps
  <2> QED BY <2>1, <2>2, StartFields
<1>3. ASSUME NEW u \in Users, NEW s \in {"login", "findUser"},
             ValidateUser(c, u, s)
      PROVE  calls'[c].at = s /\ calls'[c].user = u
             /\ calls'[c].row = security[u]
  <2>1. s \in Steps /\ security[u] \in Security
    BY DEF Steps, TypeOK
  <2>2. calls'[c] = [Idle EXCEPT !.at = s, !.user = u, !.row = security[u]]
    BY <1>3, HelperEffects DEF ValidateUser
  <2> QED BY <2>1, <2>2, StartFields
<1>4. ASSUME NEW r \in Requests, NEW d \in {"approve", "deny"},
             OpenRequest(c, r, d)
      PROVE  calls'[c].at = d /\ calls'[c].user \in Users /\ calls'[c].req = r
  <2>1. d \in Steps /\ request[r].user \in Users
    BY <1>4 DEF Steps, TypeOK, OpenRequest
  <2>2. calls'[c] = [Idle EXCEPT !.at = d, !.user = request[r].user, !.req = r]
    BY <1>4, HelperEffects DEF OpenRequest
  <2> QED BY <2>1, <2>2, StartFields
<1> QED BY <1>1, <1>2, <1>3, <1>4, <1>5 DEF Begins, UserSteps

\* A call is changed by its own steps only.
LEMMA OthersStay ==
    ASSUME BaseInv, NEW c \in Calls, NEW d \in Calls, d # c,
           \/ Continue(d) \/ Begins(d)
           \/ \E u \in Users : Register(d, u) \/ ForgotPassword(d, u)
    PROVE  calls'[c] = calls[c]
<1>t. TypeOK /\ calls \in [Calls -> CallType]
  BY DEF BaseInv, TypeOK, CallType
<1>1. CASE Continue(d)
  BY <1>1, <1>t DEF Continue, CacheLink, MailLink, CacheJunk, DropLink,
     SetEmailVerified, Login, MailLogin, CacheLogin, RequestTfa, CacheTfa,
     MailTfa, DropTfa, CheckCode, SetTfa, MailReset, CacheReset, SaveRequest,
     ApproveRequest, DenyRequest, Become, End, Generate
<1>2. CASE Begins(d)
  BY <1>2, <1>t DEF Begins, CreateNewRequest, ValidateUser, ClickLink,
     ConfirmTfaRequest, OpenRequest, Start
<1>3. ASSUME NEW u \in Users,
             Register(d, u) \/ ForgotPassword(d, u)
      PROVE  calls'[c] = calls[c]
  BY <1>3, <1>t DEF Register, ForgotPassword, Generate
<1> QED BY <1>1, <1>2, <1>3

\* What a step can do to a call.
LEMMA CallShapes ==
    ASSUME BaseInv, Next, NEW c \in Calls
    PROVE  \/ calls'[c] = calls[c]
           \/ calls'[c] = Idle
           \/ Makes(c)
           \/ Begins(c)
           \/ Continue(c) /\ \E s \in Steps :
                 /\ Become(c, s) /\ <<calls[c].at, s>> \in Moves
                 /\ s = "setVerified" => calls[c].entry.kind = "link"
<1>t. TypeOK /\ calls \in [Calls -> CallType]
  BY DEF BaseInv, TypeOK, CallType
<1>4. CASE Continue(c)
  <2>1. CASE Login(c) \/ RequestTfa(c)
    BY <2>1, <1>t, MadeStep, HelperEffects
  <2>2. CASE ~(Login(c) \/ RequestTfa(c))
    <3>1. \/ End(c)
          \/ \E s \in Steps : /\ Become(c, s) /\ <<calls[c].at, s>> \in Moves
                              /\ s = "setVerified" =>
                                    calls[c].entry.kind = "link"
      BY <1>4, <2>2
         DEF Continue, CacheLink, MailLink, CacheJunk, DropLink,
             SetEmailVerified, MailLogin, CacheLogin, CacheTfa, MailTfa,
             DropTfa, CheckCode, SetTfa, MailReset, CacheReset, SaveRequest,
             ApproveRequest, DenyRequest, Steps, Moves
    <3> QED BY <1>4, <3>1, <1>t, HelperEffects
  <2> QED BY <2>1, <2>2
<1>5. ASSUME NEW u \in Users, Register(c, u) \/ ForgotPassword(c, u)
      PROVE  Makes(c)
  BY <1>5, MadeStep
<1>6. ASSUME \/ \E t \in Tokens : ConfirmTfaCode(t) \/ Expire(t)
             \/ \E u \in Users : Remove(u)
             \/ Restart
      PROVE  calls'[c] = calls[c] \/ calls'[c] = Idle
  BY <1>6 DEF ConfirmTfaCode, Expire, Remove, Restart
<1>7. \/ \E d \in Calls : Continue(d) \/ Begins(d)
      \/ \E d \in Calls, u \in Users : Register(d, u) \/ ForgotPassword(d, u)
      \/ \E t \in Tokens : ConfirmTfaCode(t) \/ Expire(t)
      \/ \E u \in Users : Remove(u)
      \/ Restart
  BY DEF Next, Begins
<1> QED BY <1>4, <1>5, <1>6, <1>7, OthersStay

\* A call holds, after any step, what its next step needs.
LEMMA CallsStep ==
    ASSUME BaseInv, Next
    PROVE  CallsOK'
<1> SUFFICES ASSUME NEW c \in Calls
             PROVE  CallOK(calls[c])'
  BY DEF CallsOK
<1>t. /\ TypeOK /\ EntriesOK /\ CallOK(calls[c]) /\ calls[c] \in CallType
  BY DEF BaseInv, CallsOK, TypeOK, CallType
<1>0. CallOK(calls[c])' \/ calls'[c] # calls[c]
  <2> SUFFICES ASSUME calls'[c] = calls[c]
               PROVE  CallOK(calls[c])'
    OBVIOUS
  <2>1. \A call \in CallType : CallOK(call) => CallOK(call)'
    BY MadeStays
  <2> QED BY <2>1, <1>t DEF CallOK, Holds
<1>m. \A t \in Tokens : made[t].kind \in Kinds => made'[t] = made[t]
  BY MadeStays
<1>1. CASE calls'[c] = Idle
  BY <1>1, IdleFacts DEF CallOK, LinkSteps, LoginSteps, TfaSteps, ConfirmSteps,
                         ResetSteps, UserSteps
<1>2. CASE Makes(c)
  <2>1. PICK s \in Steps, t \in Tokens, k \in Kinds, f \in Factors :
           Made(c, s, t, k, f)
    BY <1>2 DEF Makes
  <2>2. calls'[c].at = s /\ calls'[c].token = t /\ made'[t].kind = k
    BY <2>1, <1>t, HelperEffects, EntryFacts DEF Made
  <2> QED BY <2>1, <2>2 DEF Made, CallOK, Holds, LinkSteps, LoginSteps,
             TfaSteps, ConfirmSteps, ResetSteps, UserSteps
<1>3. ASSUME NEW s \in Steps, Become(c, s), <<calls[c].at, s>> \in Moves,
             s = "setVerified" => calls[c].entry.kind = "link"
      PROVE  CallOK(calls[c])'
  <2>1. /\ calls'[c].at = s /\ calls'[c].token = calls[c].token
        /\ calls'[c].entry = calls[c].entry
    BY <1>3, <1>t, HelperEffects
  <2>2. calls[c].token \in Tokens /\ made[calls[c].token].kind \in Kinds
    BY <1>3, <1>t DEF Moves, CallOK, Holds, LinkSteps, LoginSteps, TfaSteps,
                      ConfirmSteps, ResetSteps, Kinds
  <2>3. made'[calls[c].token] = made[calls[c].token]
    BY <2>2, <1>m
  <2> QED BY <2>1, <2>3, <1>3, <1>t, EntryFacts
          DEF Moves, CallOK, Holds, LinkSteps, LoginSteps, TfaSteps,
              ConfirmSteps, ResetSteps, UserSteps
<1>4. CASE Begins(c)
  BY <1>4, <1>t, <1>m, BeginSteps, EntryFacts
     DEF EntriesOK, EntryOK, Kinds, CallOK, Holds, LinkSteps, LoginSteps,
         TfaSteps, ConfirmSteps, ResetSteps, UserSteps
<1> QED BY <1>0, <1>1, <1>2, <1>3, <1>4, CallShapes

\* What a step does to the entry of a token in the cache.
LEMMA CacheStep ==
    ASSUME BaseInv, Next, NEW t \in Tokens
    PROVE  \/ cache'[t] = cache[t]
           \/ cache'[t] = made[t] /\ UNCHANGED made
           \/ \E c \in Calls : /\ calls[c].token = t
                               /\ \/ CacheJunk(c) /\ cache'[t] = Junk
                                  \/ DropLink(c) /\ cache'[t] = NoEntry
                                  \/ DropTfa(c) /\ cache'[t] = NoEntry
           \/ Expire(t) /\ cache'[t] = NoEntry
<1> SUFFICES ASSUME cache'[t] # cache[t]
             PROVE  \/ cache'[t] = made[t] /\ UNCHANGED made
                    \/ \E c \in Calls : /\ calls[c].token = t
                                        /\ \/ CacheJunk(c) /\ cache'[t] = Junk
                                           \/ DropLink(c) /\ cache'[t] = NoEntry
                                           \/ DropTfa(c) /\ cache'[t] = NoEntry
                    \/ Expire(t) /\ cache'[t] = NoEntry
  OBVIOUS
<1>t. TypeOK
  BY DEF BaseInv
<1>1. ASSUME NEW c \in Calls,
             \/ CacheLink(c) \/ CacheLogin(c) \/ CacheTfa(c) \/ CacheReset(c)
      PROVE  cache'[t] = made[t] /\ UNCHANGED made
  BY <1>1, <1>t DEF CacheLink, CacheLogin, CacheTfa, CacheReset, Put,
     tokenVars, TypeOK
<1>2. ASSUME NEW c \in Calls, CacheJunk(c)
      PROVE  cache'[t] = Junk /\ calls[c].token = t
  BY <1>2, <1>t DEF CacheJunk, TypeOK
<1>3. ASSUME NEW c \in Calls, DropLink(c) \/ DropTfa(c)
      PROVE  cache'[t] = NoEntry /\ calls[c].token = t
  BY <1>3, <1>t DEF DropLink, DropTfa, TypeOK
<1>4. ASSUME NEW x \in Tokens, Expire(x)
      PROVE  cache'[t] = NoEntry /\ x = t
  BY <1>4, <1>t DEF Expire, TypeOK
<1>5. \/ \E c \in Calls : \/ CacheLink(c) \/ CacheLogin(c) \/ CacheTfa(c)
                          \/ CacheReset(c) \/ CacheJunk(c)
                          \/ DropLink(c) \/ DropTfa(c)
      \/ \E x \in Tokens : Expire(x)
  BY DEF Next, Continue, MailLink, SetEmailVerified, Login, MailLogin,
     RequestTfa, MailTfa, CheckCode, SetTfa, MailReset, SaveRequest,
     ApproveRequest, DenyRequest, Register, ForgotPassword, CreateNewRequest,
     ValidateUser, ClickLink, ConfirmTfaRequest, OpenRequest, ConfirmTfaCode,
     Remove, Restart
<1> QED BY <1>1, <1>2, <1>3, <1>4, <1>5

\* A step writes to the cache what was made for the token, or drops it.
LEMMA EntriesStep ==
    ASSUME BaseInv, Next
    PROVE  EntriesOK'
<1> SUFFICES ASSUME NEW t \in Tokens
             PROVE  EntryOK(t)'
  BY DEF EntriesOK
<1>t. TypeOK /\ EntryOK(t) /\ CallsOK
  BY DEF BaseInv, EntriesOK
<1>1. cache[t] = NoEntry \/ made'[t] = made[t]
  <2>1. CASE made[t].kind \in Kinds
    BY <2>1, MadeStays
  <2>2. CASE made[t].kind \notin Kinds
    <3>1. cache[t] = NoEntry \/ cache[t] = made[t]
      BY <2>2, <1>t DEF EntryOK, Kinds
    <3>2. CASE made' = made
      BY <3>2
    <3>3. CASE made' # made
      <4>1. PICK c \in Calls, s \in Steps, x \in Tokens, k \in Kinds,
                 f \in Factors : Made(c, s, x, k, f)
        BY <3>3, MadeStep DEF Makes
      <4>2. made[x] = NoEntry /\ \A y \in Tokens : y # x => made'[y] = made[y]
        BY <4>1, <1>t, HelperEffects DEF Made
      <4> QED BY <4>2, <3>1
    <3> QED BY <3>2, <3>3
  <2> QED BY <2>1, <2>2
<1>2. CASE cache'[t] = cache[t]
  BY <1>1, <1>2, <1>t DEF EntryOK
<1>3. CASE cache'[t] # cache[t]
  <2>1. \A c \in Calls : CacheJunk(c) =>
           made[calls[c].token].kind = "link" /\ UNCHANGED made
    BY <1>t DEF CacheJunk, CallsOK, CallOK, Holds, LinkSteps, tokenVars
  <2> QED BY <2>1, <1>3, CacheStep DEF EntryOK
<1> QED BY <1>2, <1>3

\* The base of both invariants holds at first.
LEMMA BaseInit == Init => BaseInv
<1> SUFFICES ASSUME Init PROVE BaseInv
  OBVIOUS
<1>1. TypeOK
  <2>1. calls \in [Calls -> CallType]
    BY CallTypes DEF Init
  <2>2. /\ security \in [Users -> Security]
        /\ cache \in [Tokens -> Entries] /\ made \in [Tokens -> Entries]
    BY EntryFacts, FactorFacts DEF Init
  <2>3. request \in [Requests -> [user: Users \cup {NoUser}, status: {0, 2}]]
    BY DEF Init, Unsaved
  <2> QED BY <2>1, <2>2, <2>3, FaultAssumption DEF Init, TypeOK, CallType
<1>2. CallsOK
  BY IdleFacts DEF Init, CallsOK
<1> QED BY <1>1, <1>2 DEF Init, BaseInv, EntriesOK, EntryOK

\* Every step keeps the base.
LEMMA BaseStep == BaseInv /\ [Next]_vars => BaseInv'
<1>1. BaseInv /\ Next => BaseInv'
  BY TypeStep, CallsStep, EntriesStep DEF BaseInv
<1>2. BaseInv /\ UNCHANGED vars => BaseInv'
  BY DEF BaseInv, TypeOK, CallsOK, CallOK, Holds, EntriesOK, EntryOK, vars,
         tokenVars, histVars
<1> QED BY <1>1, <1>2

-----------------------------------------------------------------------------
(* Factors.                                                                *)

\* What a step writes to security rows and to the two histories.
LEMMA RowStep ==
    ASSUME BaseInv, Next
    PROVE  /\ \A u \in Users : security[u].verified => security'[u].verified
           /\ \A u \in Users : security'[u].tfa =>
                 \/ /\ security[u].tfa
                    /\ Factor(u, security'[u]) = Factor(u, security[u])
                 \/ \E c \in Calls :
                       /\ calls[c].at = "setTfa"
                       /\ calls[c].entry.factor.user = u
                       /\ Factor(u, security'[u]) = calls[c].entry.factor
           /\ proved \subseteq proved'
           /\ \A f \in sessions' :
                 \/ f \in sessions
                 \/ \E t \in Tokens : Accepts(t) /\ f = cache[t].factor
                 \/ \E c \in Calls : /\ calls[c].at = "setTfa"
                                     /\ f = calls[c].entry.factor
<1>t. TypeOK /\ CallsOK
  BY DEF BaseInv
<1>1. ASSUME NEW c \in Calls, SetTfa(c), NEW u \in Users
      PROVE  /\ security[u].verified => security'[u].verified
             /\ security'[u] = security[u]
                \/ /\ calls[c].entry.factor.user = u
                   /\ Factor(u, security'[u]) = calls[c].entry.factor
  <2> DEFINE f == calls[c].entry.factor
  <2>1. f \in Factors
    <3>1. calls[c].entry = made[calls[c].token] /\ Holds(calls[c], "tfa")
      BY <1>1, <1>t DEF SetTfa, CallsOK, CallOK, TfaSteps, ConfirmSteps
    <3> QED BY <3>1, <1>t, EntryFacts DEF Holds, TypeOK, Kinds
  <2>2. CASE f.user # u
    BY <2>2, <1>1, <1>t DEF SetTfa, TypeOK
  <2>3. CASE f.user = u
    <3>1. security'[u] = [security[u] EXCEPT !.tfa = TRUE, !.type = f.type,
                                             !.secret = f.secret]
      BY <2>3, <1>1, <1>t DEF SetTfa, TypeOK
    <3>2. /\ security'[u].verified = security[u].verified
          /\ security'[u].type = f.type /\ security'[u].secret = f.secret
      BY <3>1, <1>t DEF TypeOK, Security
    <3> QED BY <3>2, <2>1, <2>3 DEF Factor, Factors
  <2> QED BY <2>2, <2>3
<1>2. ASSUME NEW c \in Calls, SetEmailVerified(c) \/ ApproveRequest(c),
             NEW u \in Users
      PROVE  /\ security[u].verified => security'[u].verified
             /\ security'[u].tfa => security[u].tfa
             /\ Factor(u, security'[u]) = Factor(u, security[u])
  <2>1. security[u] \in Security
    BY <1>t DEF TypeOK
  <2>2. \/ security'[u] = security[u]
        \/ security'[u] = [security[u] EXCEPT !.verified = TRUE]
        \/ security'[u] = [security[u] EXCEPT !.tfa = FALSE]
    BY <1>2, <1>t DEF SetEmailVerified, ApproveRequest, TypeOK
  <2> QED BY <2>1, <2>2 DEF Factor, Security
<1>3. ASSUME \A c \in Calls : /\ ~SetTfa(c) /\ ~SetEmailVerified(c)
                              /\ ~ApproveRequest(c)
      PROVE  UNCHANGED security
  BY <1>3 DEF Next, Continue, CacheLink, MailLink, CacheJunk, DropLink,
     Login, MailLogin, CacheLogin, RequestTfa, CacheTfa, MailTfa, DropTfa,
     CheckCode, MailReset, CacheReset, SaveRequest, DenyRequest, Register,
     ForgotPassword, CreateNewRequest, ValidateUser, ClickLink,
     ConfirmTfaRequest, OpenRequest, ConfirmTfaCode, Expire, Remove, Restart
<1>5. \A u \in Users : security[u].verified => security'[u].verified
  BY <1>1, <1>2, <1>3
<1>6. \A u \in Users : security'[u].tfa =>
         \/ /\ security[u].tfa
            /\ Factor(u, security'[u]) = Factor(u, security[u])
         \/ \E c \in Calls :
               /\ calls[c].at = "setTfa"
               /\ calls[c].entry.factor.user = u
               /\ Factor(u, security'[u]) = calls[c].entry.factor
  BY <1>1, <1>2, <1>3 DEF SetTfa
<1>7. proved \subseteq proved'
  BY DEF Next, Continue, CacheLink, MailLink, CacheJunk, DropLink,
     SetEmailVerified, Login, MailLogin, CacheLogin, RequestTfa, CacheTfa,
     MailTfa, DropTfa, CheckCode, SetTfa, MailReset, CacheReset, SaveRequest,
     ApproveRequest, DenyRequest, Register, ForgotPassword, CreateNewRequest,
     ValidateUser, ClickLink, ConfirmTfaRequest, OpenRequest, ConfirmTfaCode,
     Expire, Remove, Restart, histVars
<1>8. \/ sessions' = sessions
      \/ \E t \in Tokens : ConfirmTfaCode(t)
      \/ \E c \in Calls : SetTfa(c)
  BY DEF Next, Continue, CacheLink, MailLink, CacheJunk, DropLink,
     SetEmailVerified, Login, MailLogin, CacheLogin, RequestTfa, CacheTfa,
     MailTfa, DropTfa, CheckCode, MailReset, CacheReset, SaveRequest,
     ApproveRequest, DenyRequest, Register, ForgotPassword, CreateNewRequest,
     ValidateUser, ClickLink, ConfirmTfaRequest, OpenRequest,
     Expire, Remove, Restart, histVars
<1>9. \A f \in sessions' :
         \/ f \in sessions
         \/ \E t \in Tokens : Accepts(t) /\ f = cache[t].factor
         \/ \E c \in Calls : /\ calls[c].at = "setTfa"
                             /\ f = calls[c].entry.factor
  BY <1>8 DEF ConfirmTfaCode, SetTfa
<1> QED BY <1>5, <1>6, <1>7, <1>9

\* Every step keeps what is known of factors.
LEMMA FactorStep ==
    ASSUME FactorInv, Next
    PROVE  FactorInv'
<1>b. BaseInv /\ BaseInv' /\ TypeOK /\ TypeOK' /\ CallsOK /\ EntriesOK
  BY BaseStep DEF FactorInv, BaseInv
<1>i. FactorIsProved /\ SessionIsProved /\ TokensProved /\ CallsProved
  BY DEF FactorInv
<1>c. \A c \in Calls : calls[c].at = "setTfa" =>
         /\ calls[c].entry.factor \in proved
         /\ calls[c].entry.factor.user \in Users
         /\ security[calls[c].entry.factor.user].verified
  <2> SUFFICES ASSUME NEW c \in Calls, calls[c].at = "setTfa"
               PROVE  /\ calls[c].entry.factor \in proved
                      /\ calls[c].entry.factor.user \in Users
                      /\ security[calls[c].entry.factor.user].verified
    OBVIOUS
  <2>1. Holds(calls[c], "tfa") /\ calls[c].entry = made[calls[c].token]
    BY <1>b DEF CallsOK, CallOK, TfaSteps, ConfirmSteps
  <2>2. made[calls[c].token].factor \in Factors
    BY <2>1, <1>b, EntryFacts DEF Holds, TypeOK, Kinds
  <2> QED BY <2>1, <2>2, <1>i DEF CallsProved, TokensProved, Holds, Factors
<1>1. FactorIsProved'
  <2> SUFFICES ASSUME NEW u \in Users, security'[u].tfa
               PROVE  /\ security'[u].verified
                      /\ Factor(u, security'[u]) \in proved'
    BY DEF FactorIsProved, Factor
  <2>1. CASE security[u].tfa /\ Factor(u, security'[u]) = Factor(u, security[u])
    BY <2>1, <1>b, <1>i, RowStep DEF FactorIsProved
  <2>2. ASSUME NEW c \in Calls, calls[c].at = "setTfa",
               calls[c].entry.factor.user = u,
               Factor(u, security'[u]) = calls[c].entry.factor
        PROVE  security'[u].verified /\ Factor(u, security'[u]) \in proved'
    BY <2>2, <1>c, <1>b, RowStep
  <2> QED BY <2>1, <2>2, <1>b, RowStep
<1>2. SessionIsProved'
  <2>1. \A t \in Tokens : Accepts(t) => cache[t].factor \in proved
    BY <1>b, <1>i, EntryFacts DEF Accepts, EntriesOK, EntryOK, TokensProved
  <2> QED BY <2>1, <1>c, <1>b, <1>i, RowStep DEF SessionIsProved
<1>3. TokensProved'
  <2> SUFFICES ASSUME NEW t \in Tokens
               PROVE  /\ made'[t].kind = "tfa" =>
                            security'[made'[t].factor.user].verified
                      /\ made'[t].kind \in {"login", "reset"} =>
                            made'[t].factor \in proved'
    BY DEF TokensProved
  <2>1. CASE made'[t] = made[t]
    <3>1. made[t].kind = "tfa" => made[t].factor.user \in Users
      BY <1>b, EntryFacts DEF TypeOK, Kinds, Factors
    <3> QED BY <2>1, <3>1, <1>b, <1>i, RowStep DEF TokensProved
  <2>2. CASE made'[t] # made[t]
    <3>1. PICK c \in Calls, s \in Steps, x \in Tokens, k \in Kinds,
               f \in Factors : Made(c, s, x, k, f)
      BY <2>2, <1>b, MadeStep DEF Makes
    <3>2. t = x /\ made'[t] = Entry(k, f)
      BY <3>1, <2>2, <1>b, HelperEffects DEF Made
    <3>3. made'[t].kind = k /\ made'[t].factor = f
      BY <3>2, EntryFacts
    <3>4. k \in {"login", "reset"} => f \in proved
      BY <3>1, <1>i DEF Made, CallsProved, FactorIsProved
    <3> QED BY <3>1, <3>3, <3>4 DEF Made
  <2> QED BY <2>1, <2>2
<1>4. CallsProved'
  <2> SUFFICES ASSUME NEW c \in Calls
               PROVE  /\ calls'[c].at = "login" /\ MayLogin(calls'[c].row) =>
                            Factor(calls'[c].user, calls'[c].row) \in proved'
                      /\ calls'[c].at = "setTfa" =>
                            calls'[c].entry.factor \in proved'
    BY DEF CallsProved, MayLogin, Factor
  <2>1. CASE calls'[c] = calls[c]
    BY <2>1, <1>b, <1>i, RowStep DEF CallsProved
  <2>2. CASE calls'[c] = Idle
    BY <2>2, IdleFacts
  <2>3. CASE Makes(c)
    BY <2>3, <1>b, HelperEffects DEF Makes, Made, LoginSteps
  <2>4. CASE Begins(c)
    BY <2>4, <1>b, <1>i, BeginSteps, RowStep
       DEF FactorIsProved, MayLogin, UserSteps
  <2>5. ASSUME NEW s \in Steps, Continue(c), Become(c, s),
               <<calls[c].at, s>> \in Moves
        PROVE  /\ calls'[c].at # "login"
               /\ calls'[c].at = "setTfa" =>
                     calls'[c].entry.factor \in proved'
    <3>1. calls'[c].at = s /\ calls'[c].entry = calls[c].entry
      BY <2>5, <1>b, HelperEffects
    <3>2. s # "login" /\ (s = "setTfa" => calls[c].at = "checkCode")
      BY <2>5 DEF Moves
    <3>3. calls[c].at = "checkCode" => CheckCode(c)
      BY <2>5 DEF Continue, CacheLink, MailLink, CacheJunk, DropLink,
         SetEmailVerified, Login, MailLogin, CacheLogin, RequestTfa, CacheTfa,
         MailTfa, DropTfa, SetTfa, MailReset, CacheReset, SaveRequest,
         ApproveRequest, DenyRequest
    <3>4. calls'[c].at = "setTfa" => ~End(c)
      BY <1>b, HelperEffects, IdleFacts
    <3> QED BY <3>1, <3>2, <3>3, <3>4 DEF CheckCode
  <2> QED BY <2>1, <2>2, <2>3, <2>4, <2>5, <1>b, CallShapes
<1> QED BY <1>b, <1>1, <1>2, <1>3, <1>4 DEF FactorInv

-----------------------------------------------------------------------------
(* Links.                                                                  *)

\* Mails deliver what their call holds; faults are counted.
LEMMA DeliverStep ==
    ASSUME BaseInv, Next
    PROVE  /\ delivered \subseteq delivered'
           /\ \A t \in delivered' : t \in delivered
                 \/ \E c \in Calls :
                       /\ calls[c].token = t
                       /\ \/ MailLink(c) /\ calls[c].at = "mailLink"
                                         /\ UNCHANGED <<cache, made>>
                          \/ calls[c].at \in LoginSteps \cup TfaSteps
                                              \cup ResetSteps
           /\ faults' = 0 =>
                 faults = 0 /\ ~Restart /\ \A t \in Tokens : ~Expire(t)
<1>t. faults \in Nat
  BY FaultAssumption DEF BaseInv, TypeOK
<1>1. faults' = 0 => faults = 0 /\ ~Restart /\ \A t \in Tokens : ~Expire(t)
  <2>1. ASSUME \E c \in Calls : Mail(c) PROVE faults' >= faults
    BY <2>1, <1>t DEF Mail
  <2>2. ASSUME Restart \/ \E t \in Tokens : Expire(t)
        PROVE  faults' = faults + 1
    BY <2>2 DEF Restart, Expire
  <2>3. \/ faults' = faults
        \/ \E c \in Calls : Mail(c)
        \/ Restart \/ \E t \in Tokens : Expire(t)
    BY DEF Next, Continue, CacheLink, MailLink, CacheJunk, DropLink,
     SetEmailVerified, Login, MailLogin, CacheLogin, RequestTfa, CacheTfa,
     MailTfa, DropTfa, CheckCode, SetTfa, MailReset, CacheReset, SaveRequest,
     ApproveRequest, DenyRequest, Register, ForgotPassword, CreateNewRequest,
     ValidateUser, ClickLink, ConfirmTfaRequest, OpenRequest, ConfirmTfaCode,
     Remove
  <2>4. faults' \in Nat
    BY TypeStep, FaultAssumption DEF TypeOK
  <2> QED BY <2>1, <2>2, <2>3, <2>4, <1>t
<1>2. ASSUME NEW c \in Calls, \/ MailLink(c) \/ MailLogin(c) \/ CacheLogin(c)
                              \/ CacheTfa(c) \/ MailTfa(c) \/ MailReset(c)
      PROVE  /\ delivered \subseteq delivered'
             /\ delivered' \subseteq delivered \cup {calls[c].token}
             /\ \/ MailLink(c) /\ calls[c].at = "mailLink"
                               /\ UNCHANGED <<cache, made>>
                \/ calls[c].at \in LoginSteps \cup TfaSteps \cup ResetSteps
  BY <1>2 DEF MailLink, MailLogin, CacheLogin, CacheTfa, MailTfa, MailReset,
              Mail, LoginSteps, TfaSteps, ResetSteps
<1>3. ASSUME \A c \in Calls : /\ ~MailLink(c) /\ ~MailLogin(c) /\ ~CacheLogin(c)
                              /\ ~CacheTfa(c) /\ ~MailTfa(c) /\ ~MailReset(c)
      PROVE  UNCHANGED delivered
  BY <1>3 DEF Next, Continue, CacheLink, CacheJunk, DropLink,
     SetEmailVerified, Login, RequestTfa, DropTfa, CheckCode, SetTfa,
     CacheReset, SaveRequest, ApproveRequest, DenyRequest, Register,
     ForgotPassword, CreateNewRequest, ValidateUser, ClickLink,
     ConfirmTfaRequest, OpenRequest, ConfirmTfaCode, Expire, Remove, Restart,
     tokenVars
<1> QED BY <1>1, <1>2, <1>3

\* A link that was used stays used, unless the process restarts.
LEMMA UsedStays ==
    ASSUME BaseInv, Next, ~Restart, NEW t \in Tokens, made[t].kind = "link",
           Used(t)
    PROVE  Used(t)'
<1>t. TypeOK /\ CallsOK
  BY DEF BaseInv
<1>u. made[t].factor.user \in Users /\ made'[t] = made[t]
  BY <1>t, EntryFacts, MadeStays DEF TypeOK, Kinds, Factors
<1>1. CASE security[made[t].factor.user].verified
  BY <1>1, <1>u, RowStep DEF Used
<1>2. ASSUME NEW c \in Calls, calls[c].token = t, calls[c].at = "setVerified"
      PROVE  Used(t)'
  <2>1. CASE SetEmailVerified(c)
    <3>1. calls[c].entry = made[t]
      BY <1>2, <1>t DEF CallsOK, CallOK
    <3>2. security'[made[t].factor.user].verified = TRUE
      <4>1. security[made[t].factor.user] \in Security
        BY <1>t, <1>u DEF TypeOK
      <4>2. security'[made[t].factor.user] =
               [security[made[t].factor.user] EXCEPT !.verified = TRUE]
        BY <2>1, <3>1, <1>t, <1>u DEF SetEmailVerified, TypeOK
      <4> QED BY <4>1, <4>2 DEF Security
    <3> QED BY <3>2, <1>u DEF Used
  <2>2. CASE ~SetEmailVerified(c)
    <3>1. ~Continue(c) /\ ~Begins(c)
      BY <1>2, <2>2, IdleFacts
         DEF Continue, CacheLink, MailLink, CacheJunk, DropLink, Login,
             MailLogin, CacheLogin, RequestTfa, CacheTfa, MailTfa, DropTfa,
             CheckCode, SetTfa, MailReset, CacheReset, SaveRequest,
             ApproveRequest, DenyRequest, Begins, CreateNewRequest,
             ValidateUser, ClickLink, ConfirmTfaRequest, OpenRequest, Start
    <3>2. \A u \in Users : ~Register(c, u) /\ ~ForgotPassword(c, u)
      BY <1>2, IdleFacts DEF Register, ForgotPassword
    <3>3. calls'[c] = calls[c]
      <4>1. CASE \E d \in Calls : d # c /\ (Continue(d) \/ Begins(d)
                    \/ \E u \in Users : Register(d, u) \/ ForgotPassword(d, u))
        BY <4>1, OthersStay
      <4>2. CASE \/ \E x \in Tokens : ConfirmTfaCode(x) \/ Expire(x)
                 \/ \E u \in Users : Remove(u)
        BY <4>2 DEF ConfirmTfaCode, Expire, Remove
      <4> QED BY <3>1, <3>2, <4>1, <4>2 DEF Next, Begins
    <3> QED BY <1>2, <3>3 DEF Used
  <2> QED BY <2>1, <2>2
<1> QED BY <1>1, <1>2 DEF Used

\* Every step keeps what is known of links.
LEMMA LinkStep ==
    ASSUME LinkInv, Next
    PROVE  LinkInv'
<1>b. BaseInv /\ BaseInv' /\ TypeOK /\ TypeOK' /\ CallsOK /\ EntriesOK
  BY BaseStep DEF LinkInv, BaseInv
<1>i. LinkStaysGood /\ ClicksOK /\ DeliveredMade
  BY DEF LinkInv
<1>h. \A c \in Calls :
         /\ calls[c].at \in LinkSteps => Holds(calls[c], "link")
         /\ calls[c].at \in LoginSteps => Holds(calls[c], "login")
         /\ calls[c].at \in TfaSteps => Holds(calls[c], "tfa")
         /\ calls[c].at \in ResetSteps => Holds(calls[c], "reset")
  BY <1>b DEF CallsOK, CallOK
<1>m. \A t \in Tokens : made[t].kind \in Kinds => made'[t] = made[t]
  BY <1>b, MadeStays
<1>g. \A t \in Tokens :
         /\ made[t].kind = "link" /\ t \in delivered /\ faults = 0
         /\ cache[t] # made[t]
         => Used(t)
  BY <1>i DEF LinkStaysGood, Used
<1>1. DeliveredMade'
  <2> SUFFICES ASSUME NEW t \in delivered'
               PROVE  made'[t].kind \in Kinds
    BY DEF DeliveredMade
  <2>1. t \in Tokens /\ made[t].kind \in Kinds
    BY <1>b, <1>i, <1>h, DeliverStep
       DEF DeliveredMade, TypeOK, Holds, LinkSteps, Kinds
  <2> QED BY <2>1, <1>m
<1>2. LinkStaysGood'
  <2> SUFFICES ASSUME NEW t \in Tokens, made'[t].kind = "link",
                      t \in delivered', faults' = 0
               PROVE  Used(t)' \/ cache'[t] = made'[t]
    BY DEF LinkStaysGood, Used
  <2>f. faults = 0 /\ ~Restart /\ ~Expire(t)
    BY <1>b, DeliverStep
  <2>1. CASE t \in delivered
    <3>1. made[t].kind = "link" /\ made'[t] = made[t]
      BY <2>1, <1>i, <1>m DEF DeliveredMade
    <3>2. Used(t) => Used(t)'
      BY <3>1, <2>f, <1>b, UsedStays
    <3>3. ASSUME NEW c \in Calls, calls[c].token = t,
                 CacheJunk(c) \/ DropLink(c)
          PROVE  Used(t)'
      <4>1. CASE Useless(calls[c])
        BY <4>1, <3>2, <3>3, <2>f, <1>i DEF ClicksOK
      <4>2. CASE ~Useless(calls[c])
        <5>1. Become(c, "setVerified")
          BY <3>3, <4>2 DEF CacheJunk, DropLink, Useless
        <5>2. calls'[c].at = "setVerified" /\ calls'[c].token = t
          BY <5>1, <3>3, <1>b, HelperEffects DEF Steps
        <5> QED BY <5>2 DEF Used
      <4> QED BY <4>1, <4>2
    <3>4. \A c \in Calls : calls[c].token = t => ~DropTfa(c)
      BY <3>1, <1>h DEF DropTfa, TfaSteps, ConfirmSteps, Holds
    <3> QED BY <3>1, <3>2, <3>3, <3>4, <2>1, <2>f, <1>g, <1>b, CacheStep
  <2>2. CASE t \notin delivered
    <3>1. PICK c \in Calls : calls[c].token = t /\
             (\/ MailLink(c) /\ calls[c].at = "mailLink"
                             /\ UNCHANGED <<cache, made>>
              \/ calls[c].at \in LoginSteps \cup TfaSteps \cup ResetSteps)
      BY <2>2, <1>b, DeliverStep
    <3>2. calls[c].at = "mailLink" /\ UNCHANGED <<cache, made>>
      BY <3>1, <1>h, <1>m DEF Holds, Kinds
    <3> QED BY <3>1, <3>2, <2>2, <2>f, <1>i DEF ClicksOK
  <2> QED BY <2>1, <2>2
<1>3. ClicksOK'
  <2> SUFFICES ASSUME NEW c \in Calls
               PROVE  /\ calls'[c].at \in {"cacheJunk", "dropLink",
                                           "setVerified"}
                            => calls'[c].token \in delivered'
                      /\ faults' = 0 /\ Useless(calls'[c])
                            => \A t : t = calls'[c].token => Used(t)'
                      /\ faults' = 0 /\ calls'[c].at = "mailLink"
                         /\ calls'[c].token \notin delivered' =>
                            cache'[calls'[c].token] = made'[calls'[c].token]
    BY DEF ClicksOK, Useless, Used
  <2>f. /\ delivered \subseteq delivered'
        /\ faults' = 0 => faults = 0 /\ ~Restart
                          /\ \A t \in Tokens : ~Expire(t)
    BY <1>b, DeliverStep
  <2>u. \A t \in Tokens : faults' = 0 /\ made[t].kind = "link" /\ Used(t)
           => Used(t)'
    BY <2>f, <1>b, UsedStays
  <2>1. CASE calls'[c] = calls[c]
    <3> DEFINE t == calls[c].token
    <3>1. Useless(calls[c]) \/ calls[c].at = "mailLink" =>
             t \in Tokens /\ made[t].kind = "link"
      BY <1>h DEF Useless, LinkSteps, Holds
    <3>2. faults' = 0 /\ Useless(calls'[c]) => Used(t)'
      BY <2>1, <3>1, <2>u, <2>f, <1>i DEF ClicksOK
    <3>3. ASSUME faults' = 0, calls[c].at = "mailLink", t \notin delivered'
          PROVE  cache'[t] = made'[t]
      <4>1. cache[t] = made[t] /\ made'[t] = made[t] /\ t \in Tokens
        BY <3>1, <3>3, <2>f, <1>i, <1>m DEF ClicksOK, Kinds
      <4>2. \A d \in Calls : calls[d].token = t =>
               ~CacheJunk(d) /\ ~DropLink(d) /\ ~DropTfa(d)
        BY <3>1, <3>3, <2>f, <1>i, <1>h DEF ClicksOK, CacheJunk, DropLink,
           DropTfa, TfaSteps, ConfirmSteps, Holds
      <4> QED BY <3>3, <4>1, <4>2, <2>f, <1>b, CacheStep
    <3> QED BY <2>1, <3>2, <3>3, <2>f, <1>i DEF ClicksOK
  <2>2. CASE calls'[c] = Idle
    BY <2>2, IdleFacts DEF Useless
  <2>3. CASE Makes(c)
    BY <2>3, <1>b, HelperEffects DEF Makes, Made, LoginSteps, Useless
  <2>4. CASE Begins(c)
    <3>1. ASSUME NEW t \in Tokens, calls'[c].token = t,
                 calls'[c].entry = cache[t], made[t].kind = "link",
                 t \in delivered,
                 \/ calls'[c].at = "cacheJunk" /\ cache[t] = NoEntry
                 \/ calls'[c].at = "dropLink" /\ cache[t] # NoEntry
          PROVE  faults' = 0 /\ Useless(calls'[c]) => Used(t)'
      <4>1. Useless(calls'[c]) => cache[t] # made[t]
        BY <3>1, EntryFacts DEF Useless
      <4> QED BY <3>1, <4>1, <1>g, <2>f, <2>u
    <3> QED BY <3>1, <2>4, <2>f, <1>b, BeginSteps DEF UserSteps, Useless
  <2>5. ASSUME NEW s \in Steps, Continue(c), Become(c, s),
               <<calls[c].at, s>> \in Moves
        PROVE  /\ calls'[c].at \in {"cacheJunk", "dropLink", "setVerified"}
                     => calls'[c].token \in delivered'
               /\ ~Useless(calls'[c])
               /\ calls'[c].at = "mailLink" =>
                     cache'[calls'[c].token] = made'[calls'[c].token]
    <3>1. calls'[c].at = s /\ calls'[c].token = calls[c].token
      BY <2>5, <1>b, HelperEffects
    <3>2. s \notin {"cacheJunk", "dropLink"}
          /\ (s = "setVerified" => calls[c].at = "dropLink")
          /\ (s = "mailLink" => calls[c].at = "cacheLink")
      BY <2>5 DEF Moves
    <3>3. calls[c].at = "cacheLink" => CacheLink(c)
      BY <2>5 DEF Continue, MailLink, CacheJunk, DropLink,
         SetEmailVerified, Login, MailLogin, CacheLogin, RequestTfa, CacheTfa,
         MailTfa, DropTfa, CheckCode, SetTfa, MailReset, CacheReset,
         SaveRequest, ApproveRequest, DenyRequest
    <3>4. calls[c].at = "cacheLink" =>
             cache'[calls[c].token] = made'[calls[c].token]
      BY <3>3, <1>h, <1>b DEF CacheLink, Put, tokenVars, TypeOK, Holds,
                              LinkSteps
    <3> QED BY <3>1, <3>2, <3>4, <2>f, <1>i DEF ClicksOK, Useless
  <2> QED BY <2>1, <2>2, <2>3, <2>4, <2>5, <1>b, CallShapes
<1> QED BY <1>b, <1>1, <1>2, <1>3 DEF LinkInv

-----------------------------------------------------------------------------
(* The theorems.                                                           *)

\* The tables, the cache and the calls of Accounts always have their types.
THEOREM TypeCorrect == Spec => []TypeOK
<1>1. BaseInv => TypeOK
  BY DEF BaseInv
<1> QED BY <1>1, BaseInit, BaseStep, PTL DEF Spec

\* FactorInv holds in every state.
LEMMA FactorInvariant == Spec => []FactorInv
<1>1. Init => FactorInv
  <2>1. Init => FactorIsProved /\ SessionIsProved
    BY DEF Init, FactorIsProved, SessionIsProved, NewSecurity
  <2>2. Init => TokensProved /\ CallsProved
    BY EntryFacts, IdleFacts DEF Init, TokensProved, CallsProved
  <2> QED BY <2>1, <2>2, BaseInit DEF FactorInv
<1>2. FactorInv /\ [Next]_vars => FactorInv'
  <2>1. FactorInv /\ UNCHANGED vars => FactorInv'
    <3>1. BaseInv /\ UNCHANGED vars => BaseInv'
      BY BaseStep
    <3> QED BY <3>1 DEF FactorInv, FactorIsProved, SessionIsProved,
               TokensProved, CallsProved, MayLogin, Factor, vars, tokenVars,
               histVars
  <2> QED BY <2>1, FactorStep
<1> QED BY <1>1, <1>2, PTL DEF Spec

\* A second factor that is on belongs to a verified email and was proved with
\* a code (requestTfa, confirmTfaRequest, setTfa, resetTfa).
THEOREM FactorsAreProved == Spec => []FactorIsProved
<1>1. FactorInv => FactorIsProved
  BY DEF FactorInv
<1> QED BY <1>1, FactorInvariant, PTL

\* An access token is signed only for a factor its user has answered a code of
\* (confirmTfaCode, confirmTfaRequest), whatever has changed since login.
THEOREM SessionsAreProved == Spec => []SessionIsProved
<1>1. FactorInv => SessionIsProved
  BY DEF FactorInv
<1> QED BY <1>1, FactorInvariant, PTL

\* Until something expires or the process restarts, overlapping calls of
\* verifyEmail leave a delivered link good, or used it to verify the email.
THEOREM LinksStayGood == Spec => []LinkStaysGood
<1>1. Init => LinkInv
  <2>1. Init => LinkStaysGood /\ DeliveredMade
    BY DEF Init, LinkStaysGood, DeliveredMade
  <2>2. Init => ClicksOK
    BY IdleFacts DEF Init, ClicksOK, Useless
  <2> QED BY <2>1, <2>2, BaseInit DEF LinkInv
<1>2. LinkInv /\ [Next]_vars => LinkInv'
  <2>1. LinkInv /\ UNCHANGED vars => LinkInv'
    <3>1. BaseInv /\ UNCHANGED vars => BaseInv'
      BY BaseStep
    <3> QED BY <3>1 DEF LinkInv, LinkStaysGood, ClicksOK, DeliveredMade,
               Useless, Used, vars, tokenVars
  <2> QED BY <2>1, LinkStep
<1>3. LinkInv => LinkStaysGood
  BY DEF LinkInv
<1> QED BY <1>1, <1>2, <1>3, PTL DEF Spec

===============================================================================
