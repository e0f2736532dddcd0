------------------------------- MODULE Accounts -------------------------------
(***************************************************************************)
(* Accounts: registration and email verification, login with a second      *)
(* factor, enabling the factor, the forgotten password, and the requests   *)
(* by which an admin resets a factor (AuthService, UsersService, the       *)
(* security part of SettingsService, UserRequestService, MailService).     *)
(*                                                                         *)
(* A call of a handler is a record in calls that goes from one await to    *)
(* the next; between two awaits of a call any other call may run.  What a  *)
(* call read stays in its record, and may be stale when it is used.        *)
(***************************************************************************)
EXTENDS Integers

CONSTANTS
    Users,     \* email addresses
    Tokens,    \* random strings that name cache entries; a secret has the
               \* name of the token it was generated with
    Requests,  \* rows of userrequests
    Calls,     \* calls of handlers in flight
    MaxFaults, \* bound: mails lost, entries expired and process restarts
    NoUser, NoToken, NoRequest

ASSUME NullAssumption == /\ NoUser \notin Users
                         /\ NoToken \notin Tokens
                         /\ NoRequest \notin Requests
ASSUME FaultAssumption == MaxFaults \in Nat

VARIABLES
    account,   \* of each email: no row, a live one, or one marked deleted
    security,  \* its security row
    cache,     \* the redis cache
    made,      \* the entry each token was generated for
    delivered, \* tokens whose link or code the user can answer with
    calls,
    request,   \* the rows of userrequests
    proved,    \* factors confirmed with a code when they were set up (history)
    sessions,  \* factors access tokens were signed for (history)
    faults

tokenVars == <<made, delivered>>
histVars == <<proved, sessions>>
vars == <<account, security, cache, tokenVars, calls, request, histVars,
          faults>>

\* TFA_TYPE, and the null of a factor that was never set
Types == {"NONE", "EMAIL", "GOOGLE"}

Security == [verified: BOOLEAN, tfa: BOOLEAN, type: Types,
             secret: Tokens \cup {NoToken}]

\* settingsService.generateSecurity
NewSecurity == [verified |-> FALSE, tfa |-> FALSE, type |-> "NONE",
                secret |-> NoToken]

\* A factor of a user, with the secret of the authenticator it belongs to.
Factor(u, row) == [user |-> u, type |-> row.type, secret |-> row.secret]
Factors == [user: Users, type: Types, secret: Tokens \cup {NoToken}]

\* A cache entry: the user object and what was added to it.  "junk" is the
\* string verifyEmail stores under a token that has no entry.
Entry(k, f) == [kind |-> k, factor |-> f]
NoFactor == [user |-> NoUser, type |-> "NONE", secret |-> NoToken]
NoEntry == Entry("none", NoFactor)
Junk == Entry("junk", NoFactor)
Kinds == {"link", "tfa", "login", "reset"}
Entries == [kind: Kinds, factor: Factors] \cup {NoEntry, Junk}

\* A row of userrequests that is not saved yet; its status is 0 by default.
Unsaved == [user |-> NoUser, status |-> 0]

Idle == [at |-> "idle", user |-> NoUser, token |-> NoToken,
         entry |-> NoEntry, row |-> NewSecurity, req |-> NoRequest]

Init ==
    /\ account = [u \in Users |-> "none"]
    /\ security = [u \in Users |-> NewSecurity]
    /\ cache = [t \in Tokens |-> NoEntry]
    /\ made = [t \in Tokens |-> NoEntry]
    /\ delivered = {}
    /\ calls = [c \in Calls |-> Idle]
    /\ request = [r \in Requests |-> Unsaved]
    /\ proved = {}
    /\ sessions = {}
    /\ faults = 0

-----------------------------------------------------------------------------
(* Steps of a call.                                                        *)

Start(c, call) == calls[c] = Idle /\ calls' = [calls EXCEPT ![c] = call]
Become(c, step) == calls' = [calls EXCEPT ![c].at = step]
End(c) == calls' = [calls EXCEPT ![c] = Idle]

\* A call goes on with a new random token, and the entry it is for.
Generate(c, step, t, k, f) ==
    /\ made[t] = NoEntry
    /\ made' = [made EXCEPT ![t] = Entry(k, f)]
    /\ calls' = [calls EXCEPT ![c].at = step, ![c].token = t]

\* cacheManager.set of that entry
Put(c) == cache' = [cache EXCEPT ![calls[c].token] = made[calls[c].token]]

\* The factor the token of a call is for.
FactorOf(c) == made[calls[c].token].factor

\* The mail arrives, or sendMail fails and the mail service returns null.
Mail(c) ==
    \/ delivered' = delivered \cup {calls[c].token} /\ UNCHANGED faults
    \/ /\ faults < MaxFaults
       /\ faults' = faults + 1
       /\ UNCHANGED delivered

-----------------------------------------------------------------------------
(* Registration.                                                           *)

\* UsersService.create up to the insert; the email is unique.  The security
\* row comes with the user, as Init has it.
Register(c, u) ==
    /\ calls[c] = Idle
    /\ account[u] = "none"
    /\ account' = [account EXCEPT ![u] = "live"]
    /\ \E t \in Tokens : Generate(c, "cacheLink", t, "link",
                                  Factor(u, NewSecurity))
    /\ UNCHANGED <<security, cache, delivered, request, histVars, faults>>

CacheLink(c) ==
    /\ calls[c].at = "cacheLink"
    /\ Put(c)
    /\ Become(c, "mailLink")
    /\ UNCHANGED <<account, security, tokenVars, request, histVars, faults>>

\* A mail that fails is reported to the caller, but the row stays.
MailLink(c) ==
    /\ calls[c].at = "mailLink"
    /\ Mail(c)
    /\ End(c)
    /\ UNCHANGED <<account, security, cache, made, request, histVars>>

-----------------------------------------------------------------------------
(* Slips that the properties below must catch.                             *)

\* verifyEmail clears the token before it reads the entry
SlipDropFirst(c, t) ==
    /\ made[t].kind = "link" /\ t \in delivered
    /\ Start(c, [Idle EXCEPT !.at = "cacheJunk", !.token = t])
    /\ cache' = [cache EXCEPT ![t] = NoEntry]
    /\ UNCHANGED <<account, security, tokenVars, request, histVars, faults>>

\* requestTfa does not ask for a verified email
SlipUnverified(row) == ~row.tfa

\* confirmTfaCode takes the entry of a factor that is still to be confirmed
SlipAnyFactor(t) ==
    cache[t].kind \in {"login", "reset", "tfa"} /\ t \in delivered

\* deny writes the status of a request that is done
SlipDone(c) ==
    /\ calls[c].at = "deny"
    /\ request' = [request EXCEPT ![calls[c].req].status = 1]
    /\ End(c)
    /\ UNCHANGED <<account, security, cache, tokenVars, histVars, faults>>

-----------------------------------------------------------------------------
(* The verification link.                                                  *)

\* verifyEmail reads the entry of the token in the link.
ClickLink(c, t) ==
    /\ made[t].kind = "link" /\ t \in delivered
    /\ Start(c, [Idle EXCEPT !.at = IF cache[t] = NoEntry THEN "cacheJunk"
                                                          ELSE "dropLink",
                             !.token = t, !.entry = cache[t]])
    /\ UNCHANGED <<account, security, cache, tokenVars, request, histVars,
                   faults>>

\* A link without an entry is answered with an error, and leaves one behind.
CacheJunk(c) ==
    /\ calls[c].at = "cacheJunk"
    /\ cache' = [cache EXCEPT ![calls[c].token] = Junk]
    /\ End(c)
    /\ UNCHANGED <<account, security, tokenVars, request, histVars, faults>>

DropLink(c) ==
    /\ calls[c].at = "dropLink"
    /\ cache' = [cache EXCEPT ![calls[c].token] = NoEntry]
    /\ IF calls[c].entry.kind = "link" THEN Become(c, "setVerified")
                                       ELSE End(c)
    /\ UNCHANGED <<account, security, tokenVars, request, histVars, faults>>

SetEmailVerified(c) ==
    /\ calls[c].at = "setVerified"
    /\ security' =
          [security EXCEPT ![calls[c].entry.factor.user].verified = TRUE]
    /\ End(c)
    /\ UNCHANGED <<account, cache, tokenVars, request, histVars, faults>>

-----------------------------------------------------------------------------
(* Login.                                                                  *)

\* LocalStrategy.validate: the user is read before the password is compared,
\* and the handler behind the guard is given what was read.
ValidateUser(c, u, step) ==
    /\ account[u] = "live"
    /\ Start(c, [Idle EXCEPT !.at = step, !.user = u, !.row = security[u]])
    /\ UNCHANGED <<account, security, cache, tokenVars, request, histVars,
                   faults>>

\* login asks for a verified email and an enabled factor.
MayLogin(row) == row.verified /\ row.tfa

\* login checks the row the guard read; a code by mail goes out first.
Login(c) ==
    LET call == calls[c] IN
    /\ call.at = "login"
    /\ \/ /\ MayLogin(call.row)
          /\ \E t \in Tokens :
                Generate(c, IF call.row.type = "EMAIL" THEN "mailLogin"
                                                       ELSE "cacheLogin",
                         t, "login", Factor(call.user, call.row))
       \/ ~MayLogin(call.row) /\ End(c) /\ UNCHANGED made
    /\ UNCHANGED <<account, security, cache, delivered, request, histVars,
                   faults>>

\* send2faCode of login; its result is not looked at.
MailLogin(c) ==
    /\ calls[c].at = "mailLogin"
    /\ Mail(c)
    /\ Become(c, "cacheLogin")
    /\ UNCHANGED <<account, security, cache, made, request, histVars>>

\* The owner of an authenticator needs no mail to answer.
CacheLogin(c) ==
    /\ calls[c].at = "cacheLogin"
    /\ Put(c)
    /\ delivered' = IF FactorOf(c).type = "EMAIL" THEN delivered
                    ELSE delivered \cup {calls[c].token}
    /\ End(c)
    /\ UNCHANGED <<account, security, made, request, histVars, faults>>

\* What confirmTfaCode accepts: an entry with a user object and its security
\* row, and a code that fits it.  login stores one, and so does
\* forgotPassword, whose entry has no mailed code to compare with.
Accepts(t) == cache[t].kind \in {"login", "reset"} /\ t \in delivered

\* confirmTfaCode; the token stays valid.
ConfirmTfaCode(t) ==
    /\ Accepts(t)
    /\ sessions' = sessions \cup {cache[t].factor}
    /\ UNCHANGED <<account, security, cache, tokenVars, calls, request, proved,
                   faults>>

-----------------------------------------------------------------------------
(* Enabling the second factor.                                             *)

\* requestTfa asks for a verified email and no factor.
MayRequestTfa(row) == row.verified /\ ~row.tfa

\* tfaEnable reads the user again; requestTfa checks that row and makes the
\* entry, which holds the email, the type and the secret.
RequestTfa(c) ==
    LET u == calls[c].user IN
    /\ calls[c].at = "findUser"
    /\ \/ /\ account[u] = "live" /\ MayRequestTfa(security[u])
          /\ \E t \in Tokens, type \in Types \ {"NONE"} :
                Generate(c, "cacheTfa", t, "tfa",
                         [user |-> u, type |-> type,
                          secret |-> IF type = "GOOGLE" THEN t ELSE NoToken])
       \/ /\ ~(account[u] = "live" /\ MayRequestTfa(security[u]))
          /\ End(c) /\ UNCHANGED made
    /\ UNCHANGED <<account, security, cache, delivered, request, histVars,
                   faults>>

\* The secret is in the response; a code has to be mailed.
CacheTfa(c) ==
    /\ calls[c].at = "cacheTfa"
    /\ Put(c)
    /\ \/ /\ FactorOf(c).type = "EMAIL"
          /\ Become(c, "mailTfa") /\ UNCHANGED delivered
       \/ /\ FactorOf(c).type = "GOOGLE"
          /\ End(c) /\ delivered' = delivered \cup {calls[c].token}
    /\ UNCHANGED <<account, security, made, request, histVars, faults>>

MailTfa(c) ==
    /\ calls[c].at = "mailTfa"
    /\ Mail(c)
    /\ End(c)
    /\ UNCHANGED <<account, security, cache, made, request, histVars>>

\* The response of requestTfa names the token.
Responded(t) ==
    \A c \in Calls : calls[c].token = t => calls[c].at # "mailTfa"

\* confirmTfaRequest reads the entry, and then deletes it.
ConfirmTfaRequest(c, t) ==
    /\ made[t].kind = "tfa" /\ cache[t] # NoEntry /\ Responded(t)
    /\ Start(c, [Idle EXCEPT !.at = "dropTfa", !.token = t, !.entry = cache[t]])
    /\ UNCHANGED <<account, security, cache, tokenVars, request, histVars,
                   faults>>

DropTfa(c) ==
    /\ calls[c].at = "dropTfa"
    /\ cache' = [cache EXCEPT ![calls[c].token] = NoEntry]
    /\ Become(c, "checkCode")
    /\ UNCHANGED <<account, security, tokenVars, request, histVars, faults>>

\* The user is read and the code checked: a wrong one, and a user deleted
\* meanwhile, end the call.
CheckCode(c) ==
    LET call == calls[c]
        u    == call.entry.factor.user IN
    /\ call.at = "checkCode"
    /\ \/ /\ account[u] = "live" /\ call.token \in delivered
          /\ proved' = proved \cup {call.entry.factor}
          /\ Become(c, "setTfa")
       \/ End(c) /\ UNCHANGED proved
    /\ UNCHANGED <<account, security, cache, tokenVars, request, sessions,
                   faults>>

\* setTfa, and an access token if the caller asked for one.
SetTfa(c) ==
    LET f == calls[c].entry.factor IN
    /\ calls[c].at = "setTfa"
    /\ security' = [security EXCEPT ![f.user] =
                      [@ EXCEPT !.tfa = TRUE, !.type = f.type,
                                !.secret = f.secret]]
    /\ \E jwt \in BOOLEAN :
          sessions' = IF jwt THEN sessions \cup {f} ELSE sessions
    /\ End(c)
    /\ UNCHANGED <<account, cache, tokenVars, request, proved, faults>>

-----------------------------------------------------------------------------
(* The forgotten password: the entry of the link is stored after the mail. *)

ForgotPassword(c, u) ==
    /\ calls[c] = Idle
    /\ account[u] = "live" /\ MayLogin(security[u])
    /\ \E t \in Tokens :
          Generate(c, "mailReset", t, "reset", Factor(u, security[u]))
    /\ UNCHANGED <<account, security, cache, delivered, request, histVars,
                   faults>>

MailReset(c) ==
    /\ calls[c].at = "mailReset"
    /\ Mail(c)
    /\ IF calls[c].token \in delivered' THEN Become(c, "cacheReset") ELSE End(c)
    /\ UNCHANGED <<account, security, cache, made, request, histVars>>

\* set without a time to live
CacheReset(c) ==
    /\ calls[c].at = "cacheReset"
    /\ Put(c)
    /\ End(c)
    /\ UNCHANGED <<account, security, tokenVars, request, histVars, faults>>

-----------------------------------------------------------------------------
(* Requests to an admin.  status: 0 pending, 1 done, 2 denied.             *)

CreateNewRequest(c, u) ==
    /\ account[u] = "live"
    /\ Start(c, [Idle EXCEPT !.at = "saveRequest", !.user = u])
    /\ UNCHANGED <<account, security, cache, tokenVars, request, histVars,
                   faults>>

SaveRequest(c) ==
    /\ calls[c].at = "saveRequest"
    /\ \E r \in Requests :
          /\ request[r] = Unsaved
          /\ request' = [request EXCEPT ![r].user = calls[c].user]
    /\ End(c)
    /\ UNCHANGED <<account, security, cache, tokenVars, histVars, faults>>

\* Both handlers read the request with its user, and refuse one whose status
\* is not pending.
OpenRequest(c, r, decision) ==
    /\ request[r].user # NoUser /\ request[r].status = 0
    /\ Start(c, [Idle EXCEPT !.at = decision, !.user = request[r].user,
                             !.req = r])
    /\ UNCHANGED <<account, security, cache, tokenVars, request, histVars,
                   faults>>

\* resetTfa clears the flag only; the request is left as it is.
ApproveRequest(c) ==
    /\ calls[c].at = "approve"
    /\ security' = [security EXCEPT ![calls[c].user].tfa = FALSE]
    /\ End(c)
    /\ UNCHANGED <<account, cache, tokenVars, request, histVars, faults>>

DenyRequest(c) ==
    /\ calls[c].at = "deny"
    /\ request' = [request EXCEPT ![calls[c].req].status = 2]
    /\ End(c)
    /\ UNCHANGED <<account, security, cache, tokenVars, histVars, faults>>

-----------------------------------------------------------------------------
(* Removal marks the row; entries run out of time, except those of a       *)
(* forgotten password; a restart of the process ends every call.           *)

Remove(u) ==
    /\ account[u] = "live"
    /\ account' = [account EXCEPT ![u] = "deleted"]
    /\ UNCHANGED <<security, cache, tokenVars, calls, request, histVars,
                   faults>>

Expire(t) ==
    /\ cache[t].kind \in {"link", "tfa", "login", "junk"}
    /\ faults < MaxFaults
    /\ faults' = faults + 1
    /\ cache' = [cache EXCEPT ![t] = NoEntry]
    /\ UNCHANGED <<account, security, tokenVars, calls, request, histVars>>

Restart ==
    /\ faults < MaxFaults
    /\ faults' = faults + 1
    /\ calls' = [c \in Calls |-> Idle]
    /\ UNCHANGED <<account, security, cache, tokenVars, request, histVars>>

\* The steps a call takes by itself once it was started.
Continue(c) ==
    \/ CacheLink(c) \/ MailLink(c) \/ CacheJunk(c) \/ DropLink(c)
    \/ SetEmailVerified(c)
    \/ Login(c) \/ MailLogin(c) \/ CacheLogin(c)
    \/ RequestTfa(c) \/ CacheTfa(c) \/ MailTfa(c)
    \/ DropTfa(c) \/ CheckCode(c) \/ SetTfa(c)
    \/ MailReset(c) \/ CacheReset(c)
    \/ SaveRequest(c) \/ ApproveRequest(c) \/ DenyRequest(c)

Next ==
    \/ \E c \in Calls : Continue(c)
    \/ \E c \in Calls, u \in Users :
          \/ Register(c, u) \/ ForgotPassword(c, u) \/ CreateNewRequest(c, u)
          \/ \E step \in {"login", "findUser"} : ValidateUser(c, u, step)
    \/ \E c \in Calls, t \in Tokens :
          ClickLink(c, t) \/ ConfirmTfaRequest(c, t)
    \/ \E c \in Calls, r \in Requests, decision \in {"approve", "deny"} :
          OpenRequest(c, r, decision)
    \/ \E t \in Tokens : ConfirmTfaCode(t) \/ Expire(t)
    \/ \E u \in Users : Remove(u)
    \/ Restart

Spec == Init /\ [][Next]_vars

-----------------------------------------------------------------------------
(* Properties.                                                             *)

\* The handlers of a call, by what they do next.
Steps == {"idle", "cacheLink", "mailLink", "cacheJunk", "dropLink",
          "setVerified", "login", "mailLogin", "cacheLogin", "findUser",
          "cacheTfa", "mailTfa", "dropTfa", "checkCode", "setTfa", "mailReset",
          "cacheReset", "saveRequest", "approve", "deny"}

\* The tables, the cache and the calls have their types.
TypeOK ==
    /\ account \in [Users -> {"none", "live", "deleted"}]
    /\ security \in [Users -> Security]
    /\ cache \in [Tokens -> Entries]
    /\ made \in [Tokens -> Entries]
    /\ delivered \subseteq Tokens
    /\ calls \in [Calls -> [at: Steps, user: Users \cup {NoUser},
                            token: Tokens \cup {NoToken}, entry: Entries,
                            row: Security, req: Requests \cup {NoRequest}]]
    /\ request \in [Requests -> [user: Users \cup {NoUser}, status: {0, 2}]]
    /\ proved \subseteq Factors
    /\ sessions \subseteq Factors
    /\ faults \in 0 .. MaxFaults

\* An account whose factor is on has a verified email, and its user has
\* answered a code of exactly this factor, however the calls of requestTfa,
\* confirmTfaRequest and approveRequest overlap.
FactorIsProved ==
    \A u \in Users : security[u].tfa => /\ security[u].verified
                                        /\ Factor(u, security[u]) \in proved

\* confirmTfaCode and confirmTfaRequest sign an access token only for a user
\* and a factor that was once confirmed with a code of its own, whichever
\* handler left the cache entry and however old the row is that login read.
\* It does not say that a code was answered for this token (the entry of a
\* forgotten password asks for none), nor that the factor is still on.
SessionIsProved == sessions \subseteq proved

\* As long as nothing expires and the process runs, a link that was delivered
\* verifies the email or still can: overlapping clicks, of which verifyEmail
\* answers all but one with an error, never use it up for nothing.
LinkStaysGood ==
    \A t \in Tokens :
       (made[t].kind = "link" /\ t \in delivered /\ faults = 0) =>
          \/ security[made[t].factor.user].verified
          \/ cache[t] = made[t]
          \/ \E c \in Calls : calls[c].token = t /\ calls[c].at = "setVerified"

=============================================================================
