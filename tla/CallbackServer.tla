--------------------------- MODULE CallbackServer ---------------------------
(***************************************************************************)
(* The way of a browser's callback: the Lambda router                      *)
(* (lambda-router/main.go) and the callback server                         *)
(* (internal/callback/server.go) with every check it makes, the session    *)
(* store, the cache of ALB keys, the identity provider and time.           *)
(*                                                                         *)
(* AuthHandler leaves the outcome of the checks open; here it follows from *)
(* the configuration, the token and the account.  A request stops wherever *)
(* the code waits for somebody else (the key endpoint, Cognito, OpenVPN)   *)
(* or lets others at the store.                                            *)
(*                                                                         *)
(* Tokens are described by what they are, which the code has to find out:  *)
(* who signed them, for which load balancer and user pool, for whom and    *)
(* with which groups.                                                      *)
(***************************************************************************)
EXTENDS DaemonConfig, GroupsClaim, FiniteSets

CONSTANTS
    Sids,           \* sessions, one per CLIENT:CONNECT
    CommonNames,    \* certificate CNs of clients
    Reqs,           \* requests of the browser
    Configs,        \* configurations the daemon may be started with
    Tokens,         \* values of the x-amzn-oidc-data header
    Accounts,       \* the accounts of the user pool by user name
    Kids,           \* key IDs the ALB key endpoint knows
    None,           \* nothing
    Times,          \* the moments looked at, in seconds
    Faults          \* faults that may happen

FaultKinds == {"router",        \* the router gives up on a request
               "keyEndpoint",   \* the key endpoint fails
               "cognito",       \* a Cognito call fails
               "queue",         \* a command or its response is lost
               "revoked"}       \* the account is disabled or leaves the group

\* Names as they are written: of a person, in lower or mixed case, with white
\* space around it, or not valid UTF-8.  A form of its own is the empty name.
Written == [person : STRING, form : {"lower", "mixed", "padded", "invalid", "empty"}]

Token == [form : {"missing", "garbled", "noClaims", "whole"},
          kid : STRING, signedBy : STRING,   \* key named, key used
          ecdsa : BOOLEAN, ours : BOOLEAN,   \* signer is the configured ALB
          issuedHere : BOOLEAN,              \* by the configured user pool
          exp : Nat \cup {None}, email : Written, user : STRING,
          groups : Claim]

Account == [enabled : BOOLEAN, groups : SUBSET Names]

ASSUME CallbackAssumption ==
    /\ Configs \subseteq Config
    /\ Tokens \subseteq Token
    /\ CommonNames \subseteq Written
    /\ Kids \subseteq STRING
    /\ Accounts \in [DOMAIN Accounts -> Account]
    /\ 0 \in Times /\ Times \subseteq Nat
    /\ None \notin Sids \cup CommonNames \cup Tokens \cup Nat \cup STRING
    /\ Faults \subseteq FaultKinds

VARIABLES
    config,             \* the configuration
    now,                \* clock, in seconds
    cn, created,        \* a session: its CN, and when it was created
    status, decided,    \* as in SessionStore
    timer,              \* authTimeout of a session
    inFlight,           \* sessions whose CID may still be promoted
    keys,               \* keyCache
    account,            \* the accounts now
    pc, sid, tok,       \* a request: where it is, its session and its token
    gone,               \* requests nobody waits for any more
    page,               \* what the browser is shown
    taken, fit,         \* history: when requests claimed their session, and
                        \* which did so for an account in the required group
    granted, refused,   \* history: requests that let in, and refused, a client
    erred, acked        \* history: requests to which Cognito did not answer;
                        \* sessions whose client-auth OpenVPN confirmed

sessionVars == <<cn, created, status, decided, timer, inFlight>>
requestVars == <<pc, sid, tok, gone, page, taken, fit>>
outcomeVars == <<granted, refused, erred, acked>>
vars == <<config, now, sessionVars, keys, account, requestVars, outcomeVars>>

\* Success, "verification failed", "try again", and the other errors: of the
\* daemon, and of the router when there is no answer.
Pages == {"200", "403", "503retry", "error", "unavailable"}
\* A request that has claimed its session.
Owning == {"verify", "fetch", "token", "user", "groups", "allow", "ack", "deny"}
Pcs == Owning \cup {"idle", "badState", "arrived", "denySend", "markDone", "done"}

TypeOK ==
    /\ config \in Configs /\ now \in Times
    /\ cn \in [Sids -> CommonNames \cup {None}]
    /\ created \in [Sids -> Times \cup {None}]
    /\ status \in [Sids -> {"absent", "PENDING", "PROCESSING", "DONE", "FAILED"}]
    /\ decided \in [Sids -> SUBSET {"allow", "deny"}]
    /\ timer \in [Sids -> {"off", "running", "claimed", "failed"}]
    /\ inFlight \subseteq Sids
    /\ keys \subseteq Kids
    /\ account \in [DOMAIN Accounts -> Account]
    /\ pc \in [Reqs -> Pcs]
    /\ sid \in [Reqs -> Sids \cup {None}] /\ tok \in [Reqs -> Tokens \cup {None}]
    /\ page \in [Reqs -> Pages \cup {"none"}]
    /\ taken \in [Reqs -> Times]
    /\ gone \subseteq Reqs /\ fit \subseteq Reqs
    /\ granted \subseteq Reqs /\ refused \subseteq Reqs /\ erred \subseteq Reqs
    /\ acked \subseteq Sids

\* Parse stops the daemon on a configuration that Validate does not accept.
Init ==
    /\ config \in {c \in Configs : Validate(c)} /\ now = 0
    /\ cn = [s \in Sids |-> None] /\ created = [s \in Sids |-> None]
    /\ status = [s \in Sids |-> "absent"] /\ decided = [s \in Sids |-> {}]
    /\ timer = [s \in Sids |-> "off"] /\ inFlight = {}
    /\ keys = {} /\ account = Accounts
    /\ pc = [r \in Reqs |-> "idle"]
    /\ sid = [r \in Reqs |-> None] /\ tok = [r \in Reqs |-> None]
    /\ page = [r \in Reqs |-> "none"]
    /\ taken = [r \in Reqs |-> 0]
    /\ gone = {} /\ fit = {} /\ granted = {} /\ refused = {}
    /\ erred = {} /\ acked = {}

-----------------------------------------------------------------------------
(* Time, and what happens to accounts. *)

\* Nothing depends on how much time passes before the first client comes.
Tick ==
    /\ \E s \in Sids : created[s] # None
    /\ \E d \in Times : /\ now < d /\ now' = d
                        /\ \A e \in Times : e <= now \/ d <= e
    /\ UNCHANGED <<config, sessionVars, keys, account, requestVars, outcomeVars>>

Revoke(u) ==
    /\ "revoked" \in Faults /\ account[u] = Accounts[u]
    /\ \/ account' = [account EXCEPT ![u].enabled = FALSE]
       \/ account' = [account EXCEPT ![u].groups = {}]
    /\ UNCHANGED <<config, now, sessionVars, keys, requestVars, outcomeVars>>

-----------------------------------------------------------------------------
(* The session: handleConnect, authTimeout, handleDisconnect, the reaper. *)

\* NormalizeIdentity: None stands for its error.
NormalizeIdentity(w) ==
    IF w.form \in {"empty", "invalid", "padded"} THEN None ELSE w.person

\* MarkDone, MarkFailed and MarkPending do nothing for a session not there.
Mark(s, st) ==
    status' = [status EXCEPT ![s] = IF @ = "absent" THEN @ ELSE st]

Decide(s, d) == decided' = [decided EXCEPT ![s] = @ \cup {d}]

\* Mutant: a session that is being processed may be claimed, too.
ClaimableAgain(s) == status[s] \in {"PENDING", "PROCESSING"}

\* The test of TryProcess.
Claimable(s) == status[s] = "PENDING"

\* What the store and handleConnect make of a new client.  A CN that cannot be
\* normalized is denied.
Connect(s) ==
    /\ created[s] = None /\ decided[s] = {}
    /\ \/ /\ \E n \in CommonNames : /\ NormalizeIdentity(n) # None
                                    /\ cn' = [cn EXCEPT ![s] = n]
          /\ created' = [created EXCEPT ![s] = now]
          /\ status' = [status EXCEPT ![s] = "PENDING"]
          /\ timer' = [timer EXCEPT ![s] = "running"]
          /\ inFlight' = inFlight \cup {s}
          /\ UNCHANGED decided
       \/ /\ \E n \in CommonNames : NormalizeIdentity(n) = None
          /\ Decide(s, "deny")
          /\ UNCHANGED <<cn, created, status, timer, inFlight>>
    /\ UNCHANGED <<config, now, keys, account, requestVars, outcomeVars>>

\* authTimeout takes a pending session.
TimerClaims(s) ==
    /\ timer[s] = "running" /\ now >= created[s] + config.authTimeout
    /\ \/ /\ Claimable(s)
          /\ Mark(s, "PROCESSING")
          /\ timer' = [timer EXCEPT ![s] = "claimed"]
          /\ UNCHANGED inFlight
       \/ /\ ~Claimable(s)
          /\ timer' = [timer EXCEPT ![s] = "off"]
          /\ inFlight' = inFlight \ {s}
          /\ UNCHANGED status
    /\ UNCHANGED <<config, now, cn, created, decided, keys, account, requestVars,
                   outcomeVars>>

TimerMarksFailed(s) ==
    /\ timer[s] = "claimed"
    /\ Mark(s, "FAILED")
    /\ timer' = [timer EXCEPT ![s] = "failed"]
    /\ UNCHANGED <<config, now, cn, created, decided, inFlight, keys, account,
                   requestVars, outcomeVars>>

TimerDenies(s) ==
    /\ timer[s] = "failed"
    /\ Decide(s, "deny") \/ ("queue" \in Faults /\ UNCHANGED decided)
    /\ timer' = [timer EXCEPT ![s] = "off"]
    /\ inFlight' = inFlight \ {s}
    /\ UNCHANGED <<config, now, cn, created, status, keys, account, requestVars,
                   outcomeVars>>

\* The session is deleted and its timer stopped: handleDisconnect, and
\* promoteSession on ESTABLISHED.
Forgotten(s) ==
    /\ s \in inFlight
    /\ inFlight' = inFlight \ {s}
    /\ status' = [status EXCEPT ![s] = "absent"]
    /\ timer' = [timer EXCEPT ![s] = IF @ = "running" THEN "off" ELSE @]

Leave(s) ==
    /\ Forgotten(s)
    /\ UNCHANGED <<config, now, cn, created, decided, keys, account, requestVars,
                   outcomeVars>>

ExpiresAt(s) == created[s] + 2 * config.handWindow

Reap(s) ==
    /\ status[s] # "absent" /\ now > ExpiresAt(s)
    /\ status' = [status EXCEPT ![s] = "absent"]
    /\ UNCHANGED <<config, now, cn, created, decided, timer, inFlight, keys,
                   account, requestVars, outcomeVars>>

-----------------------------------------------------------------------------
(* The Lambda router. *)

Goto(r, l) == pc' = [pc EXCEPT ![r] = l]

\* The request is over; its page reaches whoever still waits for it.
Finish(r, p) ==
    /\ Goto(r, "done")
    /\ page' = IF r \in gone THEN page ELSE [page EXCEPT ![r] = p]

\* The account of a token is enabled and in the required group.
Fit(t) ==
    /\ t.user \in DOMAIN account
    /\ account[t.user].enabled
    /\ config.requiredGroup \in account[t.user].groups

\* The browser opens a link.
Browse(r) ==
    /\ pc[r] = "idle"
    /\ \E s \in Sids : created[s] # None /\ sid' = [sid EXCEPT ![r] = s]
    /\ UNCHANGED <<config, now, sessionVars, keys, account, tok, gone, taken,
                   fit, outcomeVars>>

\* handler of the router: a path that is none, no state, a target outside the
\* VPC or out of reach, or the request is passed on.
Route(r) ==
    /\ Browse(r)
    /\ \/ \E p \in {"error", "unavailable"} : Finish(r, p)
       \/ \E l \in {"badState", "arrived"} : Goto(r, l) /\ UNCHANGED page

\* UPSTREAM_TIMEOUT, or the ALB's: the connection is closed, and with it the
\* context of the request is cancelled.
GiveUp(r) ==
    /\ "router" \in Faults
    /\ pc[r] \notin {"idle", "done"} /\ r \notin gone
    /\ gone' = gone \cup {r}
    /\ page' = [page EXCEPT ![r] = "unavailable"]
    /\ UNCHANGED <<config, now, sessionVars, keys, account, pc, sid, tok,
                   taken, fit, outcomeVars>>

-----------------------------------------------------------------------------
(* handleCallback. *)

\* DecodeState of a state that is as the daemon has signed it; a closing
\* apostrophe is cut off before.
Decodes(r) == pc[r] = "arrived" /\ now <= created[sid[r]] + config.authTimeout

\* Step 1: a state that is missing, damaged or too old.
RejectState(r) ==
    /\ pc[r] \in {"badState", "arrived"} /\ ~Decodes(r)
    /\ Finish(r, "error")
    /\ UNCHANGED <<config, now, sessionVars, keys, account, sid, tok, gone,
                   taken, fit, outcomeVars>>

\* Step 2, TryProcess: the session is not there or not pending ...
RejectSession(r) ==
    /\ Decodes(r) /\ ~Claimable(sid[r])
    /\ Finish(r, "error")
    /\ UNCHANGED <<config, now, sessionVars, keys, account, sid, tok, gone,
                   taken, fit, outcomeVars>>

\* ... or claimed by the request, with the token the ALB has added to it.
TryProcess(r) ==
    /\ Decodes(r) /\ Claimable(sid[r])
    /\ Mark(sid[r], "PROCESSING")
    /\ Goto(r, "verify")
    /\ \E t \in Tokens :
          /\ tok' = [tok EXCEPT ![r] = t]
          /\ fit' = IF Fit(t) THEN fit \cup {r} ELSE fit
    /\ taken' = [taken EXCEPT ![r] = now]
    /\ UNCHANGED <<config, now, cn, created, decided, timer, inFlight, keys,
                   account, sid, gone, page, outcomeVars>>

\* extractALBClaims wants an email.
HasClaims(t) == t.form = "whole" /\ t.email.form # "empty"

\* validateALBJWT with the key the token names.
ValidateALBJWT(t) ==
    /\ t.ours
    /\ t.ecdsa /\ t.signedBy = t.kid
    /\ t.exp # None /\ now < t.exp
    /\ HasClaims(t)
    /\ config.issuerURL => t.issuedHere

\* Step 7.
CNCrossCheck(r) ==
    config.cnCrossCheck /\ cn[sid[r]].form # "empty" =>
        /\ NormalizeIdentity(tok[r].email) # None
        /\ NormalizeIdentity(cn[sid[r]]) # None
        /\ NormalizeIdentity(tok[r].email) = NormalizeIdentity(cn[sid[r]])

\* checkGroup, as far as it does not ask Cognito.  Without a user pool the
\* checker is the StaticChecker of main.
InGroup(r) ==
    IF config.groupsSource = "jwt-claim"
    THEN config.requiredGroup \in ParseGroupsClaim(tok[r].groups)
    ELSE config.checkGroupOnReauth

\* Steps 7 and 8: where the request goes on.
Checked(r) ==
    LET group == config.requiredGroup # Unset
        ask == group /\ config.groupsSource # "jwt-claim" /\ config.poolID
    IN  CASE ~CNCrossCheck(r) -> "deny"
          [] CNCrossCheck(r) /\ ask -> "user"
          [] CNCrossCheck(r) /\ ~ask ->
                IF group => InGroup(r) THEN "allow" ELSE "deny"

\* Steps 3 to 6, up to the fetch of a key.
Verify(r) ==
    /\ pc[r] = "verify"
    /\ \/ tok[r].form \in {"missing", "garbled"} /\ Goto(r, "deny")
       \/ /\ tok[r].form \notin {"missing", "garbled"} /\ config.albARN
          /\ Goto(r, IF tok[r].kid \in keys THEN "token" ELSE "fetch")
       \/ /\ tok[r].form \notin {"missing", "garbled"} /\ ~config.albARN
          /\ Goto(r, IF HasClaims(tok[r]) THEN Checked(r) ELSE "deny")
    /\ UNCHANGED <<config, now, sessionVars, keys, account, sid, tok,
                   gone, page, taken, fit, outcomeVars>>

\* Mutant: whatever the endpoint answers is taken for a key.
AnyStatus(kid) == TRUE

\* FetchALBPublicKey: the endpoint has a key of this ID.
FetchALBPublicKey(kid) == kid \in Kids

\* getOrFetchKey; the cache is not looked at again.
FetchKey(r) ==
    /\ pc[r] = "fetch" /\ r \notin gone
    /\ FetchALBPublicKey(tok[r].kid)
    /\ keys' = keys \cup {tok[r].kid}
    /\ Goto(r, "token")
    /\ UNCHANGED <<config, now, sessionVars, account, sid, tok, gone,
                   page, taken, fit, outcomeVars>>

\* Mutant: the early return forgets the session.
FetchFailsSilently(r) ==
    /\ pc[r] = "fetch"
    /\ ~FetchALBPublicKey(tok[r].kid) \/ r \in gone \/ "keyEndpoint" \in Faults
    /\ UNCHANGED status
    /\ Finish(r, "503retry")
    /\ tok' = [tok EXCEPT ![r] = None] /\ taken' = [taken EXCEPT ![r] = 0]
    /\ fit' = fit \ {r}
    /\ UNCHANGED <<config, now, cn, created, decided, timer, inFlight, keys,
                   account, sid, gone, outcomeVars>>

\* The session is given back for another try.
FetchFails(r) ==
    /\ pc[r] = "fetch"
    /\ ~FetchALBPublicKey(tok[r].kid) \/ r \in gone \/ "keyEndpoint" \in Faults
    /\ Mark(sid[r], "PENDING")
    /\ Finish(r, "503retry")
    /\ tok' = [tok EXCEPT ![r] = None] /\ taken' = [taken EXCEPT ![r] = 0]
    /\ fit' = fit \ {r}
    /\ UNCHANGED <<config, now, cn, created, decided, timer, inFlight, keys,
                   account, sid, gone, outcomeVars>>

CheckToken(r) ==
    /\ pc[r] = "token"
    /\ Goto(r, IF ValidateALBJWT(tok[r]) THEN Checked(r) ELSE "deny")
    /\ UNCHANGED <<config, now, sessionVars, keys, account, sid, tok,
                   gone, page, taken, fit, outcomeVars>>

\* CheckUser: AdminGetUser and, for an enabled account, the groups.
AdminGetUser(r) ==
    /\ pc[r] = "user" /\ r \notin gone
    /\ LET u == tok[r].user
       IN  Goto(r, IF u \in DOMAIN account /\ account[u].enabled
                   THEN "groups" ELSE "deny")
    /\ UNCHANGED <<config, now, sessionVars, keys, account, sid, tok,
                   gone, page, taken, fit, outcomeVars>>

ListGroups(r) ==
    /\ pc[r] = "groups" /\ r \notin gone
    /\ Goto(r, IF config.requiredGroup \in account[tok[r].user].groups
               THEN "allow" ELSE "deny")
    /\ UNCHANGED <<config, now, sessionVars, keys, account, sid, tok,
                   gone, page, taken, fit, outcomeVars>>

\* An error of Cognito, or of the cancelled context, is a reason to deny.
CheckUserFails(r) ==
    /\ pc[r] \in {"user", "groups"}
    /\ r \in gone \/ "cognito" \in Faults
    /\ erred' = erred \cup {r}
    /\ Goto(r, "deny")
    /\ UNCHANGED <<config, now, sessionVars, keys, account, sid, tok,
                   gone, page, taken, fit, granted, refused, acked>>

\* Mutant: the session is given back to be tried again.
DenyRetryable(r) ==
    /\ pc[r] = "deny"
    /\ Mark(sid[r], "PENDING")
    /\ refused' = refused \cup {r}
    /\ Goto(r, "denySend")
    /\ UNCHANGED <<config, now, cn, created, decided, timer, inFlight, keys,
                   account, sid, tok, gone, page, taken, fit, granted,
                   erred, acked>>

\* denySession: MarkFailed, then the deny.
DenyMarks(r) ==
    /\ pc[r] = "deny"
    /\ Mark(sid[r], "FAILED")
    /\ refused' = refused \cup {r}
    /\ Goto(r, "denySend")
    /\ UNCHANGED <<config, now, cn, created, decided, timer, inFlight, keys,
                   account, sid, tok, gone, page, taken, fit, granted,
                   erred, acked>>

DenySends(r) ==
    /\ pc[r] = "denySend"
    /\ Decide(sid[r], "deny") \/ ("queue" \in Faults /\ UNCHANGED decided)
    /\ Finish(r, "403")
    /\ UNCHANGED <<config, now, cn, created, status, timer, inFlight, keys,
                   account, sid, tok, gone, taken, fit, outcomeVars>>

\* sendAllowDecision puts client-auth into the queue ...
Allow(r) ==
    /\ pc[r] = "allow"
    /\ Decide(sid[r], "allow")
    /\ granted' = granted \cup {r}
    /\ Goto(r, "ack")
    /\ UNCHANGED <<config, now, cn, created, status, timer, inFlight, keys,
                   account, sid, tok, gone, page, taken, fit, refused,
                   erred, acked>>

\* ... and waits for the response; a full queue, a refusal or silence fails.
AllowFails(r) ==
    /\ pc[r] \in {"allow", "ack"} /\ "queue" \in Faults
    /\ Mark(sid[r], "FAILED")
    /\ Finish(r, "error")
    /\ UNCHANGED <<config, now, cn, created, decided, timer, inFlight, keys,
                   account, sid, tok, gone, taken, fit, outcomeVars>>

\* MarkAuthenticated promotes the CID of a session in flight.
MarkAuthenticated(r) ==
    /\ pc[r] = "ack"
    /\ acked' = acked \cup {sid[r]}
    /\ \/ Forgotten(sid[r])
       \/ sid[r] \notin inFlight /\ UNCHANGED <<inFlight, status, timer>>
    /\ Goto(r, "markDone")
    /\ UNCHANGED <<config, now, cn, created, decided, keys, account, sid, tok,
                   gone, page, taken, fit, granted, refused, erred>>

MarkDone(r) ==
    /\ pc[r] = "markDone"
    /\ Mark(sid[r], "DONE")
    /\ Finish(r, "200")
    /\ UNCHANGED <<config, now, cn, created, decided, timer, inFlight, keys,
                   account, sid, tok, gone, taken, fit, outcomeVars>>

-----------------------------------------------------------------------------
\* What a request does by itself or when a timeout of its own is over.
Proceed(r) ==
    \/ RejectState(r) \/ RejectSession(r) \/ TryProcess(r) \/ Verify(r)
    \/ FetchKey(r) \/ FetchFails(r) \/ CheckToken(r)
    \/ DenyMarks(r) \/ DenySends(r) \/ Allow(r) \/ AllowFails(r)
    \/ MarkAuthenticated(r) \/ MarkDone(r)

TimerProceeds(s) == TimerClaims(s) \/ TimerMarksFailed(s) \/ TimerDenies(s)

Next ==
    \/ Tick
    \/ \E u \in DOMAIN Accounts : Revoke(u)
    \/ \E s \in Sids : Connect(s) \/ TimerProceeds(s) \/ Leave(s) \/ Reap(s)
    \/ \E r \in Reqs : \/ Route(r) \/ GiveUp(r) \/ Proceed(r)
                       \/ AdminGetUser(r) \/ ListGroups(r) \/ CheckUserFails(r)

Spec == Init /\ [][Next]_vars

\* Requests and timers go on, and the router does not wait for ever.  Cognito
\* may never answer: CheckUser has no timeout but the request's context.
FairSpec ==
    /\ Spec
    /\ \A r \in Reqs : /\ WF_vars(Proceed(r)) /\ WF_vars(GiveUp(r))
                       /\ WF_vars(r \in gone /\ CheckUserFails(r))
    /\ \A s \in Sids : WF_vars(TimerProceeds(s))

-----------------------------------------------------------------------------
(* Properties. *)

\* The claim names the group.
Mentions(v, g) == \E i \in DOMAIN v.elements : v.elements[i].name = g

Lists(t, g) == t.groups.type \in {"array", "string"} /\ Mentions(t.groups, g)

\* The claim has one of the forms docs/group-authorization.md lists.
WellFormed(v) ==
    LET all(kind) == \A i \in DOMAIN v.elements : v.elements[i].kind = kind
    IN  \/ v.type = "array" /\ all("quoted")
        \/ v.type = "string" /\ v.bracketed /\ all("quoted")
        \/ v.type = "string" /\ v.bracketed /\ all("bare") /\ Len(v.elements) > 1
        \/ v.type = "string" /\ ~v.bracketed /\ all("bare")

SamePerson(v, w) ==
    {v.form, w.form} \subseteq {"lower", "mixed"} /\ v.person = w.person

\* Nobody gets in without what the configuration asks for: whatever requests
\* race, fail half-way and come again, client-auth is sent only for a link that
\* was valid when it was opened and, with an ALB configured, a token that this
\* ALB signed for this user pool and that had not expired; for the person in
\* the certificate if the cross-check is on; and for a member of the required
\* group, as the claim says or as Cognito knew when the link was opened.
AllowedOnlyVerified ==
    \A r \in granted :
        LET t == tok[r]  g == config.requiredGroup
        IN  /\ taken[r] <= created[sid[r]] + config.authTimeout
            /\ config.albARN => /\ t.signedBy \in Kids /\ t.ours /\ t.issuedHere
                                /\ t.exp # None /\ taken[r] < t.exp
            /\ config.cnCrossCheck => SamePerson(cn[sid[r]], t.email)
            /\ g # Unset => IF config.groupsSource = "jwt-claim"
                            THEN Lists(t, g) ELSE r \in fit

\* Nobody is refused without a reason: a request that denies its client has a
\* token that is not what the configuration asks for, or Cognito did not answer.
RefusedForCause ==
    \A r \in refused \ erred :
        LET t == tok[r]  g == config.requiredGroup
        IN  \/ ~HasClaims(t)
            \/ /\ config.albARN
               /\ \/ t.signedBy # t.kid \/ ~t.ecdsa \/ ~t.ours \/ ~t.issuedHere
                  \/ t.exp = None \/ now >= t.exp
            \/ config.cnCrossCheck /\ ~SamePerson(cn[sid[r]], t.email)
            \/ /\ g # Unset
               /\ IF config.groupsSource = "jwt-claim"
                  THEN ~(WellFormed(t.groups) /\ Lists(t, g)) ELSE ~Fit(t)

\* What the browser shows stays true: after the success page OpenVPN has
\* confirmed client-auth, and after "verification failed" no other request lets
\* the client in.
PageIsTrue ==
    \A r \in Reqs :
        /\ page[r] = "200" => sid[r] \in acked
        /\ page[r] = "403" => "allow" \notin decided[sid[r]]

\* A link leads to its session as long as it is valid, unless the attempt has
\* been answered or given up: the reaper does not take the session before
\* (ExpiresAt and the expiry in the state are set from two different options).
LookupOutlivesState ==
    \A s \in inFlight :
        status[s] = "absent" => now > created[s] + config.authTimeout

\* However a request ends - early return, failed fetch, cancelled context, lost
\* response - it lets go of the session it has claimed.
ProcessingEnds == []<>(\A s \in Sids : status[s] # "PROCESSING")

Store == INSTANCE SessionStore

\* The checks use the session store as its protocol says: one answer for each
\* session, and a session is given back unanswered.
ImplementsSessionStore == Store!StoreSpec
=============================================================================
