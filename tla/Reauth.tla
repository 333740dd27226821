------------------------------- MODULE Reauth -------------------------------
(***************************************************************************)
(* REAUTH: handleReauth and finishReauth (internal/auth/handler.go), the   *)
(* ReauthCache and cognito.Checker.CheckUser, for one established client   *)
(* and its account.  Every REAUTH event runs in a goroutine of its own, so *)
(* checks overlap, finish out of order and meet an account, a session and  *)
(* a cache entry that have changed since they started.                     *)
(*                                                                         *)
(* Time is a counter.  Cognito calls end within ReauthTimeout; steps of    *)
(* the daemon between two calls take no time.                              *)
(***************************************************************************)
EXTENDS Naturals

CONSTANTS
    Gs,                 \* REAUTH goroutines
    None,               \* nil / no entry
    ReauthTimeout,      \* --reauth-timeout
    Ttl,                \* lifetime of a cache entry
    Configs,            \* configurations the daemon may be started with
    MaxTime             \* bound on the clock

ASSUME ReauthAssumption ==
    /\ {ReauthTimeout, Ttl, MaxTime} \subseteq Nat
    /\ Configs \subseteq [max : Nat, cache : BOOLEAN, skip : BOOLEAN,
                          group : BOOLEAN]
    /\ None \notin Nat
    /\ None \notin [exists : BOOLEAN, enabled : BOOLEAN, inGroup : BOOLEAN,
                     checkedAt : Nat]

VARIABLES
    cfg,                \* the configuration; it never changes
    now,
    account, inGroup,   \* the user in Cognito
    expiry,             \* connectedAt of cidState.expiry, or None
    cache,              \* the cache entry of the user, or None
    gpc, result, exp,   \* goroutines: step, result so far, session start read
    answer,             \* what the goroutine sent
    \* history
    lastOk, lastIn      \* last time the account was enabled / in the group

vars == <<cfg, now, account, inGroup, expiry, cache, gpc, result, exp, answer,
          lastOk, lastIn>>

MaxSessionDuration == cfg.max   \* --max-session-duration, 0: unlimited
ReauthCache == cfg.cache        \* --reauth-cache
SkipReauth == cfg.skip          \* --cognito-skip-reauth
CheckGroup == cfg.group         \* --check-required-group-on-reauth

Times == 0 .. MaxTime
Accounts == {"enabled", "disabled", "missing"}
Results == [exists : BOOLEAN, enabled : BOOLEAN, inGroup : BOOLEAN,
            checkedAt : Times]
Calling == {"getUser", "listGroups"}
NoResult == [exists |-> FALSE, enabled |-> FALSE, inGroup |-> FALSE,
             checkedAt |-> 0]

TypeOK ==
    /\ cfg \in Configs
    /\ now \in Times
    /\ account \in Accounts
    /\ inGroup \in BOOLEAN
    /\ expiry \in Times \cup {None}
    /\ cache \in Results \cup {None}
    /\ gpc \in [Gs -> {"idle", "put", "finish", "cache", "evict", "done"}
                      \cup Calling]
    /\ result \in [Gs -> Results]
    /\ exp \in [Gs -> Times \cup {None}]
    /\ answer \in [Gs -> {"none", "allow", "cached", "skipped", "deny"}]
    /\ lastOk \in Times
    /\ lastIn \in Times

\* The client has just been established.
Init ==
    /\ cfg \in Configs
    /\ now = 0
    /\ account = "enabled"
    /\ inGroup = TRUE
    /\ expiry = IF MaxSessionDuration > 0 THEN 0 ELSE None
    /\ cache = None
    /\ gpc = [g \in Gs |-> "idle"]
    /\ result = [g \in Gs |-> NoResult]
    /\ exp = [g \in Gs |-> None]
    /\ answer = [g \in Gs |-> "none"]
    /\ lastOk = 0
    /\ lastIn = 0

-----------------------------------------------------------------------------
(* The world outside. *)

\* Time passes while nothing but Cognito calls within their deadline runs.
Tick ==
    /\ now < MaxTime
    /\ \A g \in Gs : /\ gpc[g] \in {"idle", "done"} \cup Calling
                     /\ gpc[g] \in Calling
                            => now < result[g].checkedAt + ReauthTimeout
    /\ now' = now + 1
    /\ lastOk' = IF account = "enabled" THEN now + 1 ELSE lastOk
    /\ lastIn' = IF inGroup THEN now + 1 ELSE lastIn
    /\ UNCHANGED <<cfg, account, inGroup, expiry, cache, gpc, result, exp,
                   answer>>

\* An administrator changes the user.
ChangeAccount ==
    /\ account' \in Accounts \ {account}
    /\ lastOk' = IF account' = "enabled" THEN now ELSE lastOk
    /\ UNCHANGED <<cfg, now, inGroup, expiry, cache, gpc, result, exp, answer,
                   lastIn>>

ChangeGroup ==
    /\ inGroup' = ~inGroup
    /\ lastIn' = IF inGroup' THEN now ELSE lastIn
    /\ UNCHANGED <<cfg, now, account, expiry, cache, gpc, result, exp, answer,
                   lastOk>>

\* DISCONNECT, or a replacement: the expiry entry of the CID goes.
LoseTracking ==
    /\ expiry # None
    /\ expiry' = None
    /\ UNCHANGED <<cfg, now, account, inGroup, cache, gpc, result, exp, answer,
                   lastOk, lastIn>>

-----------------------------------------------------------------------------
(* handleReauth. *)

Go(g, pc) == gpc' = [gpc EXCEPT ![g] = pc]
Send(g, a) == Go(g, "done") /\ answer' = [answer EXCEPT ![g] = a]

\* Mutant: only sessions that are tracked are measured.
BackstopOnlyTracked ==
    /\ MaxSessionDuration > 0
    /\ expiry # None
    /\ now - expiry > MaxSessionDuration

\* The session backstop: no tracking, or older than the maximal duration.
Backstop ==
    /\ MaxSessionDuration > 0
    /\ expiry # None => now - expiry > MaxSessionDuration

\* Mutant: the result is stamped with the deadline of the check.
StampsDeadline == now + ReauthTimeout

\* The result is stamped before the first call to Cognito.
Stamp == now

\* The backstop comes before skip-reauth, Cognito and the cache.
ReauthStart(g) ==
    /\ gpc[g] = "idle"
    /\ exp' = [exp EXCEPT ![g] = expiry]
    /\ \/ Backstop /\ Send(g, "deny") /\ UNCHANGED result
       \/ ~Backstop /\ SkipReauth /\ Send(g, "skipped") /\ UNCHANGED result
       \/ /\ ~Backstop /\ ~SkipReauth
          /\ Go(g, "getUser")
          /\ result' = [result EXCEPT ![g].checkedAt = Stamp]
          /\ UNCHANGED answer
    /\ UNCHANGED <<cfg, now, account, inGroup, expiry, cache, lastOk, lastIn>>

\* CheckUser: AdminGetUser, then the groups if they are to be checked.
GetUser(g) ==
    /\ gpc[g] = "getUser"
    /\ result' = [result EXCEPT ![g].exists = account # "missing",
                                ![g].enabled = account = "enabled",
                                ![g].inGroup = account # "missing"
                                               /\ ~CheckGroup]
    /\ Go(g, IF account # "missing" /\ CheckGroup THEN "listGroups" ELSE "put")
    /\ UNCHANGED <<cfg, now, account, inGroup, expiry, cache, exp, answer,
                   lastOk, lastIn>>

ListGroups(g) ==
    /\ gpc[g] = "listGroups"
    /\ result' = [result EXCEPT ![g].inGroup = inGroup]
    /\ Go(g, "put")
    /\ UNCHANGED <<cfg, now, account, inGroup, expiry, cache, exp, answer,
                   lastOk, lastIn>>

\* A call fails, at the latest when its context times out.
CheckFails(g) ==
    /\ gpc[g] \in Calling
    /\ Go(g, "cache")
    /\ UNCHANGED <<cfg, now, account, inGroup, expiry, cache, result, exp,
                   answer, lastOk, lastIn>>

\* Mutant: the entry is as old as its storing, not its check.
PutStampsNow(g) ==
    /\ gpc[g] = "put"
    /\ cache' = IF ReauthCache THEN [result[g] EXCEPT !.checkedAt = now]
                ELSE cache
    /\ Go(g, "finish")
    /\ UNCHANGED <<cfg, now, account, inGroup, expiry, result, exp, answer,
                   lastOk, lastIn>>

\* Whatever the check found replaces the entry, newer or not.
Put(g) ==
    /\ gpc[g] = "put"
    /\ cache' = IF ReauthCache THEN result[g] ELSE cache
    /\ Go(g, "finish")
    /\ UNCHANGED <<cfg, now, account, inGroup, expiry, result, exp, answer,
                   lastOk, lastIn>>

Passes(res) == res.exists /\ res.enabled /\ (CheckGroup => res.inGroup)

FinishReauth(g) ==
    /\ gpc[g] = "finish"
    /\ Send(g, IF Passes(result[g]) THEN "allow" ELSE "deny")
    /\ UNCHANGED <<cfg, now, account, inGroup, expiry, cache, result, exp,
                   lastOk, lastIn>>

Stale(entry) == now - entry.checkedAt > Ttl

\* Cognito is not available: the cache decides.
CacheGet(g) ==
    /\ gpc[g] = "cache"
    /\ \/ cache = None /\ Send(g, "deny")
       \/ /\ cache # None /\ Stale(cache)
          /\ Go(g, "evict") /\ UNCHANGED answer
       \/ /\ cache # None /\ ~Stale(cache)
          /\ Send(g, IF Passes(cache) THEN "cached" ELSE "deny")
    /\ UNCHANGED <<cfg, now, account, inGroup, expiry, cache, result, exp,
                   lastOk, lastIn>>

\* Mutant: the entry is dropped without looking again.
EvictUnchecked(g) ==
    /\ gpc[g] = "evict"
    /\ cache' = None
    /\ Send(g, "deny")
    /\ UNCHANGED <<cfg, now, account, inGroup, expiry, result, exp, lastOk,
                   lastIn>>

\* A stale entry goes unless somebody has refreshed it meanwhile.
CacheEvict(g) ==
    /\ gpc[g] = "evict"
    /\ cache' = IF cache # None /\ Stale(cache) THEN None ELSE cache
    /\ Send(g, "deny")
    /\ UNCHANGED <<cfg, now, account, inGroup, expiry, result, exp, lastOk,
                   lastIn>>

ReauthStep(g) ==
    \/ GetUser(g) \/ ListGroups(g) \/ CheckFails(g)
    \/ Put(g) \/ FinishReauth(g) \/ CacheGet(g) \/ CacheEvict(g)

Next ==
    \/ Tick \/ ChangeAccount \/ ChangeGroup \/ LoseTracking
    \/ \E g \in Gs : ReauthStart(g) \/ ReauthStep(g)

Spec == Init /\ [][Next]_vars

-----------------------------------------------------------------------------
(* Properties. *)

\* The step in which g sends a positive answer of the given kinds.
Sends(g, kinds) == answer[g] = "none" /\ answer'[g] \in kinds

\* A revocation takes effect: a client is let go on only if its account was
\* enabled, and in the group where that is checked, at some moment of the
\* Cognito timeout before a fresh answer or of the lifetime of the cache entry
\* before a cached one, however overlapping checks overwrite the entry
\* (CheckUser, ReauthCache.Put, ReauthCache.Get).
RevocationTakesEffect ==
    [][\A g \in Gs :
          /\ Sends(g, {"allow"}) =>
                /\ now - lastOk <= ReauthTimeout
                /\ CheckGroup => now - lastIn <= ReauthTimeout
          /\ Sends(g, {"cached"}) =>
                /\ now - lastOk <= Ttl
                /\ CheckGroup => now - lastIn <= Ttl]_vars

\* With a maximal session duration no REAUTH is granted, not even by
\* skip-reauth or the cache, to a session that was untracked or over when the
\* REAUTH came in; the answer is late by one Cognito timeout at most.
BackstopHolds ==
    [][\A g \in Gs :
          MaxSessionDuration > 0 /\ Sends(g, {"allow", "cached", "skipped"}) =>
              LET start == IF answer'[g] = "skipped" THEN expiry ELSE exp[g]
              IN  /\ start # None
                  /\ now - start <= MaxSessionDuration + ReauthTimeout]_vars

\* ReauthCache.Get drops no entry that is still valid, although it decides
\* under the read lock and deletes under the write lock.
ValidEntryKept ==
    [][cache # None /\ cache' = None => Stale(cache)]_vars
=============================================================================
