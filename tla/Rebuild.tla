------------------------------ MODULE Rebuild ------------------------------
(***************************************************************************)
(* Losing and regaining the management socket: the bootstrap of            *)
(* handleConnection (internal/app/daemon.go) with                          *)
(* RebuildSessionTrackingFromSnapshot and what it works on in auth.Handler *)
(* (internal/auth/handler.go).                                             *)
(*                                                                         *)
(* Events emitted while nobody is connected are lost.  On a new connection *)
(* events are buffered, a status snapshot is taken at some moment, tracking*)
(* is rebuilt from it, the buffered events (older and newer than the       *)
(* snapshot) are replayed and then the evictions still needed are sent.    *)
(*                                                                         *)
(* OpenVPN itself may be restarted, too: the new process hands out the     *)
(* same CIDs again, to other clients.                                      *)
(*                                                                         *)
(* Handlers are atomic here; their interleavings are the subject of        *)
(* AuthHandler.  CIDs are numbers, handed out in order by each process.    *)
(***************************************************************************)
EXTENDS Integers, Sequences, FiniteSets

CONSTANTS
    NCids,              \* number of clients
    Identities,         \* normalized identities
    IdentityOf,         \* the normalized identity of the CN of a process's CID
    None,               \* no entry
    MaxTime,            \* bound on the clock (connected since, in seconds)
    MaxSessionDuration, \* TRUE iff --max-session-duration > 0
    MaxLosses,          \* bound on lost connections
    MaxRestarts,        \* bound on restarts of OpenVPN
    Faults              \* faults that may happen

Cids == 1 .. NCids
Procs == 0 .. MaxRestarts   \* OpenVPN processes, one after the other

FaultKinds == {"ackLost",   \* client-auth works, its response is lost
               "restart",   \* the daemon is restarted
               "lag",       \* a client authenticates while the event loop has
                            \* yet to handle an ESTABLISHED of its identity
               "lateDeadline"}  \* the promotion deadline of a client comes
                                \* after a rebuild has found it established

ASSUME RebuildAssumption ==
    /\ {NCids, MaxTime, MaxLosses, MaxRestarts} \subseteq Nat
    /\ IdentityOf \in [Procs -> [Cids -> Identities]]
    /\ None \notin Nat
    /\ MaxSessionDuration \in BOOLEAN
    /\ Faults \subseteq FaultKinds

VARIABLES
    proc,           \* the running OpenVPN process
    vpn, since,     \* life of its clients, time of their connect
    closing,        \* clients told to go and still there
    now, expired,   \* clock; clients older than the maximal duration
    link, losses,   \* management connection; connections lost so far
    events,         \* notifications the daemon has not handled
    snap,           \* the status snapshot of the bootstrap
    todo,           \* how many of the events are buffered for replay
    evictions,      \* evictions not yet sent
    cids, attempt, active,  \* as in AuthHandler
    born,           \* the process whose client an entry of cids describes
    timers,         \* clients whose expiry timer runs
    lost,           \* goroutines whose entry has been overwritten
    wasUp, orphans, \* history: clients that have been established; clients
                    \* whose entry went with a restart of the daemon while
                    \* they authenticated, or that never had one and were
                    \* authorized by the callback of an overwritten session
    calm            \* history: no fault and no restart so far

handlerVars == <<cids, attempt, active, born, timers, lost>>
bootVars == <<link, losses, snap, todo, evictions>>
lifeVars == <<proc, vpn, since, now, expired, wasUp, orphans>>
vpnVars == <<lifeVars, calm>>
vars == <<vpnVars, closing, events, handlerVars, bootVars>>

OptCid == Cids \cup {None}
Present == {"pending", "authed", "up"}
\* "failed" stands for an in-flight session that has been decided, "deadline"
\* for promotedCancel.
Flags == {"tracked", "cancel", "failed", "promoted", "deadline", "established",
          "evictionRequested", "expiry"}
\* authTimeout of a pending and of a decided session, waitForPromotedDeadline,
\* sessionExpiryTimer.
Goroutines == {"auth", "idle", "deadline", "expiry"} \X Cids
Rows == {"absent", "pending", "established"}
Events == [type : {"CONNECT", "ESTABLISHED", "DISCONNECT"}, cid : Cids]

\* Of the client OpenVPN has now.
Identity(c) == IdentityOf[proc][c]

TypeOK ==
    /\ proc \in Procs /\ born \in [Cids -> Procs] /\ lost \subseteq Goroutines
    /\ vpn \in [Cids -> Present \cup {"none", "gone"}]
    /\ since \in [Cids -> 0 .. MaxTime] /\ now \in 0 .. MaxTime
    /\ closing \subseteq Cids /\ expired \subseteq Cids /\ timers \subseteq Cids
    /\ wasUp \subseteq Cids /\ orphans \subseteq Cids /\ calm \in BOOLEAN
    /\ link \in {"down", "boot", "snapped", "replay", "live"}
    /\ losses \in 0 .. MaxLosses
    /\ events \in Seq(Events)
    /\ snap \in [Cids -> Rows]
    /\ todo \in 0 .. Len(events)
    /\ evictions \subseteq Cids
    /\ cids \in [Cids -> SUBSET Flags]
    /\ attempt \in [Identities -> OptCid] /\ active \in [Identities -> OptCid]

Init ==
    /\ proc = 0 /\ born = [c \in Cids |-> 0] /\ lost = {}
    /\ vpn = [c \in Cids |-> "none"] /\ since = [c \in Cids |-> 0]
    /\ closing = {} /\ now = 0 /\ expired = {}
    /\ link = "live" /\ losses = 0
    /\ events = <<>> /\ todo = 0 /\ evictions = {}
    /\ snap = [c \in Cids |-> "absent"]
    /\ cids = [c \in Cids |-> {}]
    /\ attempt = [i \in Identities |-> None]
    /\ active = [i \in Identities |-> None]
    /\ timers = {} /\ wasUp = {} /\ orphans = {} /\ calm = TRUE

-----------------------------------------------------------------------------
(* OpenVPN. *)

Notify(type, c) ==
    events' = IF link = "down" THEN events
              ELSE Append(events, [type |-> type, cid |-> c])

\* Only the order of the connects matters: a second passes between two.
Tick ==
    /\ now < MaxTime
    /\ \E c \in Cids : vpn[c] # "none" /\ since[c] = now
    /\ \E c \in Cids : vpn[c] = "none"
    /\ now' = now + 1
    /\ UNCHANGED <<proc, vpn, since, closing, expired, wasUp, orphans, calm,
                   events, handlerVars, bootVars>>

VpnConnect(c) ==
    /\ vpn[c] = "none" /\ \A d \in 1 .. c - 1 : vpn[d] # "none"
    /\ vpn' = [vpn EXCEPT ![c] = "pending"]
    /\ since' = [since EXCEPT ![c] = now]
    /\ Notify("CONNECT", c)
    /\ UNCHANGED <<proc, closing, now, expired, wasUp, orphans, calm,
                   handlerVars, bootVars>>

VpnEstablish(c) ==
    /\ vpn[c] = "authed" /\ c \notin closing
    /\ vpn' = [vpn EXCEPT ![c] = "up"]
    /\ wasUp' = wasUp \cup {c}
    /\ Notify("ESTABLISHED", c)
    /\ UNCHANGED <<proc, since, closing, now, expired, orphans, calm,
                   handlerVars, bootVars>>

VpnLeave(c) ==
    /\ vpn[c] \in Present
    /\ vpn' = [vpn EXCEPT ![c] = "gone"]
    /\ closing' = closing \ {c}
    /\ expired' = expired \ {c} /\ orphans' = orphans \ {c}
    /\ Notify("DISCONNECT", c)
    /\ UNCHANGED <<proc, since, now, wasUp, calm, handlerVars, bootVars>>

\* A session reaches its maximal duration, the older one first.
Expire(c) ==
    /\ MaxSessionDuration
    /\ vpn[c] = "up" /\ c \notin expired
    /\ \A d \in Cids : vpn[d] = "up" /\ since[d] < since[c] => d \in expired
    /\ expired' = expired \cup {c}
    /\ UNCHANGED <<proc, vpn, since, closing, now, wasUp, orphans, calm, events,
                   handlerVars, bootVars>>

-----------------------------------------------------------------------------
(* auth.Handler.  h is a record of the handler's variables; these operators *)
(* give the record after the operation.                                     *)

Handler == [cids |-> cids, attempt |-> attempt, active |-> active,
            born |-> born, timers |-> timers, lost |-> lost]

\* k is h, computed once.
Becomes(h) ==
    \E k \in {h} :
        /\ cids' = k.cids /\ attempt' = k.attempt /\ active' = k.active
        /\ born' = k.born /\ timers' = k.timers /\ lost' = k.lost

\* The identity in the entry of a CID, which may be that of a client of an
\* earlier process.
Owner(h, c) == IdentityOf[h.born[c]][c]

\* An index without the CIDs S, for the identities in their entries.
Forget(h, index, S) ==
    [i \in Identities |->
        IF index[i] \in S /\ Owner(h, index[i]) = i THEN None ELSE index[i]]

\* handleDisconnect, and the pruning of the rebuild.
Drop(h, T) ==
    LET S == {c \in T : h.cids[c] # {}}
    IN  [h EXCEPT !.cids = [c \in Cids |-> IF c \in S THEN {} ELSE @[c]],
                  !.attempt = Forget(h, @, S), !.active = Forget(h, @, S),
                  !.born = [c \in Cids |-> IF c \in S THEN 0 ELSE @[c]],
                  !.timers = @ \ S]

\* cleanupPromoted.
CleanupPromoted(h, c) ==
    IF "promoted" \notin h.cids[c] THEN h
    ELSE [h EXCEPT !.cids[c] = {}, !.attempt = Forget(h, @, {c}),
                   !.born[c] = 0]

Promote(h, c) ==
    IF "cancel" \notin h.cids[c] THEN h
    ELSE [h EXCEPT !.cids[c] = (@ \ {"cancel", "failed"})
                               \cup {"promoted", "deadline"}]

\* clearInFlight.
ClearInFlight(h, c) ==
    [h EXCEPT !.cids[c] = @ \ {"cancel", "failed"},
              !.attempt = IF h.cids[c] = {} \/ "promoted" \in h.cids[c] THEN @
                          ELSE Forget(h, @, {c})]

InFlight(h, c) ==
    IF "cancel" \notin h.cids[c] THEN {}
    ELSE {<<IF "failed" \in h.cids[c] THEN "idle" ELSE "auth", c>>}

\* The new entry replaces one that is there already without cancelling
\* anything.
Admit(h, c) ==
    [h EXCEPT !.cids[c] = {"tracked", "cancel"}, !.born[c] = proc,
              !.attempt[Identity(c)] = c, !.timers = @ \ {c},
              !.lost = @ \cup InFlight(h, c)
                       \cup {<<"deadline", d>> : d \in {c} \cap
                                {e \in Cids : "deadline" \in h.cids[e]}}
                       \cup {<<"expiry", d>> : d \in {c} \cap h.timers}]

\* The CID establishCID replaces.
Replaced(h, c) ==
    IF h.cids[c] = {} THEN {} ELSE {h.active[Owner(h, c)]} \ {None, c}

\* establishCID up to the kill: c owns its identity, the replaced CID is marked
\* and loses its timer.
TakeOver(h, c, auth) ==
    LET old == Replaced(h, c)
        timed == /\ MaxSessionDuration
                 /\ "promoted" \in h.cids[c] \/ auth
                 /\ "established" \notin h.cids[c]
        marked(d) == (h.cids[d] \ {"expiry"}) \cup {"evictionRequested"}
        flags == (h.cids[c] \ {"promoted", "deadline"}) \cup {"established"}
                 \cup (IF timed THEN {"expiry"} ELSE {})
    IN  IF h.cids[c] = {} THEN h
        ELSE [h EXCEPT
                !.cids = [d \in Cids |->
                    IF d = c THEN flags
                    ELSE IF d \in old /\ h.cids[d] # {} THEN marked(d)
                    ELSE h.cids[d]],
                !.attempt = Forget(h, @, {c}),
                !.active[Owner(h, c)] = c,
                !.timers = (@ \ old) \cup (IF timed THEN {c} ELSE {})]

\* establishCID: a replaced CID OpenVPN does not know any more is dropped
\* instead of killed (killReplacedActive).
Establish(h, c, auth) ==
    Drop(TakeOver(h, c, auth), {d \in Replaced(h, c) : vpn[d] \notin Present})

\* OpenVPN is told to let go of the clients S.
Close(S) == closing' = closing \cup {c \in S : vpn[c] \in Present}

\* client-deny concerns a client that is still authenticating.
Pending(S) == {c \in S : vpn[c] = "pending"}

\* handleConnect.
HandleConnect(c) ==
    LET old == attempt[Identity(c)]
        held == IF old = None THEN {} ELSE cids[old]
    IN  \/ old = c /\ UNCHANGED handlerVars /\ Close({})
        \/ /\ old # c /\ held \cap {"cancel", "promoted"} = {}
           /\ Becomes(Admit(Handler, c)) /\ Close({})
        \/ /\ old # c /\ "cancel" \in held /\ "failed" \notin held
           /\ Becomes(Admit(ClearInFlight(Handler, old), c))
           /\ Close(Pending({old}))
        \/ /\ old # c /\ "failed" \in held
           /\ UNCHANGED handlerVars /\ Close({c})
        \/ /\ old # c /\ "promoted" \in held /\ vpn[old] \notin Present
           /\ Becomes(Admit(CleanupPromoted(Handler, old), c)) /\ Close({})
        \/ /\ old # c /\ "promoted" \in held /\ vpn[old] \in {"pending", "authed"}
           /\ UNCHANGED handlerVars /\ Close({c})
        \/ /\ old # c /\ "promoted" \in held /\ vpn[old] = "up"
           /\ Becomes(Establish(Handler, old, TRUE))
           /\ Close({c} \cup Replaced(Handler, old))

HandleEvent(e) ==
    \/ e.type = "CONNECT" /\ HandleConnect(e.cid)
    \/ /\ e.type = "ESTABLISHED"
       /\ \E h \in {Promote(Handler, e.cid)} :
            Becomes(Establish(h, e.cid, FALSE)) /\ Close(Replaced(h, e.cid))
    \/ e.type = "DISCONNECT" /\ Becomes(Drop(Handler, {e.cid})) /\ Close({})

\* Bootstrap is over and every notification handled.
Quiet == link = "live" /\ events = <<>>

\* The event loop has no ESTABLISHED of c's identity to handle.
UpToDate(c) ==
    \A i \in DOMAIN events :
        events[i].type = "ESTABLISHED" => Identity(events[i].cid) # Identity(c)

\* The forwarder writes commands, from the rebuild on.
Forwarding == link \in {"replay", "live"}

\* The callback: client-auth is sent and, unless its response is lost,
\* MarkAuthenticated promotes the CID.
Authorize(c) ==
    /\ Forwarding
    /\ UpToDate(c) \/ "lag" \in Faults
    /\ vpn[c] = "pending" /\ c \notin closing
    /\ "cancel" \in cids[c] /\ "failed" \notin cids[c]
    /\ vpn' = [vpn EXCEPT ![c] = "authed"]
    /\ \/ Becomes(Promote(Handler, c)) /\ calm' = (calm /\ UpToDate(c))
       \/ /\ "ackLost" \in Faults /\ calm' = FALSE
          /\ Becomes([Handler EXCEPT !.cids[c] = @ \cup {"failed"}])
    /\ UNCHANGED <<proc, since, closing, now, expired, wasUp, orphans, events,
                   bootVars>>

\* authTimeout; the deny reaches OpenVPN on a live connection.
AuthTimeout(c) ==
    /\ "cancel" \in cids[c]
    /\ Becomes(ClearInFlight(Handler, c))
    /\ Close(IF Forwarding /\ "failed" \notin cids[c] THEN Pending({c})
             ELSE {})
    /\ UNCHANGED <<vpnVars, events, bootVars>>

\* What waitForPromotedDeadline does with a status: h is the handler without
\* the goroutine.
Reconcile(h, c) ==
    \/ /\ vpn[c] \notin Present
       /\ Becomes(CleanupPromoted(h, c)) /\ Close({})
    \/ /\ vpn[c] = "up"
       /\ Becomes(Establish(h, c, TRUE)) /\ Close(Replaced(h, c))
    \/ /\ vpn[c] \in {"pending", "authed"}
       /\ Becomes(h) /\ Close(IF "promoted" \in h.cids[c] THEN {c} ELSE {})

\* waitForPromotedDeadline: without a connection it just ends.  The event loop
\* is not behind by a whole hand window.  The rebuild does not cancel it.
PromotedDeadline(c) ==
    LET h == [Handler EXCEPT !.cids[c] = @ \ {"deadline"}]
    IN  /\ "deadline" \in cids[c]
        /\ "promoted" \in cids[c] \/ "lateDeadline" \in Faults
        /\ \/ Quiet /\ Reconcile(h, c)
           \/ link = "down" /\ Becomes(h) /\ Close({})
        /\ calm' = (calm /\ "promoted" \in cids[c])
        /\ UNCHANGED <<lifeVars, events, bootVars>>

\* sessionExpiryTimer fires once; without a connection it does nothing.
ExpiryFires(c) ==
    /\ c \in timers \cap expired
    /\ timers' = timers \ {c}
    /\ Close(IF Forwarding THEN {c} ELSE {})
    /\ UNCHANGED <<vpnVars, events, cids, attempt, active, born, lost,
                   bootVars>>

-----------------------------------------------------------------------------
(* Goroutines and the session of an entry that another client's CONNECT has *)
(* overwritten.  They work on the entry that has the CID now.               *)

Without(g) == [Handler EXCEPT !.lost = @ \ {g}]

\* The callback of the old session; OpenVPN takes it for the client that has
\* the CID now, or refuses the key ID.
LostAuthorize(c) ==
    LET h == [Without(<<"auth", c>>) EXCEPT !.lost = @ \cup {<<"idle", c>>}]
    IN  /\ <<"auth", c>> \in lost /\ Forwarding
        /\ \/ /\ vpn[c] = "pending" /\ c \notin closing
              /\ vpn' = [vpn EXCEPT ![c] = "authed"]
              /\ orphans' = orphans \cup {d \in {c} : cids[d] = {}}
              /\ Becomes(Promote(h, c))
           \/ UNCHANGED <<vpn, orphans>> /\ Becomes(h)
        /\ UNCHANGED <<proc, since, closing, now, expired, wasUp, calm, events,
                       bootVars>>

\* authTimeout: clearInFlight leaves the present authTimeout without its entry.
LostTimeout(c) ==
    /\ \E g \in lost \cap ({"auth", "idle"} \X {c}) :
        /\ LET h == ClearInFlight(Without(g), c)
           IN  Becomes([h EXCEPT !.lost = @ \cup InFlight(Handler, c)])
        /\ Close(IF g[1] = "auth" /\ Forwarding THEN Pending({c}) ELSE {})
    /\ UNCHANGED <<vpnVars, events, bootVars>>

LostDeadline(c) ==
    /\ <<"deadline", c>> \in lost
    /\ \/ Quiet /\ Reconcile(Without(<<"deadline", c>>), c)
       \/ link = "down" /\ Becomes(Without(<<"deadline", c>>)) /\ Close({})
    /\ UNCHANGED <<vpnVars, events, bootVars>>

LostExpiry(c) ==
    /\ <<"expiry", c>> \in lost
    /\ Becomes(Without(<<"expiry", c>>))
    /\ Close(IF "expiry" \in cids[c] /\ Forwarding THEN {c} ELSE {})
    /\ UNCHANGED <<vpnVars, events, bootVars>>

-----------------------------------------------------------------------------
(* handleConnection. *)

LinkDown ==
    /\ losses < MaxLosses /\ losses' = losses + 1
    /\ link' = "down"
    /\ events' = <<>> /\ todo' = 0 /\ evictions' = {}
    /\ snap' = [c \in Cids |-> "absent"]

\* The socket breaks, at any point of the bootstrap too.
LinkLost ==
    /\ link # "down"
    /\ LinkDown
    /\ UNCHANGED <<vpnVars, closing, handlerVars>>

\* The socket breaks when an establishment has changed the owner and the kill
\* of the replaced client is still to be written: in the event loop,
EventCut ==
    /\ events # <<>> /\ (link = "replay" => todo > 0) /\ Forwarding
    /\ LET e == Head(events)
           old == attempt[Identity(e.cid)]
       IN  \/ /\ e.type = "ESTABLISHED"
              /\ Becomes(TakeOver(Promote(Handler, e.cid), e.cid, FALSE))
           \/ /\ e.type = "CONNECT" /\ old \notin {e.cid, None}
              /\ "promoted" \in cids[old] /\ vpn[old] = "up"
              /\ Becomes(TakeOver(Handler, old, TRUE))
    /\ LinkDown
    /\ UNCHANGED <<vpnVars, closing>>

\* and in the deadline goroutine.
DeadlineCut(c) ==
    /\ Quiet /\ vpn[c] = "up"
    /\ \/ /\ "deadline" \in cids[c]
          /\ "promoted" \in cids[c] \/ "lateDeadline" \in Faults
          /\ calm' = (calm /\ "promoted" \in cids[c])
          /\ Becomes(TakeOver([Handler EXCEPT !.cids[c] = @ \ {"deadline"}],
                              c, TRUE))
       \/ /\ <<"deadline", c>> \in lost /\ UNCHANGED calm
          /\ Becomes(TakeOver(Without(<<"deadline", c>>), c, TRUE))
    /\ LinkDown
    /\ UNCHANGED <<lifeVars, closing>>

\* A new process: no client, and CIDs from the start.
VpnRestart ==
    /\ proc < MaxRestarts
    /\ proc' = proc + 1
    /\ vpn' = [c \in Cids |-> "none"] /\ since' = [c \in Cids |-> 0]
    /\ closing' = {} /\ expired' = {} /\ wasUp' = {} /\ orphans' = {}
    /\ calm' = FALSE
    /\ LinkDown
    /\ UNCHANGED <<now, handlerVars>>

DaemonRestart ==
    /\ "restart" \in Faults
    /\ LinkDown
    /\ cids' = [c \in Cids |-> {}] /\ timers' = {}
    /\ born' = [c \in Cids |-> 0] /\ lost' = {}
    /\ attempt' = [i \in Identities |-> None]
    /\ active' = [i \in Identities |-> None]
    /\ orphans' = orphans \cup {c \in Cids : vpn[c] \in {"pending", "authed"}}
    /\ calm' = FALSE
    /\ UNCHANGED <<proc, vpn, since, now, expired, wasUp, closing>>

Dial ==
    /\ link = "down"
    /\ link' = "boot"
    /\ UNCHANGED <<vpnVars, closing, events, handlerVars,
                   losses, snap, todo, evictions>>

\* Only a client with a virtual address is established.
Row(c) ==
    CASE vpn[c] \in {"none", "gone"} -> "absent"
      [] vpn[c] \in {"pending", "authed"} -> "pending"
      [] vpn[c] = "up" -> "established"

BootStatus ==
    /\ link = "boot"
    /\ link' = "snapped"
    /\ snap' = [c \in Cids |-> Row(c)]
    /\ UNCHANGED <<vpnVars, closing, events, handlerVars,
                   losses, todo, evictions>>

\* Mutant: the oldest session wins.
OlderStatusSession(d, c) == since[d] < since[c] \/ (since[d] = since[c] /\ d < c)

\* Connected later, or at the same second with the higher CID.
NewerStatusSession(d, c) == since[d] > since[c] \/ (since[d] = since[c] /\ d > c)

\* The established rows that lose against another row of their identity.
Losers ==
    {c \in Cids : /\ snap[c] = "established"
                  /\ \E d \in Cids : /\ snap[d] = "established"
                                     /\ Identity(d) = Identity(c)
                                     /\ NewerStatusSession(d, c)}

\* Mutant: rows that are tracked already are left as they are.
RestoreUntracked(h) ==
    LET up == {c \in Cids : snap[c] = "established" /\ h.cids[c] = {}}
        winner(i) == {c \in up \ Losers : Identity(c) = i}
        flags(c) == {"tracked", "established"}
                    \cup (IF MaxSessionDuration THEN {"expiry"} ELSE {})
    IN  [h EXCEPT !.cids = [c \in Cids |-> IF c \in up THEN flags(c) ELSE @[c]],
                  !.active = [i \in Identities |->
                        IF winner(i) = {} THEN @[i]
                        ELSE CHOOSE c \in winner(i) : TRUE]]

\* Every established row is tracked as established; the winner of an identity
\* owns it, losers and sessions over their duration are marked, the others get
\* an expiry timer.
Restore(h) ==
    LET up == {c \in Cids : snap[c] = "established"}
        over == IF MaxSessionDuration THEN up \cap expired ELSE {}
        winner(i) == {c \in up \ Losers : Identity(c) = i}
        flags(c) ==
            (h.cids[c] \ {"promoted"}) \cup {"tracked", "established"}
            \cup (IF c \in Losers \cup over THEN {"evictionRequested"} ELSE {})
            \cup (IF MaxSessionDuration THEN {"expiry"} ELSE {})
        owned == [h EXCEPT
                    !.cids = [c \in Cids |-> IF c \in up THEN flags(c) ELSE @[c]],
                    !.born = [c \in Cids |-> IF c \in up THEN proc ELSE @[c]]]
    IN  [owned EXCEPT
            !.attempt = Forget(owned, @, up),
            !.active = [i \in Identities |-> IF winner(i) = {} THEN @[i]
                                             ELSE CHOOSE c \in winner(i) : TRUE],
            !.timers = IF MaxSessionDuration THEN (@ \cup up) \ over ELSE @]

\* Mutant: CIDs the snapshot does not show are kept.
KeepStale == {}

\* Every tracked CID the snapshot does not show is pruned.
Stale == {c \in Cids : snap[c] = "absent"}

\* Mutant: duplicates are marked but not returned.
EvictOnlyExpired ==
    IF MaxSessionDuration
    THEN {c \in expired : snap[c] = "established"} ELSE {}

\* Mutant: expired sessions are marked but not returned.
EvictOnlyDuplicates == Losers

\* Duplicate and expired rows.
Evictions ==
    Losers \cup IF MaxSessionDuration
                THEN {c \in expired : snap[c] = "established"} ELSE {}

\* Mutant: the drain expects one event too many.
BufferedTooMany == Len(events) + 1

\* The notifications so far are buffered for replay.
Buffered == Len(events)

\* RebuildSessionTrackingFromSnapshot.
RebuildSessionTracking ==
    /\ link = "snapped"
    /\ link' = "replay"
    /\ todo' = Buffered
    /\ \E h \in {Drop(Handler, Stale)} : Becomes(Restore(h))
    /\ evictions' = Evictions /\ snap' = [c \in Cids |-> "absent"]
    /\ UNCHANGED <<vpnVars, closing, events, losses>>

\* Buffered events first; those behind them are handled by the event loop.
TakeEvent ==
    /\ \/ link = "replay" /\ todo > 0 /\ todo' = todo - 1
       \/ link = "live" /\ UNCHANGED todo
    /\ events # <<>> /\ events' = Tail(events)
    /\ HandleEvent(Head(events))
    /\ UNCHANGED <<vpnVars, link, losses, snap, evictions>>

\* ReconciledEvictionNeeded, the kill, and absence found after a failed kill.
SendEviction(c) ==
    /\ link = "replay" /\ todo = 0 /\ c \in evictions
    /\ evictions' = evictions \ {c}
    /\ \/ "evictionRequested" \notin cids[c] /\ Close({}) /\ UNCHANGED handlerVars
       \/ /\ "evictionRequested" \in cids[c] /\ vpn[c] \in Present
          /\ Close({c}) /\ UNCHANGED handlerVars
       \/ /\ "evictionRequested" \in cids[c] /\ vpn[c] \notin Present
          /\ Becomes(Drop(Handler, {c})) /\ Close({})
    /\ UNCHANGED <<vpnVars, events, link, losses, snap, todo>>

BootDone ==
    /\ link = "replay" /\ todo = 0 /\ evictions = {}
    /\ link' = "live"
    /\ UNCHANGED <<vpnVars, closing, events, handlerVars,
                   losses, snap, todo, evictions>>

Boot == \/ Dial \/ BootStatus \/ RebuildSessionTracking \/ TakeEvent
        \/ \E c \in Cids : SendEviction(c)
        \/ BootDone

Next ==
    \/ Tick \/ LinkLost \/ EventCut \/ DaemonRestart \/ VpnRestart \/ Boot
    \/ \E c \in Cids : \/ VpnConnect(c) \/ VpnEstablish(c) \/ VpnLeave(c)
                       \/ Expire(c) \/ Authorize(c) \/ AuthTimeout(c)
                       \/ PromotedDeadline(c) \/ DeadlineCut(c) \/ ExpiryFires(c)
                       \/ LostAuthorize(c) \/ LostTimeout(c)
                       \/ LostDeadline(c) \/ LostExpiry(c)

Spec == Init /\ [][Next]_vars

\* The daemon reconnects and works; timers fire; OpenVPN lets go of the clients
\* it was told to drop.
FairSpec ==
    /\ Spec
    /\ WF_vars(Boot)
    /\ WF_vars(\E c \in closing : VpnLeave(c))
    /\ WF_vars(\E c \in Cids : ExpiryFires(c))

-----------------------------------------------------------------------------
(* Properties. *)

\* A lost DISCONNECT leaves nothing behind: once the daemon has caught up it
\* tracks no client OpenVPN does not have (the pruning of the rebuild).
StaleReclaimed == Quiet => \A c \in Cids : cids[c] # {} => vpn[c] \in Present

\* Once the daemon has caught up it tracks every established client, whether
\* its ESTABLISHED event was seen, lost, or replayed after a snapshot that
\* showed it already.  Orphans are the exception, which AuthorizedTracked is
\* about: a client that a restarted daemon finds authenticating, or that is let
\* in by the callback of an overwritten session, is never tracked.
UpIsTracked ==
    Quiet => \A c \in Cids \ orphans :
                vpn[c] = "up" => "established" \in cids[c]

\* "pending rows restore attempt tracking" (docs/architecture.md): once the
\* daemon has caught up it tracks every client that has been let in, whether
\* the snapshot of the rebuild showed it established or still pending.
AuthorizedTracked ==
    Quiet => \A c \in Cids \ closing :
                vpn[c] \in {"authed", "up"} => cids[c] # {}

\* New wins, through lost connections too: an established client is told to go
\* only when its time is over or a newer client of its identity has been
\* established (winner selection, replayed ESTABLISHED events and evictions
\* together).  Faults and restarts can break it.
NewestKept ==
    calm => \A c \in closing :
                \/ vpn[c] # "up" \/ c \in expired
                \/ \E d \in wasUp : Identity(d) = Identity(c) /\ d > c

\* New wins, the other half: a client told to go (before its time is over)
\* leaves behind another established client of its identity that is not.
LeavesReplacement ==
    \A c \in closing' \ (closing \cup expired) :
        vpn[c] = "up" => \E d \in wasUp \ (closing' \ expired) :
                            d # c /\ Identity(d) = Identity(c)
ReplacementKept == [][LeavesReplacement]_vars

\* An identity ends up with one client: of two established clients one goes,
\* even if the connection is lost between the establishment of the newer and
\* the kill of the older, or the daemon or OpenVPN restarts (UpIsTracked names
\* the exception).
DuplicatesResolve ==
    []<>(\A c, d \in Cids \ orphans :
            c < d /\ Identity(c) = Identity(d) => vpn[c] # "up" \/ vpn[d] # "up")

\* A tracked session over its duration is disconnected even if its timer fired
\* while there was no connection to send the kill on, or it has been replaced
\* (Establish takes its timer away).  In a later process a reused CID can be
\* marked before its client is established, which then has no timer.
ExpiredGo ==
    []<>(\A c \in expired :
            /\ "expiry" \notin cids[c]
            /\ proc = 0 => "evictionRequested" \notin cids[c])

\* "All map entries and expiry timers are cleaned up": once the daemon has
\* caught up with a restarted OpenVPN, its entries describe clients of the
\* running process and no goroutine of an earlier one is left.
TrackingStartsFresh ==
    Quiet => /\ \A c \in Cids : cids[c] # {} => born[c] = proc
             /\ lost = {}
=============================================================================
