----------------------------- MODULE AuthHandler -----------------------------
(***************************************************************************)
(* The core of the daemon: auth.Handler (internal/auth/handler.go) with    *)
(* the goroutines that work on it concurrently, over one live management   *)
(* connection.                                                             *)
(*                                                                         *)
(*   Loop          the event loop, one CLIENT event after the other        *)
(*   timeout(c)    authTimeout of the CONNECT of CID c                     *)
(*   deadline(c)   waitForPromotedDeadline of CID c                        *)
(*   expiry(c)     sessionExpiryTimer of CID c                             *)
(*   r \in Reqs    one browser callback request (callback.Server)          *)
(*   OpenVPN       executes the queued commands and emits events           *)
(*                                                                         *)
(* A step is what runs between two points where another goroutine can get  *)
(* in: a section under Handler.mu together with the calls on the session   *)
(* store that commute with everybody else's, a hand-over to cmdCh, a wait  *)
(* for an acknowledgement, the taking of a status snapshot and, later, its *)
(* use.  CIDs are not reused within one OpenVPN process, so a session is   *)
(* named by the CID of its CONNECT.                                        *)
(***************************************************************************)
EXTENDS Naturals, Sequences, FiniteSets

CONSTANTS
    Cids,               \* client ids OpenVPN hands out
    Identities,         \* normalized identities
    IdentityOf,         \* the normalized identity of the CN of a CID
    Reqs,               \* browser callback requests
    Loop,               \* the event loop goroutine
    None,               \* nil / no entry
    Leavers,            \* clients that may go away by themselves
    QueueCap,           \* capacity of cmdCh
    MaxSessionDuration, \* TRUE iff --max-session-duration > 0
    Faults              \* which of the faults below may happen

FaultKinds == {"keyFetch",    \* the ALB public key cannot be fetched
               "slowSocket",  \* no answer, or no room in cmdCh, within 5s
               "status"}      \* a status request fails

ASSUME ConstantsAssumption ==
    /\ IdentityOf \in [Cids -> Identities]
    /\ Loop \notin Cids \cup Reqs
    /\ None \notin Cids \cup Reqs \cup {Loop}
    /\ Cids \cap Reqs = {}
    /\ Leavers \subseteq Cids
    /\ QueueCap \in Nat \ {0}
    /\ MaxSessionDuration \in BOOLEAN
    /\ Faults \subseteq FaultKinds

VARIABLES
    \* OpenVPN and the management socket
    vpn,        \* vpn[c]: life of the client
    closing,    \* clients told to go (denied or killed) and still there
    urls,       \* clients whose WEB_AUTH URL was delivered
    events,     \* notifications not yet taken by the event loop
    cmds,       \* cmdCh: commands not yet executed by OpenVPN
    ack,        \* ack[a]: the response to the command a waits for
    snap,       \* snap[a]: the status row a has read and not yet used
    \* state of the daemon
    sess,       \* SessionStore: status of the session of a CID
    cids,       \* Handler.cids: what the cidState of a CID holds
    attempt,    \* Handler.identityToAttemptCID
    active,     \* Handler.identityToActiveCID
    \* goroutines
    lpc, lold,  \* event loop: where it is in handleConnect, the other CID
    est,        \* est[a]: a's call of establishCID
    tpc,        \* authTimeout
    dpc, dctx,  \* waitForPromotedDeadline; CIDs whose promoted context lives
    xpc,        \* sessionExpiryTimer
    rpc, rsid,  \* callback requests and their sessions
    \* history
    decided     \* decided[c]: answers handed to the management socket

ovpnVars == <<vpn, closing, urls, events>>
loopVars == <<lpc, lold>>
goVars == <<tpc, dpc, dctx, xpc>>
reqVars == <<rpc, rsid>>
vars == <<vpn, closing, urls, events, cmds, ack, snap, sess, cids, attempt,
          active, lpc, lold, est, tpc, dpc, dctx, xpc, rpc, rsid, decided>>

Actors == Cids \cup {Loop}         \* deadline(c) is named by c
Waiters == Actors \cup Reqs
OptCid == Cids \cup {None}

\* The fields of cidState.  cancel and sid are set and cleared together.
Flags == {"tracked", "cancel", "promoted", "established",
          "evictionRequested", "expiry"}

VpnStates == {"none", "pending", "authed", "up", "gone"}
Present == {"pending", "authed", "up"}
EventTypes == {"CONNECT", "ESTABLISHED", "DISCONNECT"}
Events == [type : EventTypes, cid : Cids]
CmdTypes == {"pending", "allow", "deny", "kill"}
Cmds == [type : CmdTypes, cid : Cids, from : Waiters \cup {None}]
Rows == {"none", "failed", "absent", "pending", "established"}
SessionStates == {"absent", "PENDING", "PROCESSING", "DONE", "FAILED"}
LoopPcs == {"idle", "superseded", "pend", "deny", "status"}
TimeoutPcs == {"none", "wait", "cancelled", "won", "deny", "clear", "done"}
DeadlinePcs == {"none", "wait", "status1", "grace", "status2", "kill",
                "killsend", "killwait", "status3", "done"}
ExpiryPcs == {"none", "run", "kill", "done"}
RequestPcs == {"idle", "verify", "deny", "ackwait", "markdone", "failed",
               "done"}
EstPcs == {"none", "lock", "timer", "kill", "killwait", "status"}
Frames == [pc : EstPcs, cid : OptCid, old : OptCid, auth : BOOLEAN]
Idle == [pc |-> "none", cid |-> None, old |-> None, auth |-> FALSE]

TypeOK ==
    /\ vpn \in [Cids -> VpnStates]
    /\ closing \subseteq Cids
    /\ urls \subseteq Cids
    /\ events \in Seq(Events)
    /\ cmds \in Seq(Cmds)
    /\ ack \in [Waiters -> {"none", "ok", "err"}]
    /\ snap \in [Actors -> Rows]
    /\ sess \in [Cids -> SessionStates]
    /\ cids \in [Cids -> SUBSET Flags]
    /\ attempt \in [Identities -> OptCid]
    /\ active \in [Identities -> OptCid]
    /\ lpc \in LoopPcs
    /\ lold \in OptCid
    /\ est \in [Actors -> Frames]
    /\ tpc \in [Cids -> TimeoutPcs]
    /\ dpc \in [Cids -> DeadlinePcs]
    /\ dctx \subseteq Cids
    /\ xpc \in [Cids -> ExpiryPcs]
    /\ rpc \in [Reqs -> RequestPcs]
    /\ rsid \in [Reqs -> OptCid]
    /\ decided \in [Cids -> SUBSET {"allow", "deny"}]

Init ==
    /\ vpn = [c \in Cids |-> "none"]
    /\ closing = {}
    /\ urls = {}
    /\ events = <<>>
    /\ cmds = <<>>
    /\ ack = [a \in Waiters |-> "none"]
    /\ snap = [a \in Actors |-> "none"]
    /\ sess = [c \in Cids |-> "absent"]
    /\ cids = [c \in Cids |-> {}]
    /\ attempt = [i \in Identities |-> None]
    /\ active = [i \in Identities |-> None]
    /\ lpc = "idle" /\ lold = None
    /\ est = [a \in Actors |-> Idle]
    /\ tpc = [c \in Cids |-> "none"]
    /\ dpc = [c \in Cids |-> "none"]
    /\ dctx = {}
    /\ xpc = [c \in Cids |-> "none"]
    /\ rpc = [r \in Reqs |-> "idle"]
    /\ rsid = [r \in Reqs |-> None]
    /\ decided = [c \in Cids |-> {}]

-----------------------------------------------------------------------------
(* Steps shared by several goroutines. *)

Identity(c) == IdentityOf[c]
Held(c) == IF c = None THEN {} ELSE cids[c]

\* decisionSink and DaemonSink hand a command to the shared channel.
Send(type, c, from) ==
    /\ Len(cmds) < QueueCap
    /\ cmds' = Append(cmds, [type |-> type, cid |-> c, from |-> from])

\* DaemonSink gives up when the channel stays full for 5s.
Dropped == "slowSocket" \in Faults /\ Len(cmds) = QueueCap /\ UNCHANGED cmds

Answered(c, d) == decided' = [decided EXCEPT ![c] = @ \cup {d}]

\* The sender stops waiting: a late acknowledgement reaches nobody.
Abandon(a) ==
    cmds' = [i \in DOMAIN cmds |->
                IF cmds[i].from = a THEN [cmds[i] EXCEPT !.from = None]
                                    ELSE cmds[i]]

Forget(index, c) ==
    [index EXCEPT ![Identity(c)] = IF @ = c THEN None ELSE @]

Mark(c, status) ==
    sess' = [sess EXCEPT ![c] = IF @ = "absent" THEN @ ELSE status]

\* Cancelling the context of authTimeout.
CancelTimeout(c) ==
    [tpc EXCEPT ![c] = IF @ = "wait" THEN "cancelled" ELSE @]

\* A cancelled expiry timer, and one that finds its entry gone, does nothing.
StopExpiry(c) == [xpc EXCEPT ![c] = IF @ = "run" THEN "done" ELSE @]

HandleDisconnect(c) ==
    IF cids[c] = {}
    THEN UNCHANGED <<cids, attempt, active, sess, tpc, dctx, xpc>>
    ELSE /\ cids' = [cids EXCEPT ![c] = {}]
         /\ active' = Forget(active, c)
         /\ attempt' = Forget(attempt, c)
         /\ dctx' = dctx \ {c}
         /\ xpc' = StopExpiry(c)
         /\ IF "cancel" \in cids[c]
            THEN /\ tpc' = CancelTimeout(c)
                 /\ sess' = [sess EXCEPT ![c] = "absent"]
            ELSE UNCHANGED <<tpc, sess>>

\* Mutant: nobody watches for the establishment.
PromoteUnwatched(c) ==
    IF "cancel" \in cids[c]
    THEN /\ cids' = [cids EXCEPT ![c] = (@ \ {"cancel"}) \cup {"promoted"}]
         /\ tpc' = CancelTimeout(c)
         /\ sess' = [sess EXCEPT ![c] = "absent"]
         /\ dctx' = dctx \cup {c}
         /\ UNCHANGED dpc
    ELSE UNCHANGED <<cids, tpc, sess, dpc, dctx>>

\* MarkAuthenticated and ESTABLISHED: the attempt leaves the in-flight state
\* and a goroutine starts to watch for its establishment.
PromoteSession(c) ==
    IF "cancel" \in cids[c]
    THEN /\ cids' = [cids EXCEPT ![c] = (@ \ {"cancel"}) \cup {"promoted"}]
         /\ tpc' = CancelTimeout(c)
         /\ sess' = [sess EXCEPT ![c] = "absent"]
         /\ dpc' = [dpc EXCEPT ![c] = "wait"]
         /\ dctx' = dctx \cup {c}
    ELSE UNCHANGED <<cids, tpc, sess, dpc, dctx>>

CleanupPromoted(c) ==
    IF "promoted" \in cids[c]
    THEN /\ cids' = [cids EXCEPT ![c] = {}]
         /\ attempt' = Forget(attempt, c)
         /\ dctx' = dctx \ {c}
    ELSE UNCHANGED <<cids, attempt, dctx>>

\* Mutant: a promoted attempt loses its index entry too.
ClearInFlightAlways(c) ==
    /\ cids' = [cids EXCEPT ![c] = @ \ {"cancel"}]
    /\ attempt' = Forget(attempt, c)

ClearInFlight(c) ==
    /\ cids' = [cids EXCEPT ![c] = @ \ {"cancel"}]
    /\ attempt' = IF cids[c] # {} /\ "promoted" \notin cids[c]
                  THEN Forget(attempt, c) ELSE attempt

\* a calls establishCID(c, ...).
CallEstablish(a, c, auth) ==
    est' = [est EXCEPT ![a] = [pc |-> "lock", cid |-> c, old |-> None,
                               auth |-> auth]]

-----------------------------------------------------------------------------
(* OpenVPN, as the daemon sees it through the management socket. *)

daemonVars == <<sess, cids, attempt, active, loopVars, est, goVars, reqVars,
                decided>>

\* A client reaches the point where OpenVPN asks for its authentication.
VpnConnect(c) ==
    /\ vpn[c] = "none"
    /\ vpn' = [vpn EXCEPT ![c] = "pending"]
    /\ events' = Append(events, [type |-> "CONNECT", cid |-> c])
    /\ UNCHANGED <<closing, urls, cmds, ack, snap, daemonVars>>

VpnEstablish(c) ==
    /\ vpn[c] = "authed" /\ c \notin closing
    /\ vpn' = [vpn EXCEPT ![c] = "up"]
    /\ events' = Append(events, [type |-> "ESTABLISHED", cid |-> c])
    /\ UNCHANGED <<closing, urls, cmds, ack, snap, daemonVars>>

\* The client goes away, by itself or because it was told to.
VpnLeave(c) ==
    /\ vpn[c] \in Present
    /\ c \in Leavers \cup closing
    /\ vpn' = [vpn EXCEPT ![c] = "gone"]
    /\ closing' = closing \ {c}
    /\ events' = Append(events, [type |-> "DISCONNECT", cid |-> c])
    /\ UNCHANGED <<urls, cmds, ack, snap, daemonVars>>

\* Does OpenVPN accept the command?
Accepts(cmd) ==
    CASE cmd.type = "kill" -> vpn[cmd.cid] \in Present
      [] OTHER -> vpn[cmd.cid] = "pending" /\ cmd.cid \notin closing

\* commandBrokerForwarder passes the oldest command on and its sender, if it
\* still waits, gets the response.
Execute ==
    /\ cmds # <<>>
    /\ LET cmd == Head(cmds)
           ok == Accepts(cmd)
       IN  /\ vpn' = IF ok /\ cmd.type = "allow"
                     THEN [vpn EXCEPT ![cmd.cid] = "authed"] ELSE vpn
           /\ urls' = IF ok /\ cmd.type = "pending"
                      THEN urls \cup {cmd.cid} ELSE urls
           /\ closing' = IF ok /\ cmd.type \in {"deny", "kill"}
                         THEN closing \cup {cmd.cid} ELSE closing
           /\ ack' = IF cmd.from = None THEN ack
                     ELSE [ack EXCEPT ![cmd.from] = IF ok THEN "ok" ELSE "err"]
    /\ cmds' = Tail(cmds)
    /\ UNCHANGED <<events, snap, daemonVars>>

\* The CIDs whose row actor a has asked a status for.
StatusWanted(a) ==
    IF est[a].pc = "status" THEN {est[a].old}
    ELSE IF a = Loop THEN (IF lpc = "status" THEN {lold} ELSE {})
    ELSE IF dpc[a] \in {"status1", "status2", "status3"} THEN {a} ELSE {}

\* Mutant: a row without a virtual address counts as established.
RowIgnoresAddress(c) ==
    IF vpn[c] \in {"none", "gone"} THEN "absent" ELSE "established"

Row(c) ==
    CASE vpn[c] \in {"none", "gone"} -> "absent"
      [] vpn[c] \in {"pending", "authed"} -> "pending"
      [] OTHER -> "established"

\* brokerStatusProvider.Status: the snapshot is of this moment; the caller
\* uses it later.
StatusTake(a) ==
    /\ snap[a] = "none"
    /\ \E c \in StatusWanted(a) \cap Cids : snap' = [snap EXCEPT ![a] = Row(c)]
    /\ UNCHANGED <<ovpnVars, cmds, ack, daemonVars>>

\* Broken or late response, or the context of a deadline was cancelled.
StatusFails(a) ==
    /\ snap[a] = "none"
    /\ StatusWanted(a) # {}
    /\ \/ "status" \in Faults
       \/ a \in Cids \ dctx /\ est[a].pc # "status"
    /\ snap' = [snap EXCEPT ![a] = "failed"]
    /\ UNCHANGED <<ovpnVars, cmds, ack, daemonVars>>

Used(a) == snap' = [snap EXCEPT ![a] = "none"]

\* a waits for the response to the command it sent.
AckIs(a, value) == ack[a] = value /\ ack' = [ack EXCEPT ![a] = "none"]

\* The response says no, or does not come within 5s.
AckFails(a) ==
    \/ AckIs(a, "err") /\ UNCHANGED cmds
    \/ /\ "slowSocket" \in Faults
       /\ ack[a] = "none"
       /\ Abandon(a)
       /\ UNCHANGED ack

-----------------------------------------------------------------------------
(* The event loop. *)

LoopAt(pc) == lpc = pc /\ est[Loop].pc = "none"
LoopGo(pc) == lpc' = pc /\ UNCHANGED lold

\* HandleEvent works on the oldest notification; in the model it leaves the
\* queue when its handler returns, which no other goroutine can tell.
Handling(type) == LoopAt("idle") /\ events # <<>> /\ Head(events).type = type
lcid == Head(events).cid
LoopReturn == lpc' = "idle" /\ lold' = None /\ events' = Tail(events)

\* The CID that holds the attempt of lcid's identity.
Existing == attempt[Identity(lcid)]

\* No WebAuth, no or invalid common name, no randomness, URL too long.
ConnectReject ==
    /\ Handling("CONNECT")
    /\ LoopGo("deny")
    /\ UNCHANGED <<ovpnVars, cmds, ack, snap, sess, cids, attempt, active, est,
                   goVars, reqVars, decided>>

\* Put and the new cidState; the identity's attempt index points to it.
Track(c, others) ==
    /\ cids' = [others EXCEPT ![c] = {"tracked", "cancel"}]
    /\ attempt' = [attempt EXCEPT ![Identity(c)] = c]

\* Mutant: the test for a superseded attempt is dropped.
AdmitAsSuperseding ==
    /\ Handling("CONNECT")
    /\ Held(Existing) \cap {"promoted", "cancel"} = {}
    /\ sess' = [sess EXCEPT ![lcid] = "PENDING"]
    /\ Track(lcid, cids)
    /\ LoopGo("superseded")
    /\ UNCHANGED <<ovpnVars, cmds, ack, snap, active, est, goVars, reqVars,
                   decided>>

ConnectAdmit ==
    /\ Handling("CONNECT")
    /\ Held(Existing) \cap {"promoted", "cancel"} = {}
    /\ sess' = [sess EXCEPT ![lcid] = "PENDING"]
    /\ Track(lcid, cids)
    /\ LoopGo("pend")
    /\ UNCHANGED <<ovpnVars, cmds, ack, snap, active, est, goVars, reqVars,
                   decided>>

\* Mutant: an attempt whose callback is running can be superseded.
SupersedableEvenProcessing(c) == sess[c] \in {"PENDING", "PROCESSING"}

\* SupersedePending succeeds only on a pending session.
Supersedable(c) == sess[c] = "PENDING"

\* SupersedePending wins over the callback: the old attempt is failed, its
\* timeout cancelled, and the new one takes the index.
ConnectSupersede ==
    /\ Handling("CONNECT")
    /\ "cancel" \in Held(Existing) /\ "promoted" \notin Held(Existing)
    /\ Supersedable(Existing)
    /\ sess' = [sess EXCEPT ![Existing] = "FAILED", ![lcid] = "PENDING"]
    /\ Track(lcid, [cids EXCEPT ![Existing] = @ \ {"cancel"}])
    /\ tpc' = CancelTimeout(Existing)
    /\ lpc' = "superseded" /\ lold' = Existing
    /\ UNCHANGED <<ovpnVars, cmds, ack, snap, active, est, dpc, dctx, xpc,
                   reqVars, decided>>

\* The callback of the old attempt is running, or its session is over.
ConnectBusy ==
    /\ Handling("CONNECT")
    /\ "cancel" \in Held(Existing) /\ "promoted" \notin Held(Existing)
    /\ ~Supersedable(Existing)
    /\ LoopGo("deny")
    /\ UNCHANGED <<ovpnVars, cmds, ack, snap, sess, cids, attempt, active, est,
                   goVars, reqVars, decided>>

\* A promoted attempt holds the identity: ask OpenVPN what became of it.
ConnectPromotedConflict ==
    /\ Handling("CONNECT")
    /\ "promoted" \in Held(Existing)
    /\ lpc' = "status" /\ lold' = Existing
    /\ UNCHANGED <<ovpnVars, cmds, ack, snap, sess, cids, attempt, active, est,
                   goVars, reqVars, decided>>

\* It is gone: clean up and handle the CONNECT again.
ConflictAbsent ==
    /\ LoopAt("status")
    /\ snap[Loop] = "absent" /\ Used(Loop)
    /\ CleanupPromoted(lold)
    /\ lpc' = "idle" /\ lold' = None
    /\ UNCHANGED <<ovpnVars, cmds, ack, sess, active, est, tpc, dpc, xpc,
                   reqVars, decided>>

ConflictEstablished ==
    /\ LoopAt("status")
    /\ snap[Loop] = "established" /\ Used(Loop)
    /\ CallEstablish(Loop, lold, TRUE)
    /\ LoopGo("deny")
    /\ UNCHANGED <<ovpnVars, cmds, ack, sess, cids, attempt, active, goVars,
                   reqVars, decided>>

ConflictUndecided ==
    /\ LoopAt("status")
    /\ snap[Loop] \in {"pending", "failed"} /\ Used(Loop)
    /\ LoopGo("deny")
    /\ UNCHANGED <<ovpnVars, cmds, ack, sess, cids, attempt, active, est,
                   goVars, reqVars, decided>>

\* client-deny for the superseded CID.
DenySuperseded ==
    /\ LoopAt("superseded")
    /\ Send("deny", lold, None) /\ Answered(lold, "deny")
    /\ LoopGo("pend")
    /\ UNCHANGED <<ovpnVars, ack, snap, sess, cids, attempt, active, est,
                   goVars, reqVars>>

\* Mutant: no timeout goroutine.
SendPendingUntimed ==
    /\ LoopAt("pend")
    /\ Send("pending", lcid, None)
    /\ LoopReturn
    /\ UNCHANGED <<vpn, closing, urls, ack, snap, sess, cids, attempt, active,
                   est, goVars, reqVars, decided>>

\* client-pending-auth, and the timeout goroutine starts.
SendPending ==
    /\ LoopAt("pend")
    /\ Send("pending", lcid, None)
    /\ tpc' = [tpc EXCEPT ![lcid] = "wait"]
    /\ LoopReturn
    /\ UNCHANGED <<vpn, closing, urls, ack, snap, sess, cids, attempt, active,
                   est, dpc, dctx, xpc, reqVars, decided>>

DenyConnect ==
    /\ LoopAt("deny")
    /\ Send("deny", lcid, None) /\ Answered(lcid, "deny")
    /\ LoopReturn
    /\ UNCHANGED <<vpn, closing, urls, ack, snap, sess, cids, attempt, active,
                   est, goVars, reqVars>>

\* ESTABLISHED: promoteSession, then onEstablished.
Established ==
    /\ Handling("ESTABLISHED")
    /\ PromoteSession(lcid)
    /\ CallEstablish(Loop, lcid, FALSE)
    /\ LoopReturn
    /\ UNCHANGED <<vpn, closing, urls, cmds, ack, snap, attempt, active, xpc,
                   reqVars, decided>>

Disconnect ==
    /\ Handling("DISCONNECT")
    /\ HandleDisconnect(lcid)
    /\ LoopReturn
    /\ UNCHANGED <<vpn, closing, urls, cmds, ack, snap, est, dpc, reqVars,
                   decided>>

LoopNext ==
    \/ ConnectReject \/ ConnectAdmit \/ ConnectSupersede \/ ConnectBusy
    \/ ConnectPromotedConflict
    \/ ConflictAbsent \/ ConflictEstablished \/ ConflictUndecided
    \/ DenySuperseded \/ SendPending \/ DenyConnect
    \/ Established \/ Disconnect

-----------------------------------------------------------------------------
(* establishCID, called by the event loop and by deadline goroutines. *)

EstReturn(a) == est' = [est EXCEPT ![a] = Idle]

\* Mutant: the replaced CID is not marked.
KeepUnmarked(old) == cids

\* The replaced CID is marked for eviction and loses its expiry timer.
MarkEviction(old) ==
    IF Held(old) = {} THEN cids
    ELSE [cids EXCEPT ![old] = (@ \ {"expiry"}) \cup {"evictionRequested"}]

\* The section under the lock: c becomes the active CID of its identity and
\* the one it replaces, if any, is marked for eviction.
EstLock(a) ==
    /\ est[a].pc = "lock"
    /\ LET c == est[a].cid
           old == active[Identity(c)]
           replaced == old \notin {None, c}
           timed == /\ MaxSessionDuration
                    /\ "promoted" \in cids[c] \/ est[a].auth
                    /\ "established" \notin cids[c]
           marked == IF replaced THEN MarkEviction(old) ELSE cids
       IN  IF cids[c] = {}
           THEN /\ EstReturn(a)
                /\ UNCHANGED <<cids, attempt, active, dctx, xpc>>
           ELSE /\ cids' = [marked EXCEPT ![c] = (@ \ {"promoted"})
                                                 \cup {"established"}]
                /\ dctx' = dctx \ {c}
                /\ attempt' = Forget(attempt, c)
                /\ active' = [active EXCEPT ![Identity(c)] = c]
                /\ xpc' = IF replaced THEN StopExpiry(old) ELSE xpc
                /\ est' = [est EXCEPT ![a].pc = IF timed THEN "timer"
                                                ELSE IF replaced THEN "kill"
                                                ELSE "none",
                                      ![a].old = IF replaced THEN old
                                                 ELSE None]
    /\ UNCHANGED <<ovpnVars, cmds, ack, snap, sess, loopVars, tpc, dpc,
                   reqVars, decided>>

\* Mutant: starting the timer ends establishCID.
TimerThenReturn(a) ==
    /\ est[a].pc = "timer"
    /\ LET c == est[a].cid
       IN  IF cids[c] = {} THEN UNCHANGED <<cids, xpc>>
           ELSE /\ cids' = [cids EXCEPT ![c] = @ \cup {"expiry"}]
                /\ xpc' = [xpc EXCEPT ![c] = "run"]
    /\ EstReturn(a)
    /\ UNCHANGED <<ovpnVars, cmds, ack, snap, sess, attempt, active, loopVars,
                   tpc, dpc, dctx, reqVars, decided>>

\* startExpiryTimer; nothing is started for a CID that is gone by now.
EstTimer(a) ==
    /\ est[a].pc = "timer"
    /\ LET c == est[a].cid
       IN  IF cids[c] = {} THEN UNCHANGED <<cids, xpc>>
           ELSE /\ cids' = [cids EXCEPT ![c] = @ \cup {"expiry"}]
                /\ xpc' = [xpc EXCEPT ![c] = "run"]
    /\ est' = [est EXCEPT ![a].pc = IF est[a].old = None THEN "none"
                                    ELSE "kill"]
    /\ UNCHANGED <<ovpnVars, cmds, ack, snap, sess, attempt, active, loopVars,
                   tpc, dpc, dctx, reqVars, decided>>

\* killReplacedActive.
EstKill(a) ==
    /\ est[a].pc = "kill"
    /\ Send("kill", est[a].old, a)
    /\ est' = [est EXCEPT ![a].pc = "killwait"]
    /\ UNCHANGED <<ovpnVars, ack, snap, sess, cids, attempt, active, loopVars,
                   goVars, reqVars, decided>>

EstKillAccepted(a) ==
    /\ est[a].pc = "killwait"
    /\ AckIs(a, "ok")
    /\ EstReturn(a)
    /\ UNCHANGED <<ovpnVars, cmds, snap, sess, cids, attempt, active, loopVars,
                   goVars, reqVars, decided>>

EstKillFailed(a) ==
    /\ est[a].pc = "killwait"
    /\ AckFails(a)
    /\ est' = [est EXCEPT ![a].pc = "status"]
    /\ UNCHANGED <<ovpnVars, snap, sess, cids, attempt, active, loopVars,
                   goVars, reqVars, decided>>

\* Mutant: a failed status request is taken for absence.
FailureIsAbsence(a) == snap[a] \in {"absent", "failed"}

SnapshotAbsent(a) == snap[a] = "absent"

\* The failed kill is settled by the snapshot.
EstReconcile(a) ==
    /\ est[a].pc = "status"
    /\ snap[a] # "none" /\ Used(a)
    /\ IF SnapshotAbsent(a) THEN HandleDisconnect(est[a].old)
       ELSE UNCHANGED <<cids, attempt, active, sess, tpc, dctx, xpc>>
    /\ EstReturn(a)
    /\ UNCHANGED <<ovpnVars, cmds, ack, loopVars, dpc, reqVars, decided>>

EstNext(a) ==
    \/ EstLock(a) \/ EstTimer(a) \/ EstKill(a)
    \/ EstKillAccepted(a) \/ EstKillFailed(a) \/ EstReconcile(a)

-----------------------------------------------------------------------------
(* waitForPromotedDeadline. *)

DeadlineGo(c, pc) == dpc' = [dpc EXCEPT ![c] = pc]

\* The hand window, or the grace period, is over.
DeadlineFires(c) ==
    /\ \/ dpc[c] = "wait" /\ DeadlineGo(c, "status1")
       \/ dpc[c] = "grace" /\ DeadlineGo(c, "status2")
    /\ UNCHANGED <<ovpnVars, cmds, ack, snap, sess, cids, attempt, active,
                   loopVars, est, tpc, dctx, xpc, reqVars, decided>>

DeadlineCancelled(c) ==
    /\ dpc[c] \in {"wait", "grace"}
    /\ c \notin dctx
    /\ DeadlineGo(c, "done")
    /\ UNCHANGED <<ovpnVars, cmds, ack, snap, sess, cids, attempt, active,
                   loopVars, est, tpc, dctx, xpc, reqVars, decided>>

\* reconcilePromoted acts on the snapshot.
DeadlineReconciles(c) ==
    /\ dpc[c] \in {"status1", "status2", "status3"}
    /\ est[c].pc = "none"
    /\ snap[c] # "none" /\ Used(c)
    /\ DeadlineGo(c, IF snap[c] # "pending" THEN "done"
                     ELSE CASE dpc[c] = "status1" -> "grace"
                            [] dpc[c] = "status2" -> "kill"
                            [] OTHER -> "done")
    /\ IF snap[c] = "absent" THEN CleanupPromoted(c)
       ELSE UNCHANGED <<cids, attempt, dctx>>
    /\ IF snap[c] = "established" THEN CallEstablish(c, c, TRUE)
       ELSE UNCHANGED est
    /\ UNCHANGED <<ovpnVars, cmds, ack, sess, active, loopVars, tpc, xpc,
                   reqVars, decided>>

\* killStalledPromoted: the check under the lock, then the send.
DeadlineChecks(c) ==
    /\ dpc[c] = "kill"
    /\ DeadlineGo(c, IF "promoted" \in cids[c] THEN "killsend" ELSE "done")
    /\ UNCHANGED <<ovpnVars, cmds, ack, snap, sess, cids, attempt, active,
                   loopVars, est, tpc, dctx, xpc, reqVars, decided>>

DeadlineKills(c) ==
    /\ dpc[c] = "killsend"
    /\ Send("kill", c, c)
    /\ DeadlineGo(c, "killwait")
    /\ UNCHANGED <<ovpnVars, ack, snap, sess, cids, attempt, active, loopVars,
                   est, tpc, dctx, xpc, reqVars, decided>>

DeadlineAcked(c) ==
    /\ dpc[c] = "killwait"
    /\ \/ AckIs(c, "ok") /\ DeadlineGo(c, "done") /\ UNCHANGED cmds
       \/ AckFails(c) /\ DeadlineGo(c, "status3")
    /\ UNCHANGED <<ovpnVars, snap, sess, cids, attempt, active, loopVars, est,
                   tpc, dctx, xpc, reqVars, decided>>

DeadlineNext(c) ==
    \/ DeadlineFires(c) \/ DeadlineCancelled(c) \/ DeadlineReconciles(c)
    \/ DeadlineChecks(c) \/ DeadlineKills(c) \/ DeadlineAcked(c)

-----------------------------------------------------------------------------
(* authTimeout. *)

TimeoutGo(c, pc) == tpc' = [tpc EXCEPT ![c] = pc]

\* Mutant: the error of TryProcess is ignored.
TimeoutIgnoresStatus(c) ==
    /\ tpc[c] \in {"wait", "cancelled"}
    /\ TimeoutGo(c, "won") /\ Mark(c, "PROCESSING")
    /\ UNCHANGED <<ovpnVars, cmds, ack, snap, cids, attempt, active, loopVars,
                   est, dpc, dctx, xpc, reqVars, decided>>

\* The timer fires, possibly at the moment the context is cancelled too.
TimeoutFires(c) ==
    /\ tpc[c] \in {"wait", "cancelled"}
    /\ IF sess[c] = "PENDING"
       THEN TimeoutGo(c, "won") /\ Mark(c, "PROCESSING")
       ELSE TimeoutGo(c, "clear") /\ UNCHANGED sess
    /\ UNCHANGED <<ovpnVars, cmds, ack, snap, cids, attempt, active, loopVars,
                   est, dpc, dctx, xpc, reqVars, decided>>

TimeoutMarksFailed(c) ==
    /\ tpc[c] = "won"
    /\ TimeoutGo(c, "deny")
    /\ Mark(c, "FAILED")
    /\ UNCHANGED <<ovpnVars, cmds, ack, snap, cids, attempt, active, loopVars,
                   est, dpc, dctx, xpc, reqVars, decided>>

TimeoutDenies(c) ==
    /\ tpc[c] = "deny"
    /\ TimeoutGo(c, "clear")
    /\ \/ Send("deny", c, None) /\ Answered(c, "deny")
       \/ Dropped /\ UNCHANGED decided
    /\ UNCHANGED <<ovpnVars, ack, snap, sess, cids, attempt, active, loopVars,
                   est, dpc, dctx, xpc, reqVars>>

\* The deferred clearInFlight, at once if the context is cancelled.
TimeoutClears(c) ==
    /\ tpc[c] \in {"cancelled", "clear"}
    /\ TimeoutGo(c, "done")
    /\ ClearInFlight(c)
    /\ UNCHANGED <<ovpnVars, cmds, ack, snap, sess, active, loopVars, est, dpc,
                   dctx, xpc, reqVars, decided>>

TimeoutNext(c) ==
    \/ TimeoutFires(c) \/ TimeoutMarksFailed(c)
    \/ TimeoutDenies(c) \/ TimeoutClears(c)

-----------------------------------------------------------------------------
(* sessionExpiryTimer and the reaper of the session store. *)

\* Mutant: the entry is looked up the wrong way round.
ExpiryFiresInverted(c) ==
    /\ xpc[c] = "run"
    /\ xpc' = [xpc EXCEPT ![c] = IF "expiry" \in cids[c] THEN "done"
                                 ELSE "kill"]
    /\ UNCHANGED <<ovpnVars, cmds, ack, snap, sess, cids, attempt, active,
                   loopVars, est, tpc, dpc, dctx, reqVars, decided>>

ExpiryFires(c) ==
    /\ xpc[c] = "run"
    /\ xpc' = [xpc EXCEPT ![c] = IF "expiry" \in cids[c] THEN "kill"
                                 ELSE "done"]
    /\ UNCHANGED <<ovpnVars, cmds, ack, snap, sess, cids, attempt, active,
                   loopVars, est, tpc, dpc, dctx, reqVars, decided>>

ExpiryKills(c) ==
    /\ xpc[c] = "kill"
    /\ Send("kill", c, None)
    /\ xpc' = [xpc EXCEPT ![c] = "done"]
    /\ UNCHANGED <<ovpnVars, ack, snap, sess, cids, attempt, active, loopVars,
                   est, tpc, dpc, dctx, reqVars, decided>>

ExpiryNext(c) == ExpiryFires(c) \/ ExpiryKills(c)

\* A session lives twice the hand window, longer than its auth timeout.
Reap(c) ==
    /\ sess[c] # "absent"
    /\ tpc[c] = "done"
    /\ sess' = [sess EXCEPT ![c] = "absent"]
    /\ UNCHANGED <<ovpnVars, cmds, ack, snap, cids, attempt, active, loopVars,
                   est, goVars, reqVars, decided>>

-----------------------------------------------------------------------------
(* handleCallback.  A request that loses TryProcess changes nothing. *)

RequestGo(r, pc) == rpc' = [rpc EXCEPT ![r] = pc] /\ UNCHANGED rsid

CallbackStart(r) ==
    /\ rpc[r] = "idle"
    /\ \E c \in urls :
          /\ sess[c] = "PENDING"
          /\ Mark(c, "PROCESSING")
          /\ rsid' = [rsid EXCEPT ![r] = c]
    /\ rpc' = [rpc EXCEPT ![r] = "verify"]
    /\ UNCHANGED <<ovpnVars, cmds, ack, snap, cids, attempt, active, loopVars,
                   est, goVars, decided>>

\* The ALB public key cannot be fetched: the user may try again.
CallbackRetryable(r) ==
    /\ rpc[r] = "verify"
    /\ "keyFetch" \in Faults
    /\ Mark(rsid[r], "PENDING")
    /\ RequestGo(r, "done")
    /\ UNCHANGED <<ovpnVars, cmds, ack, snap, cids, attempt, active, loopVars,
                   est, goVars, decided>>

\* denySession: MarkFailed, then client-deny.
CallbackReject(r) ==
    /\ rpc[r] = "verify"
    /\ Mark(rsid[r], "FAILED")
    /\ RequestGo(r, "deny")
    /\ UNCHANGED <<ovpnVars, cmds, ack, snap, cids, attempt, active, loopVars,
                   est, goVars, decided>>

CallbackDenies(r) ==
    /\ rpc[r] = "deny"
    /\ \/ Send("deny", rsid[r], None) /\ Answered(rsid[r], "deny")
       \/ Dropped /\ UNCHANGED decided
    /\ RequestGo(r, "done")
    /\ UNCHANGED <<ovpnVars, ack, snap, sess, cids, attempt, active, loopVars,
                   est, goVars>>

\* All checks passed: client-auth, and wait for its acknowledgement.
CallbackAllows(r) ==
    /\ rpc[r] = "verify"
    /\ Send("allow", rsid[r], r) /\ Answered(rsid[r], "allow")
    /\ RequestGo(r, "ackwait")
    /\ UNCHANGED <<ovpnVars, ack, snap, sess, cids, attempt, active, loopVars,
                   est, goVars>>

\* No room for client-auth: failed, and no client-deny.
CallbackAllowDropped(r) ==
    /\ rpc[r] = "verify"
    /\ Dropped
    /\ Mark(rsid[r], "FAILED")
    /\ RequestGo(r, "failed")
    /\ UNCHANGED <<ovpnVars, ack, snap, cids, attempt, active, loopVars, est,
                   goVars, decided>>

CallbackRefused(r) ==
    /\ rpc[r] = "ackwait"
    /\ AckFails(r)
    /\ Mark(rsid[r], "FAILED")
    /\ RequestGo(r, "failed")
    /\ UNCHANGED <<ovpnVars, snap, cids, attempt, active, loopVars, est,
                   goVars, decided>>

\* client-auth was accepted: MarkAuthenticated.
CallbackMarksAuthenticated(r) ==
    /\ rpc[r] = "ackwait"
    /\ AckIs(r, "ok")
    /\ PromoteSession(rsid[r])
    /\ RequestGo(r, "markdone")
    /\ UNCHANGED <<ovpnVars, cmds, snap, attempt, active, loopVars, est, xpc,
                   decided>>

CallbackMarksDone(r) ==
    /\ rpc[r] = "markdone"
    /\ Mark(rsid[r], "DONE")
    /\ RequestGo(r, "done")
    /\ UNCHANGED <<ovpnVars, cmds, ack, snap, cids, attempt, active, loopVars,
                   est, goVars, decided>>

\* What a request does by itself once the browser has sent it.
CallbackNext(r) ==
    \/ CallbackRetryable(r) \/ CallbackReject(r) \/ CallbackDenies(r)
    \/ CallbackAllows(r) \/ CallbackAllowDropped(r) \/ CallbackRefused(r)
    \/ CallbackMarksAuthenticated(r) \/ CallbackMarksDone(r)

-----------------------------------------------------------------------------
StatusNext(a) == StatusTake(a) \/ StatusFails(a)

Next ==
    \/ \E c \in Cids : VpnConnect(c) \/ VpnEstablish(c) \/ VpnLeave(c)
    \/ Execute
    \/ LoopNext
    \/ \E a \in Actors : StatusNext(a) \/ EstNext(a)
    \/ \E c \in Cids : \/ DeadlineNext(c) \/ TimeoutNext(c)
                       \/ ExpiryNext(c) \/ Reap(c)
    \/ \E r \in Reqs : CallbackStart(r) \/ CallbackNext(r)

Spec == Init /\ [][Next]_vars

\* Goroutines that can run do run, timers fire, and OpenVPN executes commands
\* and lets go of the clients it was told to drop.  Clients and browsers are
\* free to do nothing.
Fairness ==
    /\ WF_vars(Execute)
    /\ WF_vars(LoopNext)
    /\ \A a \in Actors : WF_vars(StatusNext(a)) /\ WF_vars(EstNext(a))
    /\ \A c \in Cids : /\ WF_vars(c \in closing /\ VpnLeave(c))
                       /\ WF_vars(DeadlineNext(c))
                       /\ WF_vars(TimeoutNext(c))
                       /\ WF_vars(ExpiryNext(c))
    /\ \A r \in Reqs : WF_vars(CallbackNext(r))

FairSpec == Spec /\ Fairness

-----------------------------------------------------------------------------
(* Properties. *)

Answerable == {"allow", "deny"}

\* However the timeout goroutine, the callback requests and a newer CONNECT
\* race for a session, OpenVPN is never handed both client-auth and
\* client-deny for the same CONNECT (SessionStore.TryProcess and
\* SupersedePending pick one winner).
DecidedOnce == \A c \in Cids : ~(Answerable \subseteq decided[c])

\* identityToAttemptCID and the cidState entries agree: a CID is the attempt of
\* its identity exactly while it is in flight (cancel set) or promoted.  So an
\* identity has at most one tracked attempt, and the two defensive branches of
\* handleConnect for a dead index entry are unreachable.
AttemptIndexExact ==
    \A c \in Cids :
        attempt[Identity(c)] = c <=> cids[c] \cap {"cancel", "promoted"} # {}

\* Of the established CIDs of an identity all but the active one have been
\* marked for eviction by establishCID, whichever goroutines called it and in
\* whatever order ESTABLISHED events and status snapshots were applied.
OneOwner ==
    \A c \in Cids :
        "established" \in cids[c] /\ "evictionRequested" \notin cids[c]
            => active[Identity(c)] = c

\* identityToActiveCID names a tracked, established CID that OpenVPN really
\* brought up: ownership is never given to a client that was not let in.
ActiveIsReal ==
    \A i \in Identities :
        active[i] # None =>
            /\ Identity(active[i]) = i
            /\ "established" \in cids[active[i]]
            /\ vpn[active[i]] \in {"up", "gone"}

\* The daemon forgets a CID only once OpenVPN has no such client any more: an
\* evicted, stalled or replaced CID stays tracked until DISCONNECT or a
\* snapshot without it (handleDisconnect, cleanupPromoted), even if the
\* snapshot is applied late.
TrackingOutlivesClient ==
    [][\A c \in Cids : cids[c] # {} /\ cids'[c] = {} => vpn[c] = "gone"]_vars

Store == INSTANCE SessionStore WITH Sids <- Cids, status <- sess

\* The callers of the permissive SessionStore keep to the life of a session
\* described in SessionStore: no status is overwritten by a late MarkDone,
\* MarkFailed or MarkPending, and the answer follows a won claim.
ImplementsSessionStore == Store!StoreSpec

\* A client that OpenVPN holds for authentication is answered unless it goes
\* away: the callback decides or authTimeout sends client-deny.
PendingAnswered ==
    \A c \in Cids : vpn[c] = "pending" ~> decided[c] # {} \/ vpn[c] = "gone"

\* A CID promoted by the callback leaves that state: established, found absent
\* or killed by its deadline goroutine.
PromotedResolves ==
    \A c \in Cids : "promoted" \in cids[c] ~> "promoted" \notin cids[c]

\* A replaced active CID is really evicted and its tracking ends.
EvictionCompletes ==
    \A c \in Cids : "evictionRequested" \in cids[c] ~> cids[c] = {}

\* A client under an expiry timer is disconnected in the end.
ExpiryEnds == \A c \in Cids : "expiry" \in cids[c] ~> vpn[c] = "gone"

\* With a maximal session duration every established client is disconnected in
\* the end (sessionExpiryTimer).
SessionsAreBounded == \A c \in Cids : vpn[c] = "up" ~> vpn[c] = "gone"
=============================================================================
